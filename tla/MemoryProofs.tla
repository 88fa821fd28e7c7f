---------------------------- MODULE MemoryProofs ----------------------------
(***************************************************************************)
(* Theorems about FirstFit and Memory, for any number of pages, processes  *)
(* and executables and any size of the address space.                      *)
(*                                                                         *)
(* The free list is a sequence of blocks that are apart from each other;   *)
(* giving and taking pages replaces a few neighbours in it by one block.   *)
(* On top of it every page is free or has one user.                        *)
(***************************************************************************)
EXTENDS Memory, SequenceTheorems, FiniteSetTheorems, TLAPS

\* The loops of Memory.
Unmaps == INSTANCE Passes WITH Step <- page_remove_pte
UnmapsAreas == INSTANCE Passes WITH Step <- unmap_range
ExitsTables == INSTANCE Passes WITH Step <- exit_table
ExitsAreas == INSTANCE Passes WITH Step <- exit_range
CopiesPages == INSTANCE Passes WITH Step <- copy_page
CopiesAreas == INSTANCE Passes WITH Step <- copy_area
MapsPages == INSTANCE Passes WITH Step <- pgdir_alloc_page
LoadsPages == INSTANCE Passes WITH Step <- load_page
LoadsSegments == INSTANCE Passes WITH Step <- load_segment
CopiesStrings == INSTANCE Passes WITH Step <- copy_string
FreesPages == INSTANCE Passes WITH Step <- free_page

-----------------------------------------------------------------------------
(***************************************************************************)
(* Sequences.                                                              *)
(***************************************************************************)
\* InsertAt, member by member.
LEMMA InsertFacts ==
    ASSUME NEW X, NEW l \in Seq(X), NEW i \in 1 .. Len(l) + 1, NEW e \in X
    PROVE  /\ InsertAt(l, i, e) \in Seq(X)
           /\ Len(InsertAt(l, i, e)) = Len(l) + 1
           /\ \A k \in 1 .. i - 1 : InsertAt(l, i, e)[k] = l[k]
           /\ InsertAt(l, i, e)[i] = e
           /\ \A k \in i .. Len(l) : InsertAt(l, i, e)[k + 1] = l[k]
<1>1. Len(l) \in Nat /\ \A k \in 1 .. Len(l) : l[k] \in X
  BY LenProperties, ElementOfSeq
<1>2. PICK s, t : s = SubSeq(l, 1, i - 1) /\ t = SubSeq(l, i, Len(l))
  OBVIOUS
<1>3. s \in Seq(X) /\ Len(s) = i - 1 /\ \A k \in 1 .. i - 1 : s[k] = l[k]
  <2>1. \A k \in 1 .. i - 1 : l[k] \in X
    BY <1>1
  <2>2. /\ s \in Seq(X) /\ Len(s) = IF 1 <= i - 1 THEN i - 1 - 1 + 1 ELSE 0
        /\ \A k \in 1 .. i - 1 - 1 + 1 : s[k] = l[1 + k - 1]
    BY <1>1, <1>2, <2>1, SubSeqProperties
  <2> QED BY <1>1, <2>2
<1>4. /\ t \in Seq(X) /\ Len(t) = Len(l) - i + 1
      /\ \A k \in 1 .. Len(l) - i + 1 : t[k] = l[i + k - 1]
  <2>1. \A k \in i .. Len(l) : l[k] \in X
    BY <1>1
  <2>2. /\ t \in Seq(X) /\ Len(t) = IF i <= Len(l) THEN Len(l) - i + 1 ELSE 0
        /\ \A k \in 1 .. Len(l) - i + 1 : t[k] = l[i + k - 1]
    BY <1>1, <1>2, <2>1, SubSeqProperties
  <2> QED BY <1>1, <2>2
<1>5. PICK u : u = s \o <<e>>
  OBVIOUS
<1>6. /\ u \in Seq(X) /\ Len(u) = i
      /\ \A k \in 1 .. i : u[k] = IF k < i THEN l[k] ELSE e
  <2>1. Append(s, e) = u
    BY <1>3, <1>5, AppendIsConcat
  <2>2. /\ u \in Seq(X) /\ Len(u) = Len(s) + 1
        /\ \A k \in 1 .. Len(s) : u[k] = s[k]
        /\ u[Len(s) + 1] = e
    <3>1. /\ Append(s, e) \in Seq(X) /\ Len(Append(s, e)) = Len(s) + 1
          /\ \A k \in 1 .. Len(s) : Append(s, e)[k] = s[k]
          /\ Append(s, e)[Len(s) + 1] = e
      BY <1>3, AppendProperties
    <3> QED BY <2>1, <3>1
  <2>3. Len(s) + 1 = i
    BY <1>3
  <2>4. ASSUME NEW k \in 1 .. i PROVE u[k] = IF k < i THEN l[k] ELSE e
    BY <1>3, <2>2, <2>3
  <2> QED BY <2>2, <2>3, <2>4
<1>7. /\ u \o t \in Seq(X) /\ Len(u \o t) = Len(l) + 1
      /\ \A k \in 1 .. Len(l) + 1 : (u \o t)[k] = IF k <= i THEN u[k] ELSE t[k - i]
  <2>1. Len(u) = i /\ Len(u) + Len(t) = Len(l) + 1
    BY <1>1, <1>4, <1>6
  <2>2. /\ u \o t \in Seq(X) /\ Len(u \o t) = Len(u) + Len(t)
        /\ \A k \in 1 .. Len(u) + Len(t) : (u \o t)[k] = IF k <= Len(u) THEN u[k] ELSE t[k - Len(u)]
    BY <1>4, <1>6, ConcatProperties
  <2> QED BY <2>1, <2>2
<1>8. ASSUME NEW k \in 1 .. i - 1 PROVE (u \o t)[k] = l[k]
  <2>1. k \in 1 .. Len(l) + 1 /\ k <= i /\ k \in 1 .. i /\ k < i
    BY <1>1
  <2> QED BY <1>6, <1>7, <2>1
<1>9. (u \o t)[i] = e
  <2>1. i \in 1 .. Len(l) + 1 /\ i <= i /\ i \in 1 .. i /\ ~(i < i)
    BY <1>1
  <2> QED BY <1>6, <1>7, <2>1
<1>10. ASSUME NEW k \in i .. Len(l) PROVE (u \o t)[k + 1] = l[k]
  <2>1. /\ k + 1 \in 1 .. Len(l) + 1 /\ ~(k + 1 <= i)
        /\ k + 1 - i \in 1 .. Len(l) - i + 1 /\ i + (k + 1 - i) - 1 = k
    BY <1>1
  <2>2. (u \o t)[k + 1] = t[k + 1 - i]
    BY <1>7, <2>1
  <2>3. t[k + 1 - i] = l[i + (k + 1 - i) - 1]
    BY <1>4, <2>1
  <2> QED BY <2>1, <2>2, <2>3
<1>11. InsertAt(l, i, e) = u \o t
  BY <1>2, <1>5 DEF InsertAt
<1> QED BY <1>7, <1>8, <1>9, <1>10, <1>11

\* RemoveAt, member by member.
LEMMA RemoveFacts ==
    ASSUME NEW X, NEW l \in Seq(X), NEW i \in 1 .. Len(l)
    PROVE  /\ RemoveAt(l, i) \in Seq(X)
           /\ Len(RemoveAt(l, i)) = Len(l) - 1
           /\ \A k \in 1 .. Len(l) - 1 : RemoveAt(l, i)[k] = l[IF k < i THEN k ELSE k + 1]
<1>1. Len(l) \in Nat /\ \A k \in 1 .. Len(l) : l[k] \in X
  BY LenProperties, ElementOfSeq
<1>2. PICK s, t : s = SubSeq(l, 1, i - 1) /\ t = SubSeq(l, i + 1, Len(l))
  OBVIOUS
<1>3. s \in Seq(X) /\ Len(s) = i - 1 /\ \A k \in 1 .. i - 1 : s[k] = l[k]
  <2>1. \A k \in 1 .. i - 1 : l[k] \in X
    BY <1>1
  <2>2. /\ s \in Seq(X) /\ Len(s) = IF 1 <= i - 1 THEN i - 1 - 1 + 1 ELSE 0
        /\ \A k \in 1 .. i - 1 - 1 + 1 : s[k] = l[1 + k - 1]
    BY <1>1, <1>2, <2>1, SubSeqProperties
  <2> QED BY <1>1, <2>2
<1>4. /\ t \in Seq(X) /\ Len(t) = Len(l) - i
      /\ \A k \in 1 .. Len(l) - i : t[k] = l[i + k]
  <2>1. \A k \in i + 1 .. Len(l) : l[k] \in X
    BY <1>1
  <2>2. /\ t \in Seq(X) /\ Len(t) = IF i + 1 <= Len(l) THEN Len(l) - (i + 1) + 1 ELSE 0
        /\ \A k \in 1 .. Len(l) - (i + 1) + 1 : t[k] = l[i + 1 + k - 1]
    BY <1>1, <1>2, <2>1, SubSeqProperties
  <2>3. Len(t) = Len(l) - i
    BY <1>1, <2>2
  <2>4. ASSUME NEW k \in 1 .. Len(l) - i PROVE t[k] = l[i + k]
    <3>1. k \in 1 .. Len(l) - (i + 1) + 1 /\ i + 1 + k - 1 = i + k
      BY <1>1
    <3> QED BY <2>2, <3>1
  <2> QED BY <2>2, <2>3, <2>4
<1>5. /\ s \o t \in Seq(X) /\ Len(s \o t) = Len(l) - 1
      /\ \A k \in 1 .. Len(l) - 1 : (s \o t)[k] = IF k <= i - 1 THEN s[k] ELSE t[k - (i - 1)]
  <2>1. Len(s) = i - 1 /\ Len(s) + Len(t) = Len(l) - 1
    BY <1>1, <1>3, <1>4
  <2>2. /\ s \o t \in Seq(X) /\ Len(s \o t) = Len(s) + Len(t)
        /\ \A k \in 1 .. Len(s) + Len(t) : (s \o t)[k] = IF k <= Len(s) THEN s[k] ELSE t[k - Len(s)]
    BY <1>3, <1>4, ConcatProperties
  <2> QED BY <2>1, <2>2
<1>6. ASSUME NEW k \in 1 .. Len(l) - 1
      PROVE  (s \o t)[k] = l[IF k < i THEN k ELSE k + 1]
  <2>1. CASE k < i
    BY <1>1, <1>3, <1>5, <2>1
  <2>2. CASE ~(k < i)
    <3>1. k - (i - 1) \in 1 .. Len(l) - i /\ i + (k - (i - 1)) = k + 1 /\ ~(k <= i - 1)
      BY <1>1, <2>2
    <3>2. (s \o t)[k] = t[k - (i - 1)]
      BY <1>5, <3>1
    <3> QED BY <1>4, <2>2, <3>1, <3>2
  <2> QED BY <2>1, <2>2
<1>7. RemoveAt(l, i) = s \o t
  BY <1>2 DEF RemoveAt
<1> QED BY <1>5, <1>6, <1>7

\* ReplaceAt, member by member.
LEMMA ReplaceFacts ==
    ASSUME NEW X, NEW l \in Seq(X), NEW i \in 1 .. Len(l), NEW e \in X
    PROVE  /\ ReplaceAt(l, i, e) \in Seq(X)
           /\ Len(ReplaceAt(l, i, e)) = Len(l)
           /\ ReplaceAt(l, i, e)[i] = e
           /\ \A k \in 1 .. Len(l) : k # i => ReplaceAt(l, i, e)[k] = l[k]
BY DEF ReplaceAt

-----------------------------------------------------------------------------
(***************************************************************************)
(* Lists of blocks.                                                        *)
(***************************************************************************)
Blocks == [base : Page, property : Nat \ {0}]

LEMMA ReplaceBlock ==
    ASSUME NEW L \in Seq(Blocks), NEW i \in 1 .. Len(L), NEW B \in Blocks
    PROVE  /\ ReplaceAt(L, i, B) \in Seq(Blocks)
           /\ Len(ReplaceAt(L, i, B)) = Len(L)
           /\ ReplaceAt(L, i, B)[i] = B
           /\ \A k \in 1 .. Len(L) : k # i => ReplaceAt(L, i, B)[k] = L[k]
BY DEF ReplaceAt

FreeOf(L) == UNION {PagesOf(L[i]) : i \in DOMAIN L}
Heads(L) == {L[i].base : i \in DOMAIN L}
End(b) == b.base + b.property

\* Sorted, and a page or more between any block and the next one.
BlockList(L) ==
    /\ L \in Seq(Blocks)
    /\ \A i \in 1 .. Len(L) : End(L[i]) <= NPages + 1
    /\ \A i \in 1 .. Len(L) - 1 : End(L[i]) < L[i + 1].base

LEMMA BlockFacts ==
    ASSUME NEW L \in Seq(Blocks)
    PROVE  /\ Len(L) \in Nat /\ DOMAIN L = 1 .. Len(L)
           /\ \A i \in 1 .. Len(L) :
                /\ L[i] \in Blocks /\ L[i].base \in Page /\ L[i].base \in Nat /\ L[i].base > 0
                /\ L[i].property \in Nat /\ L[i].property > 0
                /\ End(L[i]) \in Nat /\ End(L[i]) > L[i].base
<1>1. Len(L) \in Nat /\ DOMAIN L = 1 .. Len(L)
  BY LenProperties
<1>2. ASSUME NEW i \in 1 .. Len(L)
      PROVE  /\ L[i] \in Blocks /\ L[i].base \in Page /\ L[i].base \in Nat /\ L[i].base > 0
             /\ L[i].property \in Nat /\ L[i].property > 0
             /\ End(L[i]) \in Nat /\ End(L[i]) > L[i].base
  <2>1. PICK b \in Blocks : b = L[i]
    BY ElementOfSeq
  <2>2. b.base \in Page /\ b.property \in Nat \ {0}
    BY DEF Blocks
  <2> QED BY <2>1, <2>2, PagesAssumption DEF Page, End
<1> QED BY <1>1, <1>2

LEMMA BlockIs ==
    ASSUME NEW b \in Page, NEW n \in Nat \ {0}
    PROVE  /\ Block(b, n) \in Blocks /\ Block(b, n).base = b /\ Block(b, n).property = n
           /\ End(Block(b, n)) = b + n
           /\ PagesOf(Block(b, n)) = b .. b + n - 1
BY DEF Block, Blocks, End, PagesOf

\* What is in a list is in one of its blocks.
LEMMA InFreeOf ==
    ASSUME NEW L \in Seq(Blocks), NEW x
    PROVE  /\ x \in FreeOf(L) <=> \E i \in 1 .. Len(L) : x \in PagesOf(L[i])
           /\ x \in Heads(L) <=> \E i \in 1 .. Len(L) : x = L[i].base
BY LenProperties DEF FreeOf, Heads

\* The pages of a block are between its base and its end.
LEMMA InBlock ==
    ASSUME NEW b \in Blocks, NEW x
    PROVE  x \in PagesOf(b) <=> x \in Int /\ b.base <= x /\ x < End(b)
<1>1. b.base \in Nat /\ b.property \in Nat
  BY PagesAssumption DEF Blocks, Page
<1> QED BY <1>1 DEF PagesOf, End

\* Of any two blocks of a list the first one ends before the second one begins.
LEMMA BlocksApart ==
    ASSUME NEW L, BlockList(L), NEW i \in 1 .. Len(L), NEW j \in 1 .. Len(L), i < j
    PROVE  End(L[i]) < L[j].base
<1>1. L \in Seq(Blocks) /\ Len(L) \in Nat
  BY LenProperties DEF BlockList
<1> DEFINE P == {k \in Nat : i < k /\ k <= Len(L) => End(L[i]) < L[k].base}
<1>2. 0 \in P
  OBVIOUS
<1>3. ASSUME NEW k \in 1 .. j, k - 1 \in P PROVE k \in P
  <2>1. SUFFICES ASSUME i < k, k <= Len(L) PROVE End(L[i]) < L[k].base
    OBVIOUS
  <2>2. k - 1 \in 1 .. Len(L) - 1 /\ k - 1 \in 1 .. Len(L) /\ k \in 1 .. Len(L)
    BY <1>1, <2>1
  <2>3. End(L[k - 1]) < L[k - 1 + 1].base
    BY <2>2 DEF BlockList
  <2>4. k - 1 + 1 = k
    OBVIOUS
  <2>5. CASE k - 1 = i
    BY <2>3, <2>4, <2>5
  <2>6. CASE k - 1 # i
    <3>1. End(L[i]) < L[k - 1].base
      BY <1>3, <2>1, <2>2, <2>6
    <3>2. /\ End(L[i]) \in Nat /\ End(L[k - 1]) \in Nat
          /\ L[k - 1].base \in Nat /\ L[k].base \in Nat /\ L[k - 1].base < End(L[k - 1])
      BY <1>1, <2>2, BlockFacts
    <3> QED BY <2>3, <2>4, <3>1, <3>2
  <2> QED BY <2>5, <2>6
<1>4. j \in P
  <2> HIDE DEF P
  <2> QED BY <1>2, <1>3, Unmaps!AllPasses
<1> QED BY <1>4

\* M is L with one block B in the place of those after the a-th up to the b-th.
IsSplice(M, L, a, b, B) ==
    /\ M \in Seq(Blocks)
    /\ Len(M) = Len(L) - (b - a) + 1
    /\ \A i \in 1 .. a : M[i] = L[i]
    /\ M[a + 1] = B
    /\ \A i \in a + 2 .. Len(M) : M[i] = L[i + (b - a) - 1]

\* A block that stands apart from its neighbours may take the place of others.
LEMMA SpliceKeeps ==
    ASSUME NEW L, BlockList(L), NEW a \in 0 .. Len(L), NEW b \in a .. Len(L), NEW B \in Blocks,
           NEW M, IsSplice(M, L, a, b, B),
           a > 0 => End(L[a]) < B.base, b < Len(L) => End(B) < L[b + 1].base,
           End(B) <= NPages + 1
    PROVE  BlockList(M)
<1>1. L \in Seq(Blocks) /\ Len(L) \in Nat /\ a \in Nat /\ b \in Nat /\ a <= b /\ b <= Len(L)
  BY LenProperties DEF BlockList
<1>2. M \in Seq(Blocks) /\ Len(M) = Len(L) - (b - a) + 1 /\ Len(M) \in Nat
  BY <1>1 DEF IsSplice
<1>3. ASSUME NEW i \in 1 .. Len(M)
      PROVE  \/ i \in 1 .. a /\ i \in 1 .. Len(L) /\ M[i] = L[i]
             \/ i = a + 1 /\ M[i] = B
             \/ i \in a + 2 .. Len(M) /\ i + (b - a) - 1 \in b + 1 .. Len(L) /\ M[i] = L[i + (b - a) - 1]
  BY <1>1, <1>2 DEF IsSplice
<1>4. \A i \in 1 .. Len(M) : End(M[i]) <= NPages + 1
  <2> TAKE i \in 1 .. Len(M)
  <2>1. CASE i \in 1 .. Len(L) /\ M[i] = L[i]
    BY <2>1 DEF BlockList
  <2>2. CASE M[i] = B
    BY <2>2
  <2>3. CASE i + (b - a) - 1 \in b + 1 .. Len(L) /\ M[i] = L[i + (b - a) - 1]
    <3>1. i + (b - a) - 1 \in 1 .. Len(L)
      BY <1>1, <2>3
    <3> QED BY <2>3, <3>1 DEF BlockList
  <2> QED BY <1>3, <2>1, <2>2, <2>3
<1>5. ASSUME NEW i \in 1 .. Len(M) - 1 PROVE End(M[i]) < M[i + 1].base
  <2>1. i \in 1 .. Len(M) /\ i + 1 \in 1 .. Len(M)
    BY <1>2
  <2>2. CASE i < a
    <3>1. i \in 1 .. a /\ i + 1 \in 1 .. a /\ i \in 1 .. Len(L) - 1
      BY <1>1, <2>1, <2>2
    <3>2. M[i] = L[i] /\ M[i + 1] = L[i + 1]
      BY <3>1 DEF IsSplice
    <3> QED BY <3>1, <3>2 DEF BlockList
  <2>3. CASE i = a
    <3>1. a \in 1 .. a /\ a > 0
      BY <2>1, <2>3
    <3>2. M[i] = L[a] /\ M[i + 1] = B
      BY <2>3, <3>1 DEF IsSplice
    <3> QED BY <3>1, <3>2
  <2>4. CASE i = a + 1
    <3>1. i + 1 \in a + 2 .. Len(M) /\ i + 1 + (b - a) - 1 = b + 1 /\ b < Len(L)
      BY <1>1, <1>2, <2>1, <2>4
    <3>2. M[i] = B /\ M[i + 1] = L[b + 1]
      BY <2>4, <3>1 DEF IsSplice
    <3> QED BY <3>1, <3>2
  <2>5. CASE i > a + 1
    <3>1. PICK k \in Int : k = i + (b - a) - 1
      BY <1>1
    <3>2. /\ i \in a + 2 .. Len(M) /\ i + 1 \in a + 2 .. Len(M) /\ k \in 1 .. Len(L) - 1
          /\ i + 1 + (b - a) - 1 = k + 1
      BY <1>1, <1>2, <2>1, <2>5, <3>1
    <3>3. M[i] = L[k] /\ M[i + 1] = L[k + 1]
      BY <3>1, <3>2 DEF IsSplice
    <3> QED BY <3>2, <3>3 DEF BlockList
  <2> QED BY <1>1, <2>1, <2>2, <2>3, <2>4, <2>5
<1> QED BY <1>2, <1>4, <1>5 DEF BlockList

\* No two blocks have a page or a base in common.
LEMMA BlocksDiffer ==
    ASSUME NEW L, BlockList(L), NEW i \in 1 .. Len(L), NEW j \in 1 .. Len(L)
    PROVE  /\ (\E x : x \in PagesOf(L[i]) /\ x \in PagesOf(L[j])) => i = j
           /\ L[i].base = L[j].base => i = j
<1>1. L \in Seq(Blocks)
  BY DEF BlockList
<1>2. ASSUME NEW k \in 1 .. Len(L), NEW l \in 1 .. Len(L), k < l
      PROVE  /\ ~\E x : x \in PagesOf(L[k]) /\ x \in PagesOf(L[l])
             /\ L[k].base # L[l].base
  <2>1. /\ L[k] \in Blocks /\ L[l] \in Blocks
        /\ L[k].base \in Nat /\ L[l].base \in Nat /\ End(L[k]) \in Nat /\ End(L[k]) > L[k].base
    BY <1>1, BlockFacts
  <2>2. End(L[k]) < L[l].base
    BY <1>2, BlocksApart
  <2>3. ASSUME NEW x, x \in PagesOf(L[k]), x \in PagesOf(L[l]) PROVE FALSE
    <3>1. x \in Int /\ x < End(L[k]) /\ L[l].base <= x
      BY <2>1, <2>3, InBlock
    <3> QED BY <2>1, <2>2, <3>1
  <2> QED BY <2>1, <2>2, <2>3
<1>3. i < j \/ i = j \/ j < i
  BY LenProperties
<1> QED BY <1>2, <1>3

\* What is in the list then.
LEMMA SpliceHas ==
    ASSUME NEW L, BlockList(L), NEW a \in 0 .. Len(L), NEW b \in a .. Len(L), NEW B \in Blocks,
           NEW M, IsSplice(M, L, a, b, B), NEW x
    PROVE  /\ x \in FreeOf(M) <=>
                \/ x \in PagesOf(B)
                \/ x \in FreeOf(L) /\ \A i \in a + 1 .. b : x \notin PagesOf(L[i])
           /\ x \in Heads(M) <=>
                \/ x = B.base
                \/ x \in Heads(L) /\ \A i \in a + 1 .. b : x # L[i].base
<1>1. L \in Seq(Blocks) /\ Len(L) \in Nat /\ a \in Nat /\ b \in Nat /\ a <= b /\ b <= Len(L)
  BY LenProperties DEF BlockList
<1>2. M \in Seq(Blocks) /\ Len(M) = Len(L) - (b - a) + 1 /\ Len(M) \in Nat
  BY <1>1 DEF IsSplice
<1>3. ASSUME NEW i \in 1 .. Len(M)
      PROVE  M[i] = B \/ \E j \in 1 .. Len(L) : M[i] = L[j] /\ j \notin a + 1 .. b
  <2>1. CASE i <= a
    <3>1. i \in 1 .. a /\ i \in 1 .. Len(L) /\ i \notin a + 1 .. b
      BY <1>1, <2>1
    <3> QED BY <3>1 DEF IsSplice
  <2>2. CASE i = a + 1
    BY <2>2 DEF IsSplice
  <2>3. CASE i > a + 1
    <3>1. /\ i \in a + 2 .. Len(M) /\ i + (b - a) - 1 \in 1 .. Len(L)
          /\ i + (b - a) - 1 \notin a + 1 .. b
      BY <1>1, <1>2, <2>3
    <3> QED BY <3>1 DEF IsSplice
  <2> QED BY <1>1, <2>1, <2>2, <2>3
<1>4. ASSUME NEW j \in 1 .. Len(L), j \notin a + 1 .. b
      PROVE  \E i \in 1 .. Len(M) : M[i] = L[j]
  <2>1. CASE j <= a
    <3>1. j \in 1 .. a /\ j \in 1 .. Len(M)
      BY <1>1, <1>2, <2>1
    <3> QED BY <3>1 DEF IsSplice
  <2>2. CASE j > a
    <3>1. PICK i \in Int : i = j - (b - a) + 1
      BY <1>1
    <3>2. i \in a + 2 .. Len(M) /\ i \in 1 .. Len(M) /\ i + (b - a) - 1 = j
      BY <1>1, <1>2, <1>4, <2>2, <3>1
    <3>3. M[i] = L[j]
      BY <3>2 DEF IsSplice
    <3> QED BY <3>2, <3>3
  <2> QED BY <1>1, <2>1, <2>2
<1>5. a + 1 \in 1 .. Len(M) /\ M[a + 1] = B
  BY <1>1, <1>2 DEF IsSplice
<1>6. a + 1 .. b \subseteq 1 .. Len(L)
  BY <1>1
<1>7. x \in FreeOf(M) <=>
        \/ x \in PagesOf(B)
        \/ \E j \in 1 .. Len(L) : x \in PagesOf(L[j]) /\ j \notin a + 1 .. b
  <2>1. x \in FreeOf(M) <=> \E i \in 1 .. Len(M) : x \in PagesOf(M[i])
    BY <1>2, InFreeOf
  <2>2. ASSUME NEW i \in 1 .. Len(M), x \in PagesOf(M[i])
        PROVE  \/ x \in PagesOf(B)
               \/ \E j \in 1 .. Len(L) : x \in PagesOf(L[j]) /\ j \notin a + 1 .. b
    BY <1>3, <2>2
  <2>3. ASSUME NEW j \in 1 .. Len(L), x \in PagesOf(L[j]), j \notin a + 1 .. b
        PROVE  \E i \in 1 .. Len(M) : x \in PagesOf(M[i])
    BY <1>4, <2>3
  <2> QED BY <1>5, <2>1, <2>2, <2>3
<1>8. x \in Heads(M) <=>
        \/ x = B.base
        \/ \E j \in 1 .. Len(L) : x = L[j].base /\ j \notin a + 1 .. b
  <2>1. x \in Heads(M) <=> \E i \in 1 .. Len(M) : x = M[i].base
    BY <1>2, InFreeOf
  <2>2. ASSUME NEW i \in 1 .. Len(M), x = M[i].base
        PROVE  \/ x = B.base
               \/ \E j \in 1 .. Len(L) : x = L[j].base /\ j \notin a + 1 .. b
    BY <1>3, <2>2
  <2>3. ASSUME NEW j \in 1 .. Len(L), x = L[j].base, j \notin a + 1 .. b
        PROVE  \E i \in 1 .. Len(M) : x = M[i].base
    BY <1>4, <2>3
  <2> QED BY <1>5, <2>1, <2>2, <2>3
<1>9. (\E j \in 1 .. Len(L) : x \in PagesOf(L[j]) /\ j \notin a + 1 .. b) <=>
        x \in FreeOf(L) /\ \A i \in a + 1 .. b : x \notin PagesOf(L[i])
  <2>1. x \in FreeOf(L) <=> \E j \in 1 .. Len(L) : x \in PagesOf(L[j])
    BY <1>1, InFreeOf
  <2>2. ASSUME NEW j \in 1 .. Len(L), x \in PagesOf(L[j]), j \notin a + 1 .. b,
               NEW i \in a + 1 .. b, x \in PagesOf(L[i])
        PROVE  FALSE
    <3>1. i \in 1 .. Len(L)
      BY <1>6
    <3>2. i = j
      BY <2>2, <3>1, BlocksDiffer
    <3> QED BY <2>2, <3>2
  <2> QED BY <2>1, <2>2
<1>10. (\E j \in 1 .. Len(L) : x = L[j].base /\ j \notin a + 1 .. b) <=>
         x \in Heads(L) /\ \A i \in a + 1 .. b : x # L[i].base
  <2>1. x \in Heads(L) <=> \E j \in 1 .. Len(L) : x = L[j].base
    BY <1>1, InFreeOf
  <2>2. ASSUME NEW j \in 1 .. Len(L), x = L[j].base, j \notin a + 1 .. b,
               NEW i \in a + 1 .. b, x = L[i].base
        PROVE  FALSE
    <3>1. i \in 1 .. Len(L)
      BY <1>6
    <3>2. L[i].base = L[j].base
      BY <2>2
    <3>3. i = j
      BY <3>1, <3>2, BlocksDiffer
    <3> QED BY <2>2, <3>3
  <2> QED BY <2>1, <2>2
<1> QED BY <1>7, <1>8, <1>9, <1>10

\* A block that leaves the list takes its pages along, and nothing else.
LEMMA RemoveKeeps ==
    ASSUME NEW L, BlockList(L), NEW a \in 1 .. Len(L), NEW M, M = RemoveAt(L, a)
    PROVE  /\ BlockList(M)
           /\ \A x : x \in FreeOf(M) <=> x \in FreeOf(L) /\ x \notin PagesOf(L[a])
           /\ \A x : x \in Heads(M) <=> x \in Heads(L) /\ x # L[a].base
<1>1. L \in Seq(Blocks) /\ Len(L) \in Nat
  BY LenProperties DEF BlockList
<1>2. /\ M \in Seq(Blocks) /\ Len(M) = Len(L) - 1
      /\ \A k \in 1 .. Len(L) - 1 : M[k] = L[IF k < a THEN k ELSE k + 1]
  BY <1>1, RemoveFacts
<1>3. ASSUME NEW i \in 1 .. Len(M)
      PROVE  \E j \in 1 .. Len(L) : M[i] = L[j] /\ j # a /\ (i < a => j = i) /\ (i >= a => j = i + 1)
  <2>1. CASE i < a
    <3>1. M[i] = L[i] /\ i \in 1 .. Len(L)
      BY <1>1, <1>2, <2>1
    <3> QED BY <2>1, <3>1
  <2>2. CASE i >= a
    <3>1. M[i] = L[i + 1] /\ i + 1 \in 1 .. Len(L) /\ i + 1 # a
      BY <1>1, <1>2, <2>2
    <3> QED BY <2>2, <3>1
  <2> QED BY <2>1, <2>2
<1>4. ASSUME NEW j \in 1 .. Len(L), j # a
      PROVE  \E i \in 1 .. Len(M) : M[i] = L[j]
  <2>1. CASE j < a
    <3>1. M[j] = L[j] /\ j \in 1 .. Len(M)
      BY <1>1, <1>2, <2>1
    <3> QED BY <3>1
  <2>2. CASE j > a
    <3>1. j - 1 \in 1 .. Len(M) /\ ~(j - 1 < a) /\ j - 1 + 1 = j
      BY <1>1, <1>2, <2>2
    <3>2. M[j - 1] = L[j]
      BY <1>2, <3>1
    <3> QED BY <3>1, <3>2
  <2> QED BY <1>4, <2>1, <2>2
<1>5. BlockList(M)
  <2>1. ASSUME NEW i \in 1 .. Len(M) PROVE End(M[i]) <= NPages + 1
    <3>1. PICK j \in 1 .. Len(L) : M[i] = L[j]
      BY <1>3
    <3> QED BY <3>1 DEF BlockList
  <2>2. ASSUME NEW i \in 1 .. Len(M) - 1 PROVE End(M[i]) < M[i + 1].base
    <3>1. i \in 1 .. Len(M) /\ i + 1 \in 1 .. Len(M)
      BY <1>1, <1>2
    <3>2. PICK j \in 1 .. Len(L) : M[i] = L[j] /\ j # a /\ (i < a => j = i) /\ (i >= a => j = i + 1)
      BY <1>3, <3>1
    <3>3. PICK k \in 1 .. Len(L) : M[i + 1] = L[k] /\ k # a /\ (i + 1 < a => k = i + 1) /\ (i + 1 >= a => k = i + 2)
      BY <1>3, <3>1
    <3>4. j < k
      BY <3>2, <3>3
    <3>5. End(L[j]) < L[k].base
      BY <3>4, BlocksApart
    <3> QED BY <3>2, <3>3, <3>5
  <2> QED BY <1>2, <2>1, <2>2 DEF BlockList
<1>6. ASSUME NEW x
      PROVE  x \in FreeOf(M) <=> x \in FreeOf(L) /\ x \notin PagesOf(L[a])
  <2>1. x \in FreeOf(M) <=> \E i \in 1 .. Len(M) : x \in PagesOf(M[i])
    BY <1>2, InFreeOf
  <2>2. x \in FreeOf(L) <=> \E i \in 1 .. Len(L) : x \in PagesOf(L[i])
    BY <1>1, InFreeOf
  <2>3. ASSUME NEW i \in 1 .. Len(M), x \in PagesOf(M[i])
        PROVE  x \in FreeOf(L) /\ x \notin PagesOf(L[a])
    <3>1. PICK j \in 1 .. Len(L) : M[i] = L[j] /\ j # a
      BY <1>3
    <3>2. x \in PagesOf(L[j])
      BY <2>3, <3>1
    <3> QED BY <2>2, <3>1, <3>2, BlocksDiffer
  <2>4. ASSUME NEW j \in 1 .. Len(L), x \in PagesOf(L[j]), x \notin PagesOf(L[a])
        PROVE  x \in FreeOf(M)
    <3>1. j # a
      BY <2>4
    <3>2. PICK i \in 1 .. Len(M) : M[i] = L[j]
      BY <1>4, <3>1
    <3> QED BY <2>1, <2>4, <3>2
  <2> QED BY <2>1, <2>2, <2>3, <2>4
<1>7. ASSUME NEW x
      PROVE  x \in Heads(M) <=> x \in Heads(L) /\ x # L[a].base
  <2>1. x \in Heads(M) <=> \E i \in 1 .. Len(M) : x = M[i].base
    BY <1>2, InFreeOf
  <2>2. x \in Heads(L) <=> \E i \in 1 .. Len(L) : x = L[i].base
    BY <1>1, InFreeOf
  <2>3. ASSUME NEW i \in 1 .. Len(M), x = M[i].base
        PROVE  x \in Heads(L) /\ x # L[a].base
    <3>1. PICK j \in 1 .. Len(L) : M[i] = L[j] /\ j # a
      BY <1>3
    <3>2. L[j].base # L[a].base
      BY <3>1, BlocksDiffer
    <3> QED BY <2>2, <2>3, <3>1, <3>2
  <2>4. ASSUME NEW j \in 1 .. Len(L), x = L[j].base, x # L[a].base
        PROVE  x \in Heads(M)
    <3>1. j # a
      BY <2>4
    <3>2. PICK i \in 1 .. Len(M) : M[i] = L[j]
      BY <1>4, <3>1
    <3> QED BY <2>1, <2>4, <3>2
  <2> QED BY <2>1, <2>2, <2>3, <2>4
<1> QED BY <1>5, <1>6, <1>7

\* The pages of a list are pages, as long as its blocks end where memory ends.
LEMMA FreeArePages ==
    ASSUME NEW L \in Seq(Blocks), \A i \in 1 .. Len(L) : End(L[i]) <= NPages + 1
    PROVE  FreeOf(L) \subseteq Page
<1>1. SUFFICES ASSUME NEW x \in FreeOf(L) PROVE x \in Page
  OBVIOUS
<1>2. PICK i \in 1 .. Len(L) : x \in PagesOf(L[i])
  BY InFreeOf
<1>3. L[i] \in Blocks /\ L[i].base \in Page /\ End(L[i]) \in Nat /\ End(L[i]) <= NPages + 1
  BY BlockFacts
<1>4. x \in Int /\ L[i].base <= x /\ x < End(L[i])
  BY <1>2, <1>3, InBlock
<1> QED BY <1>3, <1>4, PagesAssumption DEF Page

\* Counting pages.
LEMMA CountPages ==
    ASSUME NEW A, A \subseteq Page
    PROVE  IsFiniteSet(A) /\ Cardinality(A) \in Nat /\ Cardinality(A) <= NPages
<1>1. IsFiniteSet(Page) /\ Cardinality(Page) = NPages
  <2>1. 1 \in Int /\ NPages \in Int /\ 1 <= NPages
    BY PagesAssumption
  <2>2. /\ IsFiniteSet(1 .. NPages)
        /\ Cardinality(1 .. NPages) = IF 1 > NPages THEN 0 ELSE NPages - 1 + 1
    BY <2>1, FS_Interval
  <2> QED BY <2>1, <2>2 DEF Page
<1>2. IsFiniteSet(A) /\ Cardinality(A) <= Cardinality(Page)
  BY <1>1, FS_Subset
<1> QED BY <1>1, <1>2, FS_CardinalityType

LEMMA CountTwo ==
    ASSUME NEW A, A \subseteq Page, NEW B, B \subseteq Page, A \cap B = {}
    PROVE  Cardinality(A \cup B) = Cardinality(A) + Cardinality(B)
<1>1. IsFiniteSet(A) /\ IsFiniteSet(B) /\ Cardinality(A) \in Nat /\ Cardinality(B) \in Nat
  BY CountPages
<1>2. Cardinality(A \cup B) = Cardinality(A) + Cardinality(B) - Cardinality(A \cap B)
  BY <1>1, FS_Union
<1>3. Cardinality(A \cap B) = 0
  BY FS_EmptySet
<1> QED BY <1>1, <1>2, <1>3

LEMMA CountRange ==
    ASSUME NEW b \in Nat, NEW n \in Nat
    PROVE  Cardinality(b .. b + n - 1) = n
<1>1. b \in Int /\ b + n - 1 \in Int
  OBVIOUS
<1>2. Cardinality(b .. b + n - 1) = IF b > b + n - 1 THEN 0 ELSE b + n - 1 - b + 1
  BY <1>1, FS_Interval
<1> QED BY <1>2

-----------------------------------------------------------------------------
(***************************************************************************)
(* The allocator.                                                          *)
(***************************************************************************)
Area == {area \in Va \X (1 .. NVa) : area[1] < area[2]}

Results == {"ok", "swap_out(NULL)", "check_vma_overlap", "-E_INVAL"}

Space ==
    [pgdir : Page \cup {NULL}, pde : [Pdxs -> Page \cup {NULL}],
     pte : [Va -> Page \cup {NULL}], vmas : Seq(Area)]

State ==
    [free_list : Seq(Blocks), PageProperty : SUBSET Page, nr_free : 0 .. NPages,
     ref : [Page -> Nat], page : Page \cup {NULL}, res : Results,
     mm : Space, args : Seq(Page)]

\* ListSound in terms of the list alone.
LEMMA ListSoundIs ==
    ASSUME NEW s, s.free_list \in Seq(Blocks)
    PROVE  /\ FreePages(s) = FreeOf(s.free_list)
           /\ ListSound(s) <=> /\ BlockList(s.free_list)
                               /\ s.PageProperty = Heads(s.free_list)
                               /\ s.nr_free = Cardinality(FreeOf(s.free_list))
<1>1. PICK L \in Seq(Blocks) : L = s.free_list
  OBVIOUS
<1>2. FreePages(s) = FreeOf(L)
  BY <1>1 DEF FreePages, FreeOf
<1>3. (\A i \in 1 .. Len(L) : End(L[i]) <= NPages + 1) <=> FreeOf(L) \subseteq Page
  <2>1. ASSUME FreeOf(L) \subseteq Page, NEW i \in 1 .. Len(L)
        PROVE  End(L[i]) <= NPages + 1
    <3>1. L[i] \in Blocks /\ L[i].base \in Nat /\ End(L[i]) \in Nat /\ End(L[i]) > L[i].base
      BY BlockFacts
    <3>2. End(L[i]) - 1 \in PagesOf(L[i])
      BY <3>1, InBlock
    <3>3. End(L[i]) - 1 \in Page
      BY <2>1, <3>2, InFreeOf
    <3> QED BY <3>1, <3>3, PagesAssumption DEF Page
  <2> QED BY <2>1, FreeArePages
<1>4. (\A i \in 1 .. Len(L) - 1 : L[i].base + L[i].property < L[i + 1].base)
        <=> (\A i \in 1 .. Len(L) - 1 : End(L[i]) < L[i + 1].base)
  BY DEF End
<1>5. \A i \in DOMAIN L : L[i].property > 0
  BY BlockFacts
<1>6. s.PageProperty = {L[i].base : i \in DOMAIN L} <=> s.PageProperty = Heads(L)
  BY DEF Heads
<1> QED BY <1>1, <1>2, <1>3, <1>4, <1>5, <1>6 DEF ListSound, BlockList

\* t is s with the n pages from b on taken out of the free list, and t.page set to b.
Takes(s, t, b, n) ==
    /\ t \in State
    /\ ListSound(t)
    /\ b .. b + n - 1 \subseteq FreePages(s)
    /\ FreePages(t) = FreePages(s) \ (b .. b + n - 1)
    /\ t.page = b /\ t.ref = s.ref /\ t.res = s.res /\ t.mm = s.mm /\ t.args = s.args

LEMMA TakeFields ==
    ASSUME NEW s \in State, NEW i \in DOMAIN s.free_list, NEW n \in Nat \ {0},
           NEW b, b = s.free_list[i], NEW t, t = Take(s, i, n)
    PROVE  /\ t.free_list = IF b.property > n
                            THEN ReplaceAt(s.free_list, i, Block(b.base + n, b.property - n))
                            ELSE RemoveAt(s.free_list, i)
           /\ t.PageProperty = (s.PageProperty \cup (IF b.property > n THEN {b.base + n} ELSE {}))
                                 \ {b.base}
           /\ t.nr_free = s.nr_free - n
           /\ t.page = b.base /\ t.ref = s.ref /\ t.res = s.res /\ t.mm = s.mm
           /\ t.args = s.args
           /\ t = [free_list |-> t.free_list, PageProperty |-> t.PageProperty,
                   nr_free |-> t.nr_free, ref |-> t.ref, page |-> t.page, res |-> t.res,
                   mm |-> t.mm, args |-> t.args]
<1>1. PICK f, P :
        /\ f = IF b.property > n
               THEN ReplaceAt(s.free_list, i, Block(b.base + n, b.property - n))
               ELSE RemoveAt(s.free_list, i)
        /\ P = (s.PageProperty \cup (IF b.property > n THEN {b.base + n} ELSE {})) \ {b.base}
  OBVIOUS
<1>2. t = [s EXCEPT !.free_list = f, !.PageProperty = P, !.nr_free = s.nr_free - n,
                    !.page = b.base]
  BY <1>1, Zenon DEF Take
<1>3. /\ t.free_list = f /\ t.PageProperty = P /\ t.nr_free = s.nr_free - n /\ t.page = b.base
      /\ t.ref = s.ref /\ t.res = s.res /\ t.mm = s.mm /\ t.args = s.args
      /\ t = [free_list |-> t.free_list, PageProperty |-> t.PageProperty,
                   nr_free |-> t.nr_free, ref |-> t.ref, page |-> t.page, res |-> t.res,
                   mm |-> t.mm, args |-> t.args]
  BY <1>2 DEF State
<1> QED BY <1>1, <1>3

\* default_alloc_pages takes the first pages of a block, and they leave the list.
LEMMA TakeKeeps ==
    ASSUME NEW s \in State, ListSound(s), NEW i \in DOMAIN s.free_list, NEW n \in Nat \ {0},
           s.free_list[i].property >= n, NEW t, t = Take(s, i, n)
    PROVE  Takes(s, t, s.free_list[i].base, n)
<1>1. PICK L \in Seq(Blocks) : L = s.free_list
  BY DEF State
<1>2. /\ BlockList(L) /\ FreePages(s) = FreeOf(L) /\ s.PageProperty = Heads(L)
      /\ s.nr_free = Cardinality(FreeOf(L)) /\ i \in 1 .. Len(L) /\ DOMAIN L = 1 .. Len(L)
      /\ Len(L) \in Nat
  BY <1>1, ListSoundIs, LenProperties
<1>3. PICK b : b = L[i]
  OBVIOUS
<1>4. /\ b \in Blocks /\ b.base \in Page /\ b.base \in Nat /\ b.base > 0
      /\ b.property \in Nat /\ b.property >= n /\ End(b) = b.base + b.property
      /\ End(b) <= NPages + 1
  <2>1. End(L[i]) <= NPages + 1
    BY <1>2 DEF BlockList
  <2> QED BY <1>1, <1>2, <1>3, <2>1, BlockFacts DEF End
<1>5. /\ t.free_list = IF b.property > n
                       THEN ReplaceAt(L, i, Block(b.base + n, b.property - n))
                       ELSE RemoveAt(L, i)
      /\ t.PageProperty = (s.PageProperty \cup (IF b.property > n THEN {b.base + n} ELSE {}))
                            \ {b.base}
      /\ t.nr_free = s.nr_free - n
      /\ t.page = b.base /\ t.ref = s.ref /\ t.res = s.res /\ t.mm = s.mm
      /\ t.args = s.args
      /\ t = [free_list |-> t.free_list, PageProperty |-> t.PageProperty,
              nr_free |-> t.nr_free, ref |-> t.ref, page |-> t.page, res |-> t.res,
              mm |-> t.mm, args |-> t.args]
  BY <1>1, <1>3, TakeFields
<1>6. PICK M : M = t.free_list
  OBVIOUS
<1> DEFINE taken == b.base .. b.base + n - 1
<1>7. /\ BlockList(M)
      /\ \A x : x \in FreeOf(M) <=> x \in FreeOf(L) /\ x \notin taken
      /\ \A x : x \in t.PageProperty <=> x \in Heads(M)
  <2>1. CASE b.property > n
    <3>1. PICK B : B = Block(b.base + n, b.property - n)
      OBVIOUS
    <3>2. b.base + n \in Page /\ b.property - n \in Nat \ {0}
      BY <1>4, <2>1, PagesAssumption DEF Page
    <3>3. /\ B \in Blocks /\ B.base = b.base + n /\ End(B) = End(b)
          /\ PagesOf(B) = b.base + n .. End(b) - 1
      <4>1. /\ B \in Blocks /\ B.base = b.base + n
            /\ End(B) = b.base + n + (b.property - n)
            /\ PagesOf(B) = b.base + n .. b.base + n + (b.property - n) - 1
        BY <3>1, <3>2, BlockIs
      <4>2. b.base + n + (b.property - n) = End(b)
        BY <1>4
      <4> QED BY <1>4, <4>1, <4>2
    <3>4. IsSplice(M, L, i - 1, i, B)
      <4>1. M = ReplaceAt(L, i, B)
        BY <1>5, <1>6, <2>1, <3>1
      <4>2. /\ M \in Seq(Blocks) /\ Len(M) = Len(L)
            /\ \A k \in 1 .. Len(L) : M[k] = IF k = i THEN B ELSE L[k]
        <5>1. L \in Seq(Blocks) /\ i \in 1 .. Len(L) /\ B \in Blocks
          BY <1>2, <3>3
        <5>2. /\ ReplaceAt(L, i, B) \in Seq(Blocks) /\ Len(ReplaceAt(L, i, B)) = Len(L)
              /\ ReplaceAt(L, i, B)[i] = B
              /\ \A k \in 1 .. Len(L) : k # i => ReplaceAt(L, i, B)[k] = L[k]
          BY <5>1, ReplaceBlock
        <5> QED BY <4>1, <5>2
      <4>3. \A k \in 1 .. i - 1 : k \in 1 .. Len(L) /\ k # i
        BY <1>2
      <4>4. i - 1 + 1 = i /\ i - (i - 1) = 1 /\ Len(L) - 1 + 1 = Len(L)
        BY <1>2
      <4>5. \A k \in i - 1 + 2 .. Len(M) : k \in 1 .. Len(L) /\ k # i /\ k + 1 - 1 = k
        BY <1>2, <4>2
      <4>6. Len(M) = Len(L) - (i - (i - 1)) + 1
        BY <4>2, <4>4
      <4>7. \A k \in i - 1 + 2 .. Len(M) : M[k] = L[k + (i - (i - 1)) - 1]
        BY <4>2, <4>4, <4>5
      <4> QED BY <1>2, <4>2, <4>3, <4>4, <4>6, <4>7 DEF IsSplice
    <3>5. i - 1 \in 0 .. Len(L) /\ i \in i - 1 .. Len(L)
      BY <1>2
    <3>6. i - 1 > 0 => End(L[i - 1]) < B.base
      <4>1. ASSUME i - 1 > 0 PROVE End(L[i - 1]) < B.base
        <5>1. i - 1 \in 1 .. Len(L) /\ i - 1 < i
          BY <1>2, <4>1
        <5>2. End(L[i - 1]) < L[i].base /\ End(L[i - 1]) \in Nat
          BY <1>1, <1>2, <5>1, BlocksApart, BlockFacts
        <5> QED BY <1>3, <1>4, <3>3, <5>2
      <4> QED BY <4>1
    <3>7. i < Len(L) => End(B) < L[i + 1].base
      <4>1. ASSUME i < Len(L) PROVE End(B) < L[i + 1].base
        <5>1. i + 1 \in 1 .. Len(L) /\ i < i + 1
          BY <1>2, <4>1
        <5> QED BY <1>2, <1>3, <3>3, <5>1, BlocksApart
      <4> QED BY <4>1
    <3>8. BlockList(M)
      BY <1>2, <1>4, <3>3, <3>4, <3>5, <3>6, <3>7, SpliceKeeps
    <3>9. \A k \in i - 1 + 1 .. i : k = i
      BY <1>2
    <3>10. i \in i - 1 + 1 .. i
      BY <1>2
    <3>11. ASSUME NEW x
           PROVE  /\ x \in FreeOf(M) <=> x \in FreeOf(L) /\ x \notin taken
                  /\ x \in t.PageProperty <=> x \in Heads(M)
      <4>1. /\ x \in FreeOf(M) <=> x \in PagesOf(B) \/ (x \in FreeOf(L) /\ x \notin PagesOf(b))
            /\ x \in Heads(M) <=> x = B.base \/ (x \in Heads(L) /\ x # b.base)
        <5>1. /\ x \in FreeOf(M) <=>
                   \/ x \in PagesOf(B)
                   \/ x \in FreeOf(L) /\ \A k \in i - 1 + 1 .. i : x \notin PagesOf(L[k])
              /\ x \in Heads(M) <=>
                   \/ x = B.base
                   \/ x \in Heads(L) /\ \A k \in i - 1 + 1 .. i : x # L[k].base
          <6>1. PICK a : a = i - 1
            OBVIOUS
          <6>2. a \in 0 .. Len(L) /\ i \in a .. Len(L) /\ IsSplice(M, L, a, i, B)
            BY <3>4, <3>5, <6>1
          <6>3. BlockList(L) /\ B \in Blocks
            BY <1>2, <3>3
          <6>4. /\ x \in FreeOf(M) <=>
                     \/ x \in PagesOf(B)
                     \/ x \in FreeOf(L) /\ \A k \in a + 1 .. i : x \notin PagesOf(L[k])
                /\ x \in Heads(M) <=>
                     \/ x = B.base
                     \/ x \in Heads(L) /\ \A k \in a + 1 .. i : x # L[k].base
            BY ONLY <6>2, <6>3, SpliceHas
          <6> QED BY <6>1, <6>4
        <5> QED BY <1>3, <3>9, <3>10, <5>1
      <4>2. x \in PagesOf(b) => x \in FreeOf(L)
        BY <1>1, <1>2, <1>3, InFreeOf
      <4>3. x \in PagesOf(b) <=> x \in Int /\ b.base <= x /\ x < End(b)
        BY <1>4, InBlock
      <4>4. x \in PagesOf(B) <=> x \in Int /\ b.base + n <= x /\ x < End(b)
        BY <3>3, InBlock
      <4>5. x \in taken <=> x \in Int /\ b.base <= x /\ x < b.base + n
        BY <1>4
      <4>6. x \in Int => (b.base + n <= x => b.base <= x) /\ (x < b.base + n => x < End(b))
              /\ (b.base + n <= x \/ x < b.base + n) /\ ~(b.base + n <= x /\ x < b.base + n)
        BY <1>4, <2>1
      <4>7. x \in FreeOf(M) <=> x \in FreeOf(L) /\ x \notin taken
        BY <4>1, <4>2, <4>3, <4>4, <4>5, <4>6
      <4>8. t.PageProperty = (Heads(L) \cup {B.base}) \ {b.base}
        BY <1>2, <1>5, <2>1, <3>3
      <4>9. B.base # b.base
        BY <1>4, <3>3
      <4> QED BY <4>1, <4>7, <4>8, <4>9
    <3> QED BY <3>8, <3>11
  <2>2. CASE ~(b.property > n)
    <3>1. M = RemoveAt(L, i) /\ t.PageProperty = Heads(L) \ {b.base}
      BY <1>2, <1>5, <1>6, <2>2
    <3>2. /\ BlockList(M)
          /\ \A x : x \in FreeOf(M) <=> x \in FreeOf(L) /\ x \notin PagesOf(b)
          /\ \A x : x \in Heads(M) <=> x \in Heads(L) /\ x # b.base
      BY <1>2, <1>3, <3>1, RemoveKeeps
    <3>3. taken = PagesOf(b)
      BY <1>4, <2>2 DEF PagesOf
    <3> QED BY <3>1, <3>2, <3>3
  <2> QED BY <2>1, <2>2
<1>8. taken \subseteq FreeOf(L)
  <2>1. ASSUME NEW x \in taken PROVE x \in PagesOf(b)
    BY <1>4, InBlock
  <2> QED BY <1>1, <1>2, <1>3, <2>1, InFreeOf
<1>9. FreeOf(M) = FreeOf(L) \ taken /\ t.PageProperty = Heads(M)
  BY <1>7
<1>10. FreeOf(L) \subseteq Page /\ FreeOf(M) \subseteq Page /\ taken \subseteq Page
  BY <1>1, <1>2, <1>8, <1>9, FreeArePages DEF BlockList
<1>11. t.nr_free = Cardinality(FreeOf(M)) /\ t.nr_free \in 0 .. NPages
  <2>1. FreeOf(L) = FreeOf(M) \cup taken /\ FreeOf(M) \cap taken = {}
    BY <1>8, <1>9
  <2>2. Cardinality(FreeOf(L)) = Cardinality(FreeOf(M)) + Cardinality(taken)
    BY <1>10, <2>1, CountTwo
  <2>3. Cardinality(taken) = n
    BY <1>4, CountRange
  <2>4. Cardinality(FreeOf(M)) \in Nat /\ Cardinality(FreeOf(M)) <= NPages
    BY <1>10, CountPages
  <2> QED BY <1>2, <1>5, <2>2, <2>3, <2>4, PagesAssumption
<1>12. M \in Seq(Blocks) /\ t.PageProperty \subseteq Page
  <2>1. M \in Seq(Blocks)
    BY <1>7 DEF BlockList
  <2>2. ASSUME NEW x \in Heads(M) PROVE x \in Page
    BY <2>1, <2>2, InFreeOf, BlockFacts
  <2> QED BY <1>9, <2>1, <2>2
<1>13. t \in State
  <2>1. /\ t.free_list \in Seq(Blocks) /\ t.PageProperty \in SUBSET Page
        /\ t.nr_free \in 0 .. NPages /\ t.page \in Page \cup {NULL}
    BY <1>4, <1>5, <1>6, <1>11, <1>12
  <2>2. /\ t.ref \in [Page -> Nat] /\ t.res \in Results
        /\ t.mm \in Space /\ t.args \in Seq(Page)
    BY <1>5 DEF State
  <2> QED BY <1>5, <2>1, <2>2 DEF State
<1>14. ListSound(t) /\ FreePages(t) = FreeOf(M)
  BY <1>6, <1>7, <1>9, <1>11, <1>12, ListSoundIs
<1> QED BY <1>1, <1>2, <1>3, <1>5, <1>8, <1>9, <1>13, <1>14 DEF Takes

\* A second replacement, of the block put in and the one behind it.
LEMMA SpliceMore ==
    ASSUME NEW L, BlockList(L), NEW a \in 0 .. Len(L), NEW b \in a .. Len(L), b < Len(L),
           NEW B \in Blocks, NEW M, IsSplice(M, L, a, b, B), NEW C \in Blocks,
           NEW N, N = RemoveAt(ReplaceAt(M, a + 1, C), a + 1 + 1)
    PROVE  IsSplice(N, L, a, b + 1, C)
<1>1. L \in Seq(Blocks) /\ Len(L) \in Nat /\ a \in Nat /\ b \in Nat /\ a <= b /\ b <= Len(L)
  BY LenProperties DEF BlockList
<1>2. /\ M \in Seq(Blocks) /\ Len(M) = Len(L) - (b - a) + 1 /\ Len(M) \in Nat
      /\ \A i \in 1 .. a : M[i] = L[i]
      /\ \A i \in a + 2 .. Len(M) : M[i] = L[i + (b - a) - 1]
  BY <1>1 DEF IsSplice
<1>3. a + 1 \in 1 .. Len(M) /\ a + 1 + 1 \in 1 .. Len(M)
  BY <1>1, <1>2
<1>4. PICK K : K = ReplaceAt(M, a + 1, C)
  OBVIOUS
<1>5. /\ K \in Seq(Blocks) /\ Len(K) = Len(M) /\ K[a + 1] = C
      /\ \A k \in 1 .. Len(M) : k # a + 1 => K[k] = M[k]
  BY <1>2, <1>3, <1>4, ReplaceBlock
<1>6. /\ N \in Seq(Blocks) /\ Len(N) = Len(M) - 1
      /\ \A k \in 1 .. Len(M) - 1 : N[k] = K[IF k < a + 1 + 1 THEN k ELSE k + 1]
  <2>1. a + 1 + 1 \in 1 .. Len(K)
    BY <1>3, <1>5
  <2>2. /\ RemoveAt(K, a + 1 + 1) \in Seq(Blocks)
        /\ Len(RemoveAt(K, a + 1 + 1)) = Len(K) - 1
        /\ \A k \in 1 .. Len(K) - 1 :
             RemoveAt(K, a + 1 + 1)[k] = K[IF k < a + 1 + 1 THEN k ELSE k + 1]
    BY <1>5, <2>1, RemoveFacts
  <2> QED BY <1>4, <1>5, <2>2
<1>7. Len(N) = Len(L) - (b + 1 - a) + 1
  BY <1>1, <1>2, <1>6
<1>8. ASSUME NEW i \in 1 .. a PROVE N[i] = L[i]
  <2>1. i \in 1 .. Len(M) - 1 /\ i < a + 1 + 1 /\ i \in 1 .. Len(M) /\ i # a + 1
    BY <1>1, <1>3
  <2>2. N[i] = K[i]
    BY <1>6, <2>1
  <2> QED BY <1>2, <1>5, <2>1, <2>2
<1>9. N[a + 1] = C
  <2>1. a + 1 \in 1 .. Len(M) - 1 /\ a + 1 < a + 1 + 1
    BY <1>1, <1>2, <1>3
  <2> QED BY <1>5, <1>6, <2>1
<1>10. ASSUME NEW i \in a + 2 .. Len(N) PROVE N[i] = L[i + (b + 1 - a) - 1]
  <2>1. PICK k : k = i + 1
    OBVIOUS
  <2>2. /\ i \in 1 .. Len(M) - 1 /\ ~(i < a + 1 + 1) /\ k \in 1 .. Len(M) /\ k # a + 1
        /\ k \in a + 2 .. Len(M) /\ k + (b - a) - 1 = i + (b + 1 - a) - 1
    BY <1>1, <1>2, <1>6, <2>1
  <2>3. N[i] = K[k]
    BY <1>6, <2>1, <2>2
  <2>4. K[k] = M[k] /\ M[k] = L[k + (b - a) - 1]
    BY <1>2, <1>5, <2>2
  <2> QED BY <2>2, <2>3, <2>4
<1>11. N \in Seq(Blocks)
  BY <1>6
<1>12. /\ \A i \in 1 .. a : N[i] = L[i]
       /\ \A i \in a + 2 .. Len(N) : N[i] = L[i + (b + 1 - a) - 1]
  BY <1>8, <1>10
<1> QED BY ONLY <1>7, <1>9, <1>11, <1>12 DEF IsSplice

\* t is s with the n pages from b on put into the free list.
Gives(s, t, b, n) ==
    /\ t \in State
    /\ ListSound(t)
    /\ FreePages(t) = FreePages(s) \cup (b .. b + n - 1)
    /\ t.ref = [p \in Page |-> IF p \in b .. b + n - 1 THEN 0 ELSE s.ref[p]]
    /\ t.page = s.page /\ t.res = s.res /\ t.mm = s.mm /\ t.args = s.args

\* default_free_pages, field by field.
LEMMA GiveFields ==
    ASSUME NEW s \in State, s.res = "ok", NEW base \in Page, NEW n \in Nat \ {0},
           s.PageProperty \cap (base .. base + n - 1) = {},
           NEW t, t = default_free_pages(s, base, n)
    PROVE  LET k == InFront(s.free_list, base)
               before == Before(s.free_list, k, base)
               list == PutBlock(s.free_list, k, base, n)
               j == IF before THEN k ELSE k + 1
               behind == Behind(list, j)
           IN  /\ t.free_list = IF behind THEN Merge(list, j) ELSE list
               /\ t.PageProperty = FlagsAfterFree(s, before, behind, base,
                                                  IF behind THEN list[j + 1].base ELSE base)
               /\ t.ref = [p \in Page |-> IF p \in base .. base + n - 1 THEN 0 ELSE s.ref[p]]
               /\ t.nr_free = s.nr_free + n
               /\ t.page = s.page /\ t.res = s.res /\ t.mm = s.mm /\ t.args = s.args
               /\ t = [free_list |-> t.free_list, PageProperty |-> t.PageProperty,
                       nr_free |-> t.nr_free, ref |-> t.ref, page |-> t.page, res |-> t.res,
                       mm |-> t.mm, args |-> t.args]
<1> DEFINE k == InFront(s.free_list, base)
           before == Before(s.free_list, k, base)
           list == PutBlock(s.free_list, k, base, n)
           j == IF before THEN k ELSE k + 1
           behind == Behind(list, j)
           F == IF behind THEN Merge(list, j) ELSE list
           P == FlagsAfterFree(s, before, behind, base,
                               IF behind THEN list[j + 1].base ELSE base)
           R == [p \in Page |-> IF p \in base .. base + n - 1 THEN 0 ELSE s.ref[p]]
           N == s.nr_free + n
<1>1. t = [s EXCEPT !.free_list = F, !.PageProperty = P, !.ref = R, !.nr_free = N]
  BY Zenon DEF default_free_pages
<1> HIDE DEF F, P, R, N
<1>2. /\ t.free_list = F /\ t.PageProperty = P /\ t.ref = R /\ t.nr_free = N
      /\ t.page = s.page /\ t.res = s.res /\ t.mm = s.mm /\ t.args = s.args
      /\ t = [free_list |-> t.free_list, PageProperty |-> t.PageProperty,
              nr_free |-> t.nr_free, ref |-> t.ref, page |-> t.page, res |-> t.res,
              mm |-> t.mm, args |-> t.args]
  <2>1. PICK r \in [free_list : Seq(Blocks), PageProperty : SUBSET Page, nr_free : 0 .. NPages,
           ref : [Page -> Nat], page : Page \cup {NULL}, res : Results,
           mm : Space, args : Seq(Page)] : r = s
    BY DEF State
  <2> QED BY <1>1, <2>1
<1> QED BY <1>2, Zenon DEF F, P, R, N

\* The blocks in front of a page that is not free, and those behind it.
LEMMA InFrontFacts ==
    ASSUME NEW L, BlockList(L), NEW base \in Page, base \notin FreeOf(L),
           NEW k, k = InFront(L, base)
    PROVE  /\ k \in 0 .. Len(L)
           /\ \A i \in 1 .. Len(L) : i <= k => End(L[i]) <= base
           /\ \A i \in 1 .. Len(L) : k < i => base < L[i].base
<1>1. L \in Seq(Blocks) /\ Len(L) \in Nat /\ DOMAIN L = 1 .. Len(L) /\ base \in Nat
  BY LenProperties, PagesAssumption DEF BlockList, Page
<1> DEFINE above == {i \in 1 .. Len(L) : base < L[i].base}
<1>2. k = (IF above = {} THEN Len(L) + 1 ELSE Min(above)) - 1
  BY <1>1 DEF InFront
<1>3. ASSUME NEW i \in 1 .. Len(L), i \notin above PROVE End(L[i]) <= base
  <2>1. L[i] \in Blocks /\ L[i].base \in Nat /\ End(L[i]) \in Nat
    BY <1>1, BlockFacts
  <2>2. base \notin PagesOf(L[i])
    BY <1>1, InFreeOf
  <2>3. ~(base < L[i].base)
    BY <1>3
  <2> QED BY <1>1, <2>1, <2>2, <2>3, InBlock
<1>4. CASE above = {}
  <2>1. k = Len(L)
    BY <1>1, <1>2, <1>4
  <2>2. \A i \in 1 .. Len(L) : i \notin above
    BY <1>4
  <2>3. \A i \in 1 .. Len(L) : ~(k < i)
    BY <1>1, <2>1
  <2> HIDE DEF above
  <2> QED BY <1>1, <1>3, <2>1, <2>2, <2>3
<1>5. CASE above # {}
  <2>1. PICK m \in above : \A i \in above : m <= i
    <3>1. above \in SUBSET Nat
      BY <1>1
    <3> HIDE DEF above
    <3> QED BY <1>5, <3>1, Unmaps!LeastNat
  <2>2. Min(above) \in above /\ \A i \in above : Min(above) <= i
    <3> HIDE DEF above
    <3> QED BY <2>1 DEF Min
  <2>3. PICK l : l = Min(above)
    OBVIOUS
  <2>4. l \in 1 .. Len(L) /\ base < L[l].base /\ k = l - 1 /\ \A i \in above : l <= i
    BY <1>2, <1>5, <2>2, <2>3
  <2>5. ASSUME NEW i \in 1 .. Len(L), i <= k PROVE End(L[i]) <= base
    <3>1. i < l
      BY <1>1, <2>4, <2>5
    <3>2. i \notin above
      BY <2>4, <3>1
    <3> QED BY <1>3, <3>2
  <2>6. ASSUME NEW i \in 1 .. Len(L), k < i PROVE base < L[i].base
    <3>1. CASE i = l
      BY <2>4, <3>1
    <3>2. CASE l < i
      <4>1. End(L[l]) < L[i].base
        BY <2>4, <3>2, BlocksApart
      <4>2. L[l].base < End(L[l]) /\ L[l].base \in Nat /\ End(L[l]) \in Nat /\ L[i].base \in Nat
        BY <1>1, <2>4, BlockFacts
      <4> QED BY <1>1, <2>4, <4>1, <4>2
    <3>3. i = l \/ l < i
      BY <1>1, <2>4, <2>6
    <3> QED BY <3>1, <3>2, <3>3
  <2>7. k \in 0 .. Len(L)
    BY <1>1, <2>4
  <2> QED BY <2>5, <2>6, <2>7
<1> QED BY <1>4, <1>5

LEMMA InsertBlock ==
    ASSUME NEW L \in Seq(Blocks), NEW i \in 1 .. Len(L) + 1, NEW B \in Blocks
    PROVE  /\ InsertAt(L, i, B) \in Seq(Blocks)
           /\ Len(InsertAt(L, i, B)) = Len(L) + 1
           /\ \A k \in 1 .. i - 1 : InsertAt(L, i, B)[k] = L[k]
           /\ InsertAt(L, i, B)[i] = B
           /\ \A k \in i .. Len(L) : InsertAt(L, i, B)[k + 1] = L[k]
BY InsertFacts

\* The block of the pages that are given back, with its neighbours, takes the
\* place of those.
LEMMA PutFacts ==
    ASSUME NEW L, BlockList(L), NEW base \in Page, NEW n \in Nat \ {0},
           base \notin FreeOf(L),
           NEW k, k = InFront(L, base), NEW list, list = PutBlock(L, k, base, n)
    PROVE  \E a \in 0 .. Len(L), B \in Blocks :
             /\ IsSplice(list, L, a, k, B) /\ k \in a .. Len(L)
             /\ End(B) = base + n
             /\ IF Before(L, k, base)
                THEN k > 0 /\ a = k - 1 /\ End(L[k]) = base /\ B.base = L[k].base
                ELSE a = k /\ B.base = base /\ (k > 0 => End(L[k]) # base)
<1>1. L \in Seq(Blocks) /\ Len(L) \in Nat /\ base \in Nat
  BY LenProperties, PagesAssumption DEF BlockList, Page
<1>2. k \in 0 .. Len(L)
  BY InFrontFacts
<1>3. CASE Before(L, k, base)
  <2>1. k > 0 /\ k \in 1 .. Len(L) /\ End(L[k]) = base
    BY <1>1, <1>2, <1>3 DEF Before, End
  <2>2. /\ L[k].base \in Page /\ L[k].base \in Nat /\ L[k].property \in Nat
        /\ L[k].base + L[k].property = base
    BY <1>1, <2>1, BlockFacts DEF End
  <2>3. PICK B : B = Block(L[k].base, L[k].property + n)
    OBVIOUS
  <2>4. B \in Blocks /\ B.base = L[k].base /\ End(B) = base + n
    <3>1. L[k].property + n \in Nat \ {0}
      BY <2>2
    <3>2. B \in Blocks /\ B.base = L[k].base /\ End(B) = L[k].base + (L[k].property + n)
      BY <2>2, <2>3, <3>1, BlockIs
    <3> QED BY <2>2, <3>2
  <2>5. list = ReplaceAt(L, k, B)
    BY <1>3, <2>3 DEF PutBlock
  <2>6. /\ list \in Seq(Blocks) /\ Len(list) = Len(L) /\ list[k] = B
        /\ \A i \in 1 .. Len(L) : i # k => list[i] = L[i]
    <3>1. L \in Seq(Blocks) /\ k \in 1 .. Len(L) /\ B \in Blocks
      BY <1>1, <2>1, <2>4
    <3>2. /\ ReplaceAt(L, k, B) \in Seq(Blocks) /\ Len(ReplaceAt(L, k, B)) = Len(L)
          /\ ReplaceAt(L, k, B)[k] = B
          /\ \A i \in 1 .. Len(L) : i # k => ReplaceAt(L, k, B)[i] = L[i]
      BY <3>1, ReplaceBlock
    <3> QED BY <2>5, <3>2
  <2>7. PICK a \in 0 .. Len(L) : a = k - 1
    BY <1>1, <2>1
  <2>8. k \in a .. Len(L) /\ a + 1 = k /\ Len(L) - (k - a) + 1 = Len(L) /\ k - a = 1
    BY <1>1, <2>1, <2>7
  <2>10. \A i \in 1 .. a : i \in 1 .. Len(L) /\ i # k
    BY <1>1, <2>1, <2>7
  <2>11. \A i \in a + 2 .. Len(L) : i \in 1 .. Len(L) /\ i # k /\ i + 1 - 1 = i
    BY <1>1, <2>1, <2>7
  <2>9. IsSplice(list, L, a, k, B)
    BY <2>6, <2>8, <2>10, <2>11 DEF IsSplice
  <2> QED BY <1>3, <2>1, <2>4, <2>7, <2>8, <2>9
<1>4. CASE ~Before(L, k, base)
  <2>1. PICK B : B = Block(base, n)
    OBVIOUS
  <2>2. B \in Blocks /\ B.base = base /\ End(B) = base + n
    BY <2>1, BlockIs
  <2>3. list = InsertAt(L, k + 1, B)
    BY <1>4, <2>1 DEF PutBlock
  <2>4. PICK h : h = k + 1
    OBVIOUS
  <2>5. /\ list \in Seq(Blocks) /\ Len(list) = Len(L) + 1
        /\ \A i \in 1 .. h - 1 : list[i] = L[i]
        /\ list[h] = B
        /\ \A i \in h .. Len(L) : list[i + 1] = L[i]
    <3>1. L \in Seq(Blocks) /\ h \in 1 .. Len(L) + 1 /\ B \in Blocks
      BY <1>1, <1>2, <2>2, <2>4
    <3>2. /\ InsertAt(L, h, B) \in Seq(Blocks)
          /\ Len(InsertAt(L, h, B)) = Len(L) + 1
          /\ \A i \in 1 .. h - 1 : InsertAt(L, h, B)[i] = L[i]
          /\ InsertAt(L, h, B)[h] = B
          /\ \A i \in h .. Len(L) : InsertAt(L, h, B)[i + 1] = L[i]
      BY ONLY <3>1, InsertBlock
    <3>3. list = InsertAt(L, h, B)
      BY <2>3, <2>4
    <3> QED BY <3>2, <3>3
  <2>6. ASSUME NEW i \in k + 2 .. Len(list) PROVE list[i] = L[i + (k - k) - 1]
    <3>1. PICK g : g = i - 1
      OBVIOUS
    <3>2. g \in h .. Len(L) /\ g + 1 = i /\ i + (k - k) - 1 = g
      BY <1>1, <1>2, <2>4, <2>5, <3>1
    <3> QED BY <2>5, <3>2
  <2>7. /\ h - 1 = k /\ Len(L) - (k - k) + 1 = Len(L) + 1 /\ k \in k .. Len(L)
        /\ h = k + 1
    BY <1>1, <1>2, <2>4
  <2>8. IsSplice(list, L, k, k, B)
    BY <2>5, <2>6, <2>7 DEF IsSplice
  <2>9. k > 0 => End(L[k]) # base
    BY <1>4 DEF Before, End
  <2> QED BY <1>2, <1>4, <2>2, <2>7, <2>8, <2>9
<1> QED BY <1>3, <1>4

\* default_free_pages of pages that are not free: they are then, and nothing else is.
LEMMA GiveKeeps ==
    ASSUME NEW s \in State, s.res = "ok", ListSound(s), NEW base \in Page, NEW n \in Nat \ {0},
           base + n - 1 \in Page, FreePages(s) \cap (base .. base + n - 1) = {},
           NEW t, t = default_free_pages(s, base, n)
    PROVE  Gives(s, t, base, n)
<1>1. PICK L \in Seq(Blocks) : L = s.free_list
  BY DEF State
<1>2. /\ BlockList(L) /\ FreePages(s) = FreeOf(L) /\ s.PageProperty = Heads(L)
      /\ s.nr_free = Cardinality(FreeOf(L)) /\ Len(L) \in Nat /\ base \in Nat
      /\ base + n <= NPages + 1
  BY <1>1, ListSoundIs, LenProperties, PagesAssumption DEF Page
<1> DEFINE given == base .. base + n - 1
<1>3. /\ given \subseteq Page /\ base \in given
      /\ \A x : x \in given <=> x \in Int /\ base <= x /\ x < base + n
  BY <1>2, PagesAssumption DEF Page
<1>4. \A x \in given : x \notin FreeOf(L)
  BY <1>2
<1>5. \A x : x \in Heads(L) => x \in FreeOf(L)
  <2>1. ASSUME NEW x \in Heads(L) PROVE x \in FreeOf(L)
    <3>1. PICK i \in 1 .. Len(L) : x = L[i].base
      BY <1>1, <2>1, InFreeOf
    <3>2. L[i] \in Blocks /\ L[i].base \in Nat /\ End(L[i]) > L[i].base
      BY <1>1, BlockFacts
    <3>3. x \in PagesOf(L[i])
      BY <3>1, <3>2, InBlock
    <3> QED BY <1>1, <3>3, InFreeOf
  <2> QED BY <2>1
<1>6. s.PageProperty \cap given = {}
  BY <1>2, <1>4, <1>5
<1>7. PICK k : k = InFront(L, base)
  OBVIOUS
<1>8. /\ k \in 0 .. Len(L)
      /\ \A i \in 1 .. Len(L) : i <= k => End(L[i]) <= base
      /\ \A i \in 1 .. Len(L) : k < i => base < L[i].base
  BY <1>2, <1>3, <1>4, <1>7, InFrontFacts
<1>9. ASSUME NEW i \in 1 .. Len(L), k < i PROVE base + n <= L[i].base
  <2>1. L[i] \in Blocks /\ L[i].base \in Nat /\ End(L[i]) > L[i].base
    BY <1>1, BlockFacts
  <2>2. L[i].base \in FreeOf(L)
    BY <1>1, <2>1, InBlock, InFreeOf
  <2>3. L[i].base \notin given /\ base < L[i].base
    BY <1>4, <1>8, <1>9, <2>2
  <2> QED BY <1>2, <1>3, <2>1, <2>3
<1>10. PICK list : list = PutBlock(L, k, base, n)
  OBVIOUS
<1>11. PICK a \in 0 .. Len(L), B \in Blocks :
         /\ IsSplice(list, L, a, k, B) /\ k \in a .. Len(L)
         /\ End(B) = base + n
         /\ IF Before(L, k, base)
            THEN k > 0 /\ a = k - 1 /\ End(L[k]) = base /\ B.base = L[k].base
            ELSE a = k /\ B.base = base /\ (k > 0 => End(L[k]) # base)
  <2>1. BlockList(L) /\ base \notin FreeOf(L)
    BY <1>2, <1>3, <1>4
  <2> QED BY ONLY base \in Page, n \in Nat \ {0}, <2>1, <1>7, <1>10, PutFacts
<1>12. /\ list[a + 1] = B /\ Len(list) = Len(L) - (k - a) + 1
       /\ \A i \in a + 2 .. Len(list) : list[i] = L[i + (k - a) - 1]
       /\ a \in Nat /\ k \in Nat /\ a <= k /\ k <= Len(L)
  <2>1. IsSplice(list, L, a, k, B) /\ k \in a .. Len(L)
    BY <1>11
  <2>2. /\ list[a + 1] = B /\ Len(list) = Len(L) - (k - a) + 1
        /\ \A i \in a + 2 .. Len(list) : list[i] = L[i + (k - a) - 1]
    BY ONLY <2>1 DEF IsSplice
  <2>3. a \in Nat /\ k \in Nat /\ a <= k /\ k <= Len(L)
    BY ONLY <2>1, <1>2, a \in 0 .. Len(L)
  <2> QED BY <2>2, <2>3
<1>13. PICK j : j = IF Before(L, k, base) THEN k ELSE k + 1
  OBVIOUS
<1>14. j = a + 1
  BY <1>8, <1>11, <1>13
<1>15. k < Len(L) => list[a + 2] = L[k + 1]
  <2>1. ASSUME k < Len(L) PROVE list[a + 2] = L[k + 1]
    <3>1. a + 2 \in a + 2 .. Len(list) /\ a + 2 + (k - a) - 1 = k + 1
      BY <1>2, <1>12, <2>1
    <3> QED BY <1>12, <3>1
  <2> QED BY <2>1
<1>16. Behind(list, j) <=> k < Len(L) /\ base + n = L[k + 1].base
  <2>1. j < Len(list) <=> k < Len(L)
    BY <1>2, <1>12, <1>14
  <2>2. list[j].base + list[j].property = base + n
    BY <1>11, <1>12, <1>14 DEF End
  <2>3. j + 1 = a + 2
    BY <1>12, <1>14
  <2> QED BY <1>15, <2>1, <2>2, <2>3 DEF Behind
<1>17. PICK M : M = IF Behind(list, j) THEN Merge(list, j) ELSE list
  OBVIOUS
\* The list then has the block C in the place of those after the a-th up to the b-th.
<1>18. PICK b \in a .. Len(L), C \in Blocks :
         /\ IsSplice(M, L, a, b, C) /\ C.base = B.base
         /\ IF Behind(list, j) THEN b = k + 1 /\ End(C) = End(L[k + 1])
                               ELSE b = k /\ End(C) = base + n
  <2>1. CASE ~Behind(list, j)
    BY <1>11, <1>17, <2>1
  <2>2. CASE Behind(list, j)
    <3>1. k < Len(L) /\ base + n = L[k + 1].base /\ k + 1 \in 1 .. Len(L) /\ k + 1 \in a .. Len(L)
      BY <1>2, <1>12, <1>16, <2>2
    <3>2. /\ L[k + 1].property \in Nat \ {0} /\ End(L[k + 1]) = base + n + L[k + 1].property
          /\ B.base \in Page /\ B.base \in Nat /\ B.property \in Nat \ {0}
          /\ B.base + B.property = base + n
      <4>1. L[k + 1].property \in Nat /\ L[k + 1].property > 0
        BY <1>1, <3>1, BlockFacts
      <4>2. End(L[k + 1]) = base + n + L[k + 1].property
        BY <3>1 DEF End
      <4>3. B.base \in Page /\ B.property \in Nat \ {0}
        BY DEF Blocks
      <4>4. B.base + B.property = base + n
        BY <1>11 DEF End
      <4> QED BY <4>1, <4>2, <4>3, <4>4, PagesAssumption DEF Page
    <3>3. PICK C : C = Block(B.base, B.property + L[k + 1].property)
      OBVIOUS
    <3>4. C \in Blocks /\ C.base = B.base /\ End(C) = End(L[k + 1])
      <4>1. PICK q \in Nat \ {0} : q = L[k + 1].property
        BY ONLY <3>2
      <4>2. PICK c \in Page, d \in Nat \ {0} : c = B.base /\ d = B.property
        BY ONLY <3>2
      <4>3. c \in Nat /\ c + d = base + n /\ End(L[k + 1]) = base + n + q
        BY ONLY <3>2, <4>1, <4>2
      <4>4. d + q \in Nat \ {0}
        BY ONLY d \in Nat \ {0}, q \in Nat \ {0}
      <4>5. C = Block(c, d + q)
        BY ONLY <3>3, <4>1, <4>2
      <4>6. C \in Blocks /\ C.base = c /\ End(C) = c + (d + q)
        BY ONLY <4>4, <4>5, c \in Page, BlockIs
      <4>7. c + (d + q) = base + n + q
        BY ONLY <1>2, <4>3, n \in Nat \ {0}, d \in Nat \ {0}, q \in Nat \ {0}
      <4> QED BY ONLY <4>2, <4>3, <4>6, <4>7
    <3>5. M = RemoveAt(ReplaceAt(list, a + 1, C), a + 1 + 1)
      <4>1. list[j] = B /\ list[j + 1] = L[k + 1] /\ j + 1 = a + 1 + 1
        <5>1. a + 1 + 1 = a + 2 /\ k < Len(L) /\ list[a + 1] = B
          BY ONLY <1>12, <3>1
        <5>2. list[a + 2] = L[k + 1]
          BY ONLY <1>15, <5>1
        <5> QED BY ONLY <1>14, <5>1, <5>2
      <4>2. M = RemoveAt(ReplaceAt(list, j,
                                   Block(list[j].base, list[j].property + list[j + 1].property)),
                         j + 1)
        BY <1>17, <2>2, Zenon DEF Merge
      <4> QED BY <1>14, <3>3, <4>1, <4>2
    <3>6. IsSplice(M, L, a, k + 1, C)
      <4>1. k \in a .. Len(L) /\ k < Len(L) /\ IsSplice(list, L, a, k, B)
        BY <1>11, <3>1
      <4> QED BY <1>2, <3>4, <3>5, <4>1, SpliceMore
    <3> QED BY <2>2, <3>1, <3>4, <3>6
  <2> QED BY <2>1, <2>2
<1>19. C.base \in Nat /\ End(C) \in Nat /\ base + n <= End(C) /\ C.base <= base
  <2>1. CASE ~Behind(list, j)
    <3>1. End(C) = base + n
      BY <1>18, <2>1
    <3>2. C.base \in Nat /\ C.base <= base
      <4>1. CASE Before(L, k, base)
        <5>1. k \in 1 .. Len(L)
          BY <1>8, <1>11, <4>1
        <5> QED BY <1>1, <1>11, <1>18, <4>1, <5>1, BlockFacts
      <4> QED BY <1>2, <1>11, <1>18, <4>1
    <3> QED BY <1>2, <3>1, <3>2
  <2>2. CASE Behind(list, j)
    <3>1. k < Len(L) /\ base + n = L[k + 1].base /\ k + 1 \in 1 .. Len(L)
      BY <1>2, <1>12, <1>16, <2>2
    <3>2. End(C) = End(L[k + 1]) /\ End(L[k + 1]) \in Nat /\ L[k + 1].base < End(L[k + 1])
      BY <1>1, <1>18, <2>2, <3>1, BlockFacts
    <3>3. C.base \in Nat /\ C.base <= base
      <4>1. CASE Before(L, k, base)
        <5>1. k \in 1 .. Len(L)
          BY <1>8, <1>11, <4>1
        <5> QED BY <1>1, <1>11, <1>18, <4>1, <5>1, BlockFacts
      <4> QED BY <1>2, <1>11, <1>18, <4>1
    <3> QED BY <1>2, <3>1, <3>2, <3>3
  <2> QED BY <2>1, <2>2
<1>20. BlockList(M)
  <2>1. a > 0 => End(L[a]) < C.base
    <3>1. SUFFICES ASSUME a > 0 PROVE End(L[a]) < C.base
      OBVIOUS
    <3>2. a \in 1 .. Len(L) /\ k \in Nat
      BY <1>2, <1>12, <3>1
    <3>3. End(L[a]) \in Nat
      BY <1>1, <3>2, BlockFacts
    <3>4. CASE Before(L, k, base)
      <4>1. k > 0 /\ a = k - 1 /\ B.base = L[k].base
        BY <1>11, <3>4
      <4>2. k \in 1 .. Len(L) /\ a < k
        <5>1. a \in Nat /\ k \in Nat /\ k <= Len(L) /\ k > 0 /\ a = k - 1
          BY <1>12, <4>1, Zenon
        <5>2. Len(L) \in Nat
          BY <1>2
        <5> QED BY ONLY <5>1, <5>2
      <4>3. End(L[a]) < L[k].base
        BY <1>2, <3>2, <4>2, BlocksApart
      <4>4. C.base = B.base
        BY <1>18
      <4> QED BY <4>1, <4>3, <4>4
    <3>5. CASE ~Before(L, k, base)
      BY <1>2, <1>8, <1>11, <1>18, <3>1, <3>2, <3>3, <3>5
    <3> QED BY <3>4, <3>5
  <2>2. b < Len(L) => End(C) < L[b + 1].base
    <3>1. SUFFICES ASSUME b < Len(L) PROVE End(C) < L[b + 1].base
      OBVIOUS
    <3>2. b + 1 \in 1 .. Len(L)
      <4>1. a \in Nat /\ Len(L) \in Nat
        BY ONLY <1>2, <1>12
      <4> QED BY ONLY <3>1, <4>1, b \in a .. Len(L)
    <3>3. CASE Behind(list, j)
      <4>1. b = k + 1 /\ k + 1 \in 1 .. Len(L) /\ k + 1 < b + 1
        BY <1>2, <1>12, <1>18, <3>1, <3>3
      <4>2. End(L[k + 1]) < L[b + 1].base
        BY ONLY <1>2, <3>2, <4>1, BlocksApart
      <4> QED BY <1>18, <3>3, <4>2
    <3>4. CASE ~Behind(list, j)
      <4>1. b = k /\ End(C) = base + n /\ k < b + 1
        BY <1>12, <1>18, <3>4
      <4>2. base + n # L[b + 1].base /\ L[b + 1].base \in Nat
        BY <1>1, <1>16, <3>1, <3>2, <3>4, <4>1, BlockFacts
      <4>3. base + n <= L[b + 1].base
        BY <1>9, <3>2, <4>1
      <4> QED BY <1>2, <4>1, <4>2, <4>3
    <3> QED BY <3>3, <3>4
  <2>3. End(C) <= NPages + 1
    <3>1. CASE Behind(list, j)
      <4>1. k + 1 \in 1 .. Len(L)
        BY <1>2, <1>12, <1>16, <3>1
      <4> QED BY <1>2, <1>18, <3>1, <4>1 DEF BlockList
    <3>2. CASE ~Behind(list, j)
      BY <1>2, <1>18, <3>2
    <3> QED BY <3>1, <3>2
  <2>4. BlockList(L) /\ IsSplice(M, L, a, b, C)
    BY <1>2, <1>18
  <2> QED BY ONLY a \in 0 .. Len(L), b \in a .. Len(L), C \in Blocks, <2>1, <2>2, <2>3, <2>4,
                  SpliceKeeps
\* The blocks that C replaces are those that base touches.
<1>21. ASSUME NEW i \in 1 .. Len(L)
       PROVE  i \in a + 1 .. b <=> \/ i = k /\ Before(L, k, base)
                                   \/ i = k + 1 /\ Behind(list, j)
  <2>1. a = IF Before(L, k, base) THEN k - 1 ELSE k
    BY <1>11
  <2>2. b = IF Behind(list, j) THEN k + 1 ELSE k
    BY <1>18
  <2> QED BY <1>8, <2>1, <2>2
<1>22. ASSUME NEW x
       PROVE  /\ x \in FreeOf(M) <=> x \in FreeOf(L) \/ x \in given
              /\ x \in Heads(M) <=> x \in FlagsAfterFree(s, Before(L, k, base), Behind(list, j), base,
                                            IF Behind(list, j) THEN list[j + 1].base ELSE base)
  <2>1. /\ x \in FreeOf(M) <=>
             \/ x \in PagesOf(C)
             \/ x \in FreeOf(L) /\ \A i \in a + 1 .. b : x \notin PagesOf(L[i])
        /\ x \in Heads(M) <=>
             \/ x = C.base
             \/ x \in Heads(L) /\ \A i \in a + 1 .. b : x # L[i].base
    <3>1. BlockList(L) /\ IsSplice(M, L, a, b, C)
      BY <1>2, <1>18
    <3> QED BY ONLY a \in 0 .. Len(L), b \in a .. Len(L), C \in Blocks, <3>1, SpliceHas
  <2>2. PICK before \in BOOLEAN, behind \in BOOLEAN :
          before = Before(L, k, base) /\ behind = Behind(list, j)
    BY DEF Before, Behind
  <2>3. before => k \in 1 .. Len(L) /\ L[k] \in Blocks /\ End(L[k]) = base /\ C.base = L[k].base
    BY <1>1, <1>8, <1>11, <1>18, <2>2, BlockFacts
  <2>4. behind => /\ k + 1 \in 1 .. Len(L) /\ L[k + 1] \in Blocks
                  /\ L[k + 1].base = base + n /\ End(C) = End(L[k + 1])
    <3>1. behind => k + 1 \in 1 .. Len(L) /\ L[k + 1].base = base + n
      BY <1>2, <1>12, <1>16, <2>2
    <3> QED BY <1>1, <1>18, <2>2, <3>1, BlockFacts
  <2>5. (~before => C.base = base) /\ (~behind => End(C) = base + n)
    BY <1>11, <1>18, <2>2
  <2>6. a + 1 .. b \subseteq 1 .. Len(L)
    <3>1. b <= Len(L) /\ b \in Int
      BY ONLY <1>2, <1>12, b \in a .. Len(L)
    <3> QED BY ONLY <1>2, <1>12, <3>1
  <2>7. (\E i \in a + 1 .. b : x \in PagesOf(L[i])) <=>
           (before /\ x \in PagesOf(L[k])) \/ (behind /\ x \in PagesOf(L[k + 1]))
    BY <1>21, <2>2, <2>3, <2>4, <2>6
  <2>8. (\E i \in a + 1 .. b : x = L[i].base) <=>
           (before /\ x = L[k].base) \/ (behind /\ x = L[k + 1].base)
    BY <1>21, <2>2, <2>3, <2>4, <2>6
  <2>9. x \in PagesOf(C) <=> x \in Int /\ C.base <= x /\ x < End(C)
    BY InBlock
  <2>10. before => (x \in PagesOf(L[k]) <=> x \in Int /\ C.base <= x /\ x < base)
    BY <2>3, InBlock
  <2>11. behind => (x \in PagesOf(L[k + 1]) <=> x \in Int /\ base + n <= x /\ x < End(C))
    BY <2>4, InBlock
  <2>12. x \in PagesOf(C) <=> \/ x \in given
                              \/ before /\ x \in PagesOf(L[k])
                              \/ behind /\ x \in PagesOf(L[k + 1])
    <3>1. x \in given <=> x \in Int /\ base <= x /\ x < base + n
      BY <1>3
    <3> HIDE DEF given
    <3>2. PICK c \in Nat, e \in Nat, m \in Nat : c = C.base /\ e = End(C) /\ m = base + n
      BY ONLY <1>2, <1>19, n \in Nat \ {0}
    <3>3. c <= base /\ base < m /\ m <= e
      BY ONLY <1>2, <1>19, <3>2, n \in Nat \ {0}
    <3>4. /\ x \in PagesOf(C) <=> x \in Int /\ c <= x /\ x < e
          /\ x \in given <=> x \in Int /\ base <= x /\ x < m
          /\ before => (x \in PagesOf(L[k]) <=> x \in Int /\ c <= x /\ x < base)
          /\ behind => (x \in PagesOf(L[k + 1]) <=> x \in Int /\ m <= x /\ x < e)
          /\ (~before => c = base) /\ (~behind => e = m)
      BY ONLY <2>5, <2>9, <2>10, <2>11, <3>1, <3>2
    <3>5. CASE x \notin Int
      BY ONLY <3>4, <3>5
    <3>6. CASE x \in Int
      <4>1. PICK y \in Int : y = x
        BY <3>6
      <4>2. base \in Nat
        BY <1>2
      <4>3. CASE before /\ behind
        BY ONLY c \in Nat, e \in Nat, m \in Nat, y \in Int, <3>3, <3>4, <4>1, <4>2, <4>3
      <4>4. CASE before /\ ~behind
        BY ONLY c \in Nat, e \in Nat, m \in Nat, y \in Int, <3>3, <3>4, <4>1, <4>2, <4>4
      <4>5. CASE ~before /\ behind
        BY ONLY c \in Nat, e \in Nat, m \in Nat, y \in Int, <3>3, <3>4, <4>1, <4>2, <4>5
      <4>6. CASE ~before /\ ~behind
        BY ONLY c \in Nat, e \in Nat, m \in Nat, y \in Int, <3>3, <3>4, <4>1, <4>2, <4>6
      <4> QED BY <4>3, <4>4, <4>5, <4>6
    <3> QED BY <3>5, <3>6
  <2>13. before => L[k].base \in Heads(L) /\ (x \in PagesOf(L[k]) => x \in FreeOf(L))
    BY <1>1, <2>3, InFreeOf
  <2>14. behind => L[k + 1].base \in Heads(L) /\ (x \in PagesOf(L[k + 1]) => x \in FreeOf(L))
    BY <1>1, <2>4, InFreeOf
  <2>15. x \in FreeOf(M) <=> x \in FreeOf(L) \/ x \in given
    BY <2>1, <2>7, <2>12, <2>13, <2>14
  <2>16. behind => list[j + 1].base = L[k + 1].base
    <3>1. behind => k < Len(L)
      BY <1>16, <2>2
    <3>2. j + 1 = a + 2
      BY <1>12, <1>14
    <3> QED BY <1>15, <3>1, <3>2
  <2>17. base \notin Heads(L) /\ (behind => base # L[k + 1].base)
    <3>1. base \notin Heads(L)
      BY <1>3, <1>4, <1>5
    <3> QED BY <2>14, <3>1
  <2>18. (before /\ behind) => L[k].base # L[k + 1].base
    <3>1. (before /\ behind) => k \in 1 .. Len(L) /\ k + 1 \in 1 .. Len(L) /\ k # k + 1
      BY <1>2, <2>3, <2>4
    <3> QED BY <1>2, <3>1, BlocksDiffer
  <2>19. x \in Heads(M) <=>
            x \in (Heads(L) \cup {base})
                    \ ((IF before THEN {base} ELSE {}) \cup (IF behind THEN {L[k + 1].base} ELSE {}))
    <3>1. CASE before
      <4>1. C.base = L[k].base /\ L[k].base \in Heads(L) /\ L[k].base # base
        BY <2>3, <2>13, <2>17, <3>1
      <4> QED BY <2>1, <2>8, <2>17, <2>18, <3>1, <4>1
    <3>2. CASE ~before
      BY <2>1, <2>5, <2>8, <2>17, <3>2
    <3> QED BY <3>1, <3>2
  <2>20. FlagsAfterFree(s, before, behind, base, IF behind THEN list[j + 1].base ELSE base) =
            (Heads(L) \cup {base})
              \ ((IF before THEN {base} ELSE {}) \cup (IF behind THEN {L[k + 1].base} ELSE {}))
    BY <1>2, <2>16 DEF FlagsAfterFree
  <2> QED BY <2>2, <2>15, <2>19, <2>20
<1>23. /\ t.free_list = M
       /\ t.PageProperty = FlagsAfterFree(s, Before(L, k, base), Behind(list, j), base,
                                          IF Behind(list, j) THEN list[j + 1].base ELSE base)
       /\ t.ref = [p \in Page |-> IF p \in given THEN 0 ELSE s.ref[p]]
       /\ t.nr_free = s.nr_free + n
       /\ t.page = s.page /\ t.res = s.res /\ t.mm = s.mm /\ t.args = s.args
       /\ t = [free_list |-> t.free_list, PageProperty |-> t.PageProperty,
               nr_free |-> t.nr_free, ref |-> t.ref, page |-> t.page, res |-> t.res,
               mm |-> t.mm, args |-> t.args]
  <2>1. LET k_ == InFront(s.free_list, base)
            before == Before(s.free_list, k_, base)
            list_ == PutBlock(s.free_list, k_, base, n)
            j_ == IF before THEN k_ ELSE k_ + 1
            behind == Behind(list_, j_)
        IN  /\ t.free_list = IF behind THEN Merge(list_, j_) ELSE list_
            /\ t.PageProperty = FlagsAfterFree(s, before, behind, base,
                                               IF behind THEN list_[j_ + 1].base ELSE base)
            /\ t.ref = [p \in Page |-> IF p \in given THEN 0 ELSE s.ref[p]]
            /\ t.nr_free = s.nr_free + n
            /\ t.page = s.page /\ t.res = s.res /\ t.mm = s.mm /\ t.args = s.args
            /\ t = [free_list |-> t.free_list, PageProperty |-> t.PageProperty,
                    nr_free |-> t.nr_free, ref |-> t.ref, page |-> t.page, res |-> t.res,
                    mm |-> t.mm, args |-> t.args]
    BY <1>6, GiveFields
  <2> QED BY <1>1, <1>7, <1>10, <1>13, <1>17, <2>1
<1>24. FreeOf(M) = FreeOf(L) \cup given /\ t.PageProperty = Heads(M)
  BY <1>22, <1>23
<1>25. M \in Seq(Blocks) /\ FreeOf(M) \subseteq Page /\ FreeOf(L) \subseteq Page
  BY <1>2, <1>20, FreeArePages DEF BlockList
<1>26. t.nr_free = Cardinality(FreeOf(M)) /\ t.nr_free \in 0 .. NPages
  <2>1. FreeOf(L) \cap given = {}
    BY <1>4
  <2>2. Cardinality(FreeOf(L) \cup given) = Cardinality(FreeOf(L)) + Cardinality(given)
    BY <1>3, <1>25, <2>1, CountTwo
  <2>3. Cardinality(given) = n
    BY <1>2, CountRange
  <2>4. Cardinality(FreeOf(M)) \in Nat /\ Cardinality(FreeOf(M)) <= NPages
    BY <1>25, CountPages
  <2> QED BY <1>2, <1>23, <1>24, <2>2, <2>3, <2>4, PagesAssumption
<1>27. t.PageProperty \subseteq Page
  <2>1. ASSUME NEW x \in Heads(M) PROVE x \in Page
    <3>1. PICK i \in 1 .. Len(M) : x = M[i].base
      BY <1>25, <2>1, InFreeOf
    <3> QED BY <1>25, <3>1, BlockFacts
  <2> QED BY <1>24, <2>1
<1>28. t \in State
  <2>1. /\ t.free_list \in Seq(Blocks) /\ t.PageProperty \in SUBSET Page
        /\ t.nr_free \in 0 .. NPages
    BY <1>23, <1>25, <1>26, <1>27
  <2>2. /\ t.page \in Page \cup {NULL} /\ t.res \in Results
        /\ t.mm \in Space /\ t.args \in Seq(Page)
    BY <1>23 DEF State
  <2>3. t.ref \in [Page -> Nat]
    <3>1. s.ref \in [Page -> Nat]
      BY DEF State
    <3> QED BY <1>23, <3>1
  <2> QED BY <1>23, <2>1, <2>2, <2>3 DEF State
<1>29. ListSound(t) /\ FreePages(t) = FreeOf(M)
  BY <1>20, <1>23, <1>24, <1>25, <1>26, ListSoundIs
<1> QED BY <1>2, <1>23, <1>24, <1>28, <1>29 DEF Gives

\* What default_alloc_pages returns: no block is long enough, or it takes a part of one.
LEMMA AllocKeeps ==
    ASSUME NEW s \in State, ListSound(s), NEW n \in Nat \ {0}, NEW t, t = default_alloc_pages(s, n)
    PROVE  \/ /\ t = [s EXCEPT !.page = NULL]
              /\ \A i \in 1 .. Len(s.free_list) : s.free_list[i].property < n
           \/ \E b \in Page : Takes(s, t, b, n)
<1>1. PICK L \in Seq(Blocks) : L = s.free_list
  BY DEF State
<1>2. /\ BlockList(L) /\ s.nr_free = Cardinality(FreeOf(L)) /\ Len(L) \in Nat
      /\ DOMAIN L = 1 .. Len(L) /\ s.nr_free \in Nat
  BY <1>1, ListSoundIs, LenProperties DEF State
<1> DEFINE fits == {i \in DOMAIN L : L[i].property >= n}
<1>3. ASSUME NEW i \in 1 .. Len(L) PROVE L[i].property <= s.nr_free /\ L[i].property \in Nat
  <2>1. L[i].base \in Nat /\ L[i].property \in Nat
    BY <1>1, BlockFacts
  <2>2. Cardinality(PagesOf(L[i])) = L[i].property
    <3>1. PICK b, m : b = L[i].base /\ m = L[i].property
      OBVIOUS
    <3>2. Cardinality(b .. b + m - 1) = m
      BY <2>1, <3>1, CountRange
    <3> QED BY <3>1, <3>2 DEF PagesOf
  <2>3. PagesOf(L[i]) \subseteq FreeOf(L) /\ FreeOf(L) \subseteq Page
    BY <1>1, <1>2, InFreeOf, FreeArePages DEF BlockList
  <2>4. IsFiniteSet(FreeOf(L))
    BY <2>3, CountPages
  <2>5. Cardinality(PagesOf(L[i])) <= Cardinality(FreeOf(L))
    BY <2>3, <2>4, FS_Subset
  <2> QED BY <1>2, <2>1, <2>2, <2>5
<1>4. CASE n > s.nr_free \/ fits = {}
  <2>1. t = [s EXCEPT !.page = NULL]
    BY <1>1, <1>4 DEF default_alloc_pages
  <2>2. ASSUME NEW i \in 1 .. Len(L) PROVE L[i].property < n
    <3>1. i \in fits <=> L[i].property >= n
      BY <1>2
    <3> QED BY <1>2, <1>3, <1>4, <3>1
  <2> QED BY <1>1, <2>1, <2>2
<1>5. CASE ~(n > s.nr_free \/ fits = {})
  <2>1. PICK m \in fits : \A i \in fits : m <= i
    <3>1. fits \in SUBSET Nat /\ fits # {}
      BY <1>2, <1>5
    <3> HIDE DEF fits
    <3> QED BY <3>1, Unmaps!LeastNat
  <2>2. PICK i : i = Min(fits)
    OBVIOUS
  <2>3. i \in fits
    <3> HIDE DEF fits
    <3> QED BY <2>1, <2>2 DEF Min
  <2>4. t = Take(s, i, n)
    BY <1>1, <1>5, <2>2 DEF default_alloc_pages
  <2>5. i \in DOMAIN s.free_list /\ s.free_list[i].property >= n
    BY <1>1, <2>3
  <2>6. Takes(s, t, s.free_list[i].base, n)
    BY <2>4, <2>5, TakeKeeps
  <2>7. s.free_list[i].base \in Page
    BY <1>1, <1>2, <2>5, BlockFacts
  <2> QED BY <2>6, <2>7
<1> QED BY <1>4, <1>5

\* alloc_page of a state in which the list is sound, if the kernel runs.
LEMMA AllocPage ==
    ASSUME NEW s \in State, Ok(s) => ListSound(s), NEW t, t = alloc_page(s)
    PROVE  /\ t \in State
           /\ t.mm = s.mm /\ t.ref = s.ref /\ t.args = s.args
           /\ t.res \in {s.res, "swap_out(NULL)"}
           /\ Ok(t) => Ok(s) /\ \E b \in Page : Takes(s, t, b, 1)
           /\ ~Ok(t) /\ Ok(s) => FreePages(s) = {} /\ t.page = NULL
<1>1. CASE ~Ok(s)
  BY <1>1 DEF Ok, alloc_page, alloc_pages
<1>2. CASE Ok(s)
  <2>1. PICK u : u = default_alloc_pages(s, 1)
    OBVIOUS
  <2>2. t = IF u.page = NULL THEN [u EXCEPT !.res = "swap_out(NULL)"] ELSE u
    BY <1>2, <2>1 DEF alloc_page, alloc_pages, Ok
  <2>3. CASE \E b \in Page : Takes(s, u, b, 1)
    <3>1. PICK b \in Page : Takes(s, u, b, 1)
      BY <2>3
    <3>2. u.page # NULL
      BY <3>1, PagesAssumption DEF Takes, Page, NULL
    <3>3. t = u
      BY <2>2, <3>2
    <3> QED BY <1>2, <3>1, <3>3 DEF Takes, Ok
  <2>4. CASE /\ u = [s EXCEPT !.page = NULL]
             /\ \A i \in 1 .. Len(s.free_list) : s.free_list[i].property < 1
    <3>1. PICK r \in [free_list : Seq(Blocks), PageProperty : SUBSET Page, nr_free : 0 .. NPages,
             ref : [Page -> Nat], page : Page \cup {NULL}, res : Results,
             mm : Space, args : Seq(Page)] : r = s
      BY DEF State
    <3>2. u.page = NULL
      BY <2>4, <3>1
    <3>3. t = [u EXCEPT !.res = "swap_out(NULL)"]
      BY <2>2, <3>2
    <3>4. /\ t \in State /\ t.mm = s.mm /\ t.ref = s.ref /\ t.args = s.args
          /\ t.res = "swap_out(NULL)" /\ t.page = NULL
      BY <2>4, <3>1, <3>3 DEF State, Results
    <3>5. FreePages(s) = {}
      <4>1. PICK L \in Seq(Blocks) : L = s.free_list
        BY DEF State
      <4>2. ~\E i \in 1 .. Len(L) : TRUE
        <5>1. ASSUME NEW i \in 1 .. Len(L) PROVE FALSE
          <6>1. L[i].property \in Nat /\ L[i].property > 0
            BY BlockFacts
          <6>2. L[i].property < 1
            BY <2>4, <4>1
          <6> QED BY <6>1, <6>2
        <5> QED BY <5>1
      <4>3. FreeOf(L) = {}
        BY <4>2, InFreeOf
      <4> QED BY <4>1, <4>3, ListSoundIs
    <3> QED BY <3>4, <3>5 DEF Ok
  <2> QED BY <1>2, <2>1, <2>3, <2>4, AllocKeeps
<1> QED BY <1>1, <1>2

\* Two pages are found if two are next to each other: a block that ends where another
\* begins would have been merged with it.
LEMMA AllocStack ==
    ASSUME NEW s \in State, Ok(s), ListSound(s), NEW t, t = alloc_pages(s, KSTACKPAGE)
    PROVE  /\ t.page = NULL <=> ~\E p \in FreePages(s) : p + 1 \in FreePages(s)
           /\ t.page # NULL => \E b \in Page : Takes(s, t, b, KSTACKPAGE)
<1>1. PICK u : u = default_alloc_pages(s, 2)
  OBVIOUS
<1>2. t = u
  BY <1>1 DEF alloc_pages, Ok, KSTACKPAGE
<1>3. CASE \E b \in Page : Takes(s, u, b, 2)
  <2>1. PICK b \in Page : Takes(s, u, b, 2)
    BY <1>3
  <2>2. u.page # NULL
    BY <2>1, PagesAssumption DEF Takes, Page, NULL
  <2>3. b \in b .. b + 2 - 1 /\ b + 1 \in b .. b + 2 - 1
    BY PagesAssumption DEF Page
  <2>4. b \in FreePages(s) /\ b + 1 \in FreePages(s)
    BY <2>1, <2>3 DEF Takes
  <2> QED BY <1>2, <2>1, <2>2, <2>4 DEF KSTACKPAGE
<1>4. CASE /\ u = [s EXCEPT !.page = NULL]
           /\ \A i \in 1 .. Len(s.free_list) : s.free_list[i].property < 2
  <2>1. u.page = NULL
    BY <1>4 DEF State
  <2>2. PICK L \in Seq(Blocks) : L = s.free_list
    BY DEF State
  <2>3. FreePages(s) = FreeOf(L) /\ BlockList(L)
    BY <2>2, ListSoundIs
  <2>4. ASSUME NEW p, p \in FreeOf(L), p + 1 \in FreeOf(L) PROVE FALSE
    <3>1. PICK i \in 1 .. Len(L) : p \in PagesOf(L[i])
      BY <2>2, <2>4, InFreeOf
    <3>2. PICK j \in 1 .. Len(L) : p + 1 \in PagesOf(L[j])
      BY <2>2, <2>4, InFreeOf
    <3>3. /\ L[i] \in Blocks /\ L[i].base \in Nat /\ End(L[i]) \in Nat
          /\ L[j] \in Blocks /\ L[j].base \in Nat /\ End(L[j]) \in Nat
          /\ End(L[i]) = L[i].base + L[i].property /\ L[i].property \in Nat
      BY <2>2, BlockFacts DEF End
    <3>4. /\ p \in Int /\ L[i].base <= p /\ p < End(L[i])
          /\ p + 1 \in Int /\ L[j].base <= p + 1 /\ p + 1 < End(L[j])
      BY <3>1, <3>2, <3>3, InBlock
    <3>5. i < j => End(L[i]) < L[j].base
      BY <2>3, BlocksApart
    <3>6. j < i => End(L[j]) < L[i].base
      BY <2>3, BlocksApart
    <3>7. i = j \/ i < j \/ j < i
      BY LenProperties
    <3>8. i = j
      BY <3>3, <3>4, <3>5, <3>6, <3>7
    <3>9. L[i].property < 2
      BY <1>4, <2>2
    <3> QED BY <3>3, <3>4, <3>8, <3>9
  <2> QED BY <1>2, <2>1, <2>3, <2>4
<1>5. 2 \in Nat \ {0}
  OBVIOUS
<1> QED BY <1>1, <1>3, <1>4, <1>5, AllocKeeps

-----------------------------------------------------------------------------
(***************************************************************************)
(* The pages of an address space.                                          *)
(***************************************************************************)
\* Each with what it is there for.
MmSlot == {<<"pgdir", 0>>} \cup ({"table"} \X Pdxs) \cup ({"user"} \X Va)
MmAt(m, x) ==
    IF x[1] = "pgdir" THEN m.pgdir ELSE IF x[1] = "table" THEN m.pde[x[2]] ELSE m.pte[x[2]]
MmView(m) == [x \in MmSlot |-> MmAt(m, x)]

\* The pages that are values of a function, which has none of them twice.
Pages(V) == {V[x] : x \in DOMAIN V} \ {NULL}
Apart(V) == \A x, y \in DOMAIN V : V[x] = V[y] /\ V[x] # NULL => x = y

Held(m) == Pages(MmView(m))

\* va is in one of the areas, as do_pgfault asks.
Mapped(m, va) == \E j \in DOMAIN m.vmas : m.vmas[j][1] <= va /\ va < m.vmas[j][2]

\* Pages are mapped in areas only, by tables that are there.
MmOk(m, r) ==
    /\ \A va \in Va : m.pte[va] # NULL =>
         m.pde[Pdx(va)] # NULL /\ r[m.pte[va]] = 1 /\ Mapped(m, va)
    /\ \A i \in Pdxs : m.pde[i] # NULL => \E va \in Va : Pdx(va) = i /\ Mapped(m, va)
    /\ m.pgdir = NULL => m = NoMM

\* s has an address space of its own; the pages in R are those of others, and those in
\* U they have mapped.
Sound(s, R, U) ==
    /\ s \in State
    /\ R \subseteq Page /\ U \subseteq R
    /\ Ok(s) =>
         /\ ListSound(s)
         /\ FreePages(s) = Page \ (R \cup Held(s.mm))
         /\ R \cap Held(s.mm) = {}
         /\ Apart(MmView(s.mm))
         /\ \A p \in FreePages(s) : s.ref[p] = 0
         /\ \A p \in U : s.ref[p] = 1
         /\ MmOk(s.mm, s.ref)

\* What the functions below do not change in s; they stop for want of a page only, and
\* once the kernel has stopped, it has.
Same(s, t) ==
    t.args = s.args /\ (Ok(t) => Ok(s)) /\ t.res \in {s.res, "swap_out(NULL)"}
SameMm(s, t) == Same(s, t) /\ t.mm.vmas = s.mm.vmas /\ t.mm.pgdir = s.mm.pgdir

\* One slot is changed, to NULL or from NULL to a page that is new.
LEMMA ChangeSlot ==
    ASSUME NEW S, NEW V, NEW W, DOMAIN V = S, DOMAIN W = S, NEW x \in S, Apart(V),
           \A y \in S : y # x => W[y] = V[y]
    PROVE  /\ W[x] = NULL => Apart(W) /\ Pages(W) = Pages(V) \ {V[x]}
           /\ V[x] = NULL /\ W[x] # NULL /\ W[x] \notin Pages(V) =>
                Apart(W) /\ Pages(W) = Pages(V) \cup {W[x]}
<1>1. \A y, z \in S : V[y] = V[z] /\ V[y] # NULL => y = z
  BY DEF Apart
<1>2. \A p : p \in Pages(V) <=> p # NULL /\ \E y \in S : V[y] = p
  BY DEF Pages
<1>3. \A p : p \in Pages(W) <=> p # NULL /\ \E y \in S : W[y] = p
  BY DEF Pages
<1>4. ASSUME W[x] = NULL
      PROVE  Apart(W) /\ Pages(W) = Pages(V) \ {V[x]}
  <2>1. Apart(W)
    BY <1>1, <1>4 DEF Apart
  <2>2. ASSUME NEW p PROVE p \in Pages(W) <=> p \in Pages(V) /\ p # V[x]
    BY <1>1, <1>2, <1>3, <1>4
  <2> QED BY <2>1, <2>2
<1>5. ASSUME V[x] = NULL, W[x] # NULL, W[x] \notin Pages(V)
      PROVE  Apart(W) /\ Pages(W) = Pages(V) \cup {W[x]}
  <2>1. Apart(W)
    BY <1>1, <1>2, <1>5 DEF Apart
  <2>2. ASSUME NEW p PROVE p \in Pages(W) <=> p \in Pages(V) \/ p = W[x]
    BY <1>2, <1>3, <1>5
  <2> QED BY <2>1, <2>2
<1> QED BY <1>4, <1>5

LEMMA ViewFacts ==
    ASSUME NEW m
    PROVE  /\ DOMAIN MmView(m) = MmSlot
           /\ <<"pgdir", 0>> \in MmSlot /\ MmView(m)[<<"pgdir", 0>>] = m.pgdir
           /\ \A i \in Pdxs : <<"table", i>> \in MmSlot /\ MmView(m)[<<"table", i>>] = m.pde[i]
           /\ \A va \in Va : <<"user", va>> \in MmSlot /\ MmView(m)[<<"user", va>>] = m.pte[va]
           /\ \A x \in MmSlot : \/ x = <<"pgdir", 0>>
                                \/ \E i \in Pdxs : x = <<"table", i>>
                                \/ \E va \in Va : x = <<"user", va>>
<1>1. DOMAIN MmView(m) = MmSlot
  BY DEF MmView
<1>2. <<"pgdir", 0>> \in MmSlot /\ MmView(m)[<<"pgdir", 0>>] = m.pgdir
  BY DEF MmView, MmSlot, MmAt
<1>3. ASSUME NEW i \in Pdxs PROVE <<"table", i>> \in MmSlot /\ MmView(m)[<<"table", i>>] = m.pde[i]
  BY DEF MmView, MmSlot, MmAt
<1>4. ASSUME NEW va \in Va PROVE <<"user", va>> \in MmSlot /\ MmView(m)[<<"user", va>>] = m.pte[va]
  BY DEF MmView, MmSlot, MmAt
<1>5. ASSUME NEW x \in MmSlot
      PROVE  \/ x = <<"pgdir", 0>>
             \/ \E i \in Pdxs : x = <<"table", i>>
             \/ \E va \in Va : x = <<"user", va>>
  BY DEF MmSlot
<1> QED BY <1>1, <1>2, <1>3, <1>4, <1>5

\* What is held is the directory, a table or a page of the user.
LEMMA HeldIs ==
    ASSUME NEW m
    PROVE  \A p : p \in Held(m) <=> /\ p # NULL
                                    /\ \/ p = m.pgdir
                                       \/ \E i \in Pdxs : p = m.pde[i]
                                       \/ \E va \in Va : p = m.pte[va]
<1>1. ASSUME NEW p PROVE p \in Held(m) <=> p # NULL /\ \E x \in MmSlot : MmView(m)[x] = p
  BY ViewFacts DEF Held, Pages
<1>2. ASSUME NEW p
      PROVE  (\E x \in MmSlot : MmView(m)[x] = p) <=>
                \/ p = m.pgdir
                \/ \E i \in Pdxs : p = m.pde[i]
                \/ \E va \in Va : p = m.pte[va]
  <2>1. ASSUME NEW x \in MmSlot, MmView(m)[x] = p
        PROVE  \/ p = m.pgdir
               \/ \E i \in Pdxs : p = m.pde[i]
               \/ \E va \in Va : p = m.pte[va]
    <3>1. CASE x = <<"pgdir", 0>>
      BY <2>1, <3>1, ViewFacts
    <3>2. CASE \E i \in Pdxs : x = <<"table", i>>
      <4>1. PICK i \in Pdxs : x = <<"table", i>>
        BY <3>2
      <4>2. MmView(m)[<<"table", i>>] = m.pde[i]
        BY ViewFacts
      <4> QED BY <2>1, <4>1, <4>2
    <3>3. CASE \E va \in Va : x = <<"user", va>>
      <4>1. PICK va \in Va : x = <<"user", va>>
        BY <3>3
      <4>2. MmView(m)[<<"user", va>>] = m.pte[va]
        BY ViewFacts
      <4> QED BY <2>1, <4>1, <4>2
    <3> QED BY <3>1, <3>2, <3>3, ViewFacts
  <2>2. ASSUME p = m.pgdir PROVE \E x \in MmSlot : MmView(m)[x] = p
    BY <2>2, ViewFacts
  <2>3. ASSUME NEW i \in Pdxs, p = m.pde[i] PROVE \E x \in MmSlot : MmView(m)[x] = p
    <3>1. <<"table", i>> \in MmSlot /\ MmView(m)[<<"table", i>>] = m.pde[i]
      BY ViewFacts
    <3> QED BY <2>3, <3>1
  <2>4. ASSUME NEW va \in Va, p = m.pte[va] PROVE \E x \in MmSlot : MmView(m)[x] = p
    <3>1. <<"user", va>> \in MmSlot /\ MmView(m)[<<"user", va>>] = m.pte[va]
      BY ViewFacts
    <3> QED BY <2>4, <3>1
  <2> QED BY <2>1, <2>2, <2>3, <2>4
<1>3. ASSUME NEW p
      PROVE  p \in Held(m) <=> /\ p # NULL
                               /\ \/ p = m.pgdir
                                  \/ \E i \in Pdxs : p = m.pde[i]
                                  \/ \E va \in Va : p = m.pte[va]
  BY <1>1, <1>2
<1> QED BY <1>3

LEMMA HeldArePages ==
    ASSUME NEW m \in Space PROVE Held(m) \subseteq Page
<1>1. ASSUME NEW p \in Held(m) PROVE p \in Page
  <2>1. m.pgdir \in Page \cup {NULL} /\ m.pde \in [Pdxs -> Page \cup {NULL}]
        /\ m.pte \in [Va -> Page \cup {NULL}]
    BY DEF Space
  <2> QED BY <1>1, <2>1, HeldIs
<1> QED BY <1>1

LEMMA VaFacts ==
    /\ \A va \in Va : Pdx(va) \in Pdxs
    /\ \A p \in Page : p # NULL
BY PagesAssumption DEF Pdxs, Page, NULL

\* SetPte and SetPde, in terms of the slots.
LEMMA SetPteFacts ==
    ASSUME NEW s \in State, NEW va \in Va, NEW q \in Page \cup {NULL}, NEW t, t = SetPte(s, va, q)
    PROVE  /\ t \in State
           /\ t.free_list = s.free_list /\ t.PageProperty = s.PageProperty
           /\ t.nr_free = s.nr_free /\ t.ref = s.ref /\ t.page = s.page /\ t.res = s.res
           /\ t.args = s.args
           /\ t.mm.pgdir = s.mm.pgdir /\ t.mm.vmas = s.mm.vmas /\ t.mm.pde = s.mm.pde
           /\ t.mm.pte[va] = q /\ \A x \in Va : x # va => t.mm.pte[x] = s.mm.pte[x]
           /\ MmView(t.mm)[<<"user", va>>] = q
           /\ \A x \in MmSlot : x # <<"user", va>> => MmView(t.mm)[x] = MmView(s.mm)[x]
<1>1. PICK m \in Space : m = s.mm
  BY DEF State
<1>2. PICK f \in [Va -> Page \cup {NULL}] : f = [m.pte EXCEPT ![va] = q]
  BY DEF Space
<1>3. PICK n : n = [m EXCEPT !.pte = f]
  OBVIOUS
<1>4. t = [s EXCEPT !.mm = n]
  BY <1>1, <1>2, <1>3 DEF SetPte, State, Space
<1>5. n \in Space /\ n.pgdir = m.pgdir /\ n.vmas = m.vmas /\ n.pde = m.pde /\ n.pte = f
  BY <1>3 DEF Space
<1>6. /\ t \in State
      /\ t.free_list = s.free_list /\ t.PageProperty = s.PageProperty
      /\ t.nr_free = s.nr_free /\ t.ref = s.ref /\ t.page = s.page /\ t.res = s.res
      /\ t.args = s.args /\ t.mm = n
  BY <1>4, <1>5 DEF State
<1>7. f[va] = q /\ \A x \in Va : x # va => f[x] = m.pte[x]
  BY <1>2 DEF Space
<1>8. MmView(n)[<<"user", va>>] = q
  BY <1>5, <1>7, ViewFacts
<1>9. ASSUME NEW x \in MmSlot, x # <<"user", va>> PROVE MmView(n)[x] = MmView(m)[x]
  <2>1. CASE x = <<"pgdir", 0>>
    BY <1>5, <2>1, ViewFacts
  <2>2. CASE \E i \in Pdxs : x = <<"table", i>>
    <3>1. PICK i \in Pdxs : x = <<"table", i>>
      BY <2>2
    <3>2. n.pde[i] = m.pde[i]
      BY <1>5
    <3>3. MmView(n)[<<"table", i>>] = n.pde[i] /\ MmView(m)[<<"table", i>>] = m.pde[i]
      BY ViewFacts
    <3> QED BY <3>1, <3>2, <3>3
  <2>3. CASE \E w \in Va : x = <<"user", w>>
    <3>1. PICK w \in Va : x = <<"user", w>>
      BY <2>3
    <3>2. n.pte[w] = m.pte[w]
      BY <1>5, <1>7, <1>9, <3>1
    <3> QED BY <3>1, <3>2, ViewFacts
  <2> QED BY <2>1, <2>2, <2>3, ViewFacts
<1> QED BY <1>1, <1>5, <1>6, <1>7, <1>8, <1>9

LEMMA SetPdeFacts ==
    ASSUME NEW s \in State, NEW va \in Va, NEW q \in Page \cup {NULL}, NEW t, t = SetPde(s, va, q)
    PROVE  /\ t \in State
           /\ t.free_list = s.free_list /\ t.PageProperty = s.PageProperty
           /\ t.nr_free = s.nr_free /\ t.ref = s.ref /\ t.page = s.page /\ t.res = s.res
           /\ t.args = s.args
           /\ t.mm.pgdir = s.mm.pgdir /\ t.mm.vmas = s.mm.vmas /\ t.mm.pte = s.mm.pte
           /\ t.mm.pde[Pdx(va)] = q
           /\ \A i \in Pdxs : i # Pdx(va) => t.mm.pde[i] = s.mm.pde[i]
           /\ MmView(t.mm)[<<"table", Pdx(va)>>] = q
           /\ \A x \in MmSlot : x # <<"table", Pdx(va)>> => MmView(t.mm)[x] = MmView(s.mm)[x]
<1>1. PICK m \in Space : m = s.mm
  BY DEF State
<1>2. PICK h \in Pdxs : h = Pdx(va)
  BY VaFacts
<1>3. PICK f \in [Pdxs -> Page \cup {NULL}] : f = [m.pde EXCEPT ![h] = q]
  BY DEF Space
<1>4. PICK n : n = [m EXCEPT !.pde = f]
  OBVIOUS
<1>5. t = [s EXCEPT !.mm = n]
  BY <1>1, <1>2, <1>3, <1>4 DEF SetPde, State, Space
<1>6. n \in Space /\ n.pgdir = m.pgdir /\ n.vmas = m.vmas /\ n.pte = m.pte /\ n.pde = f
  BY <1>4 DEF Space
<1>7. /\ t \in State
      /\ t.free_list = s.free_list /\ t.PageProperty = s.PageProperty
      /\ t.nr_free = s.nr_free /\ t.ref = s.ref /\ t.page = s.page /\ t.res = s.res
      /\ t.args = s.args /\ t.mm = n
  BY <1>5, <1>6 DEF State
<1>8. f[h] = q /\ \A i \in Pdxs : i # h => f[i] = m.pde[i]
  BY <1>3 DEF Space
<1>9. MmView(n)[<<"table", h>>] = q
  BY <1>6, <1>8, ViewFacts
<1>10. ASSUME NEW x \in MmSlot, x # <<"table", h>> PROVE MmView(n)[x] = MmView(m)[x]
  <2>1. CASE x = <<"pgdir", 0>>
    BY <1>6, <2>1, ViewFacts
  <2>2. CASE \E i \in Pdxs : x = <<"table", i>>
    <3>1. PICK i \in Pdxs : x = <<"table", i>>
      BY <2>2
    <3>2. n.pde[i] = m.pde[i]
      BY <1>6, <1>8, <1>10, <3>1
    <3>3. MmView(n)[<<"table", i>>] = n.pde[i] /\ MmView(m)[<<"table", i>>] = m.pde[i]
      BY ViewFacts
    <3> QED BY <3>1, <3>2, <3>3
  <2>3. CASE \E w \in Va : x = <<"user", w>>
    <3>1. PICK w \in Va : x = <<"user", w>>
      BY <2>3
    <3>2. n.pte[w] = m.pte[w]
      BY <1>6
    <3>3. MmView(n)[<<"user", w>>] = n.pte[w] /\ MmView(m)[<<"user", w>>] = m.pte[w]
      BY ViewFacts
    <3> QED BY <3>1, <3>2, <3>3
  <2> QED BY <2>1, <2>2, <2>3, ViewFacts
<1> QED BY <1>1, <1>2, <1>6, <1>7, <1>8, <1>9, <1>10

LEMMA SetRefFacts ==
    ASSUME NEW s \in State, NEW p \in Page, NEW n \in Nat, NEW t, t = set_page_ref(s, p, n)
    PROVE  /\ t \in State
           /\ t.free_list = s.free_list /\ t.PageProperty = s.PageProperty
           /\ t.nr_free = s.nr_free /\ t.page = s.page /\ t.res = s.res
           /\ t.args = s.args /\ t.mm = s.mm
           /\ t.ref[p] = n /\ \A x \in Page : x # p => t.ref[x] = s.ref[x]
<1>1. PICK f \in [Page -> Nat] : f = [s.ref EXCEPT ![p] = n]
  BY DEF State
<1>2. t = [s EXCEPT !.ref = f]
  BY <1>1 DEF set_page_ref, State
<1>3. /\ t \in State
      /\ t.free_list = s.free_list /\ t.PageProperty = s.PageProperty
      /\ t.nr_free = s.nr_free /\ t.page = s.page /\ t.res = s.res
      /\ t.args = s.args /\ t.mm = s.mm /\ t.ref = f
  BY <1>2 DEF State
<1>4. f[p] = n /\ \A x \in Page : x # p => f[x] = s.ref[x]
  BY <1>1 DEF State
<1> QED BY <1>3, <1>4

\* The allocator's part of a state.
LEMMA SameList ==
    ASSUME NEW s, NEW t, t.free_list = s.free_list, t.PageProperty = s.PageProperty,
           t.nr_free = s.nr_free
    PROVE  FreePages(t) = FreePages(s) /\ (ListSound(s) => ListSound(t))
<1>1. FreePages(t) = FreePages(s)
  BY DEF FreePages
<1> QED BY <1>1 DEF ListSound

LEMMA SoundStopped ==
    ASSUME NEW s \in State, ~Ok(s), NEW R, NEW U, R \subseteq Page, U \subseteq R
    PROVE  Sound(s, R, U)
BY DEF Sound

\* t is s with a page allocated, which belongs to the caller, or the kernel has stopped.
Allocs(s, R, U, t) ==
    /\ t \in State /\ t.mm = s.mm /\ t.ref = s.ref /\ Same(s, t)
    /\ ~Ok(t) => Sound(t, R, U)
    /\ Ok(t) => /\ t.page \in Page /\ t.page \notin R /\ t.page \notin Held(s.mm)
                /\ t.page \notin U /\ t.ref[t.page] = 0
                /\ Sound(t, R \cup {t.page}, U)

LEMMA AllocSound ==
    ASSUME NEW s, NEW R, NEW U, Sound(s, R, U), NEW t, t = alloc_page(s)
    PROVE  Allocs(s, R, U, t)
<1>1. s \in State /\ (Ok(s) => ListSound(s)) /\ R \subseteq Page /\ U \subseteq R
  BY DEF Sound
<1>2. /\ t \in State
      /\ t.mm = s.mm /\ t.ref = s.ref /\ t.args = s.args
      /\ t.res \in {s.res, "swap_out(NULL)"}
      /\ Ok(t) => Ok(s) /\ \E b \in Page : Takes(s, t, b, 1)
  BY <1>1, AllocPage
<1>3. ~Ok(t) => Sound(t, R, U)
  BY <1>1, <1>2, SoundStopped
<1>4. ASSUME Ok(t)
      PROVE  /\ t.page \in Page /\ t.page \notin R /\ t.page \notin Held(s.mm)
             /\ t.page \notin U /\ t.ref[t.page] = 0
             /\ Sound(t, R \cup {t.page}, U)
  <2>1. PICK b \in Page : Takes(s, t, b, 1)
    BY <1>2, <1>4
  <2>2. b .. b + 1 - 1 = {b}
    BY PagesAssumption DEF Page
  <2>3. /\ ListSound(t) /\ b \in FreePages(s) /\ FreePages(t) = FreePages(s) \ {b} /\ t.page = b
    BY <2>1, <2>2 DEF Takes
  <2>4. /\ FreePages(s) = Page \ (R \cup Held(s.mm)) /\ R \cap Held(s.mm) = {}
        /\ Apart(MmView(s.mm)) /\ \A p \in FreePages(s) : s.ref[p] = 0
        /\ \A p \in U : s.ref[p] = 1
        /\ MmOk(s.mm, s.ref)
    BY <1>2, <1>4 DEF Sound
  <2>5. b \notin R /\ b \notin Held(s.mm) /\ s.ref[b] = 0
    BY <2>3, <2>4
  <2>6. /\ FreePages(t) = Page \ (R \cup {b} \cup Held(t.mm))
        /\ (R \cup {b}) \cap Held(t.mm) = {}
    BY <1>2, <2>3, <2>4, <2>5
  <2> QED BY <1>1, <1>2, <2>3, <2>4, <2>5, <2>6 DEF Sound
<1> QED BY <1>2, <1>3, <1>4 DEF Same, Allocs

\* A page that the caller frees is nobody's then.
LEMMA FreeSound ==
    ASSUME NEW s, NEW R, NEW U, NEW p \in Page, p \notin R, U \subseteq R,
           Sound(s, R \cup {p}, U), NEW t, t = free_page(s, p)
    PROVE  Sound(t, R, U) /\ t.mm = s.mm /\ t.args = s.args /\ t.res = s.res
<1>1. s \in State /\ R \subseteq Page
  BY DEF Sound
<1>2. CASE ~Ok(s)
  <2>1. t = s
    BY <1>2 DEF Ok, free_page, default_free_pages
  <2> QED BY <1>1, <1>2, <2>1, SoundStopped
<1>3. CASE Ok(s)
  <2>1. /\ ListSound(s) /\ FreePages(s) = Page \ (R \cup {p} \cup Held(s.mm))
        /\ (R \cup {p}) \cap Held(s.mm) = {}
        /\ Apart(MmView(s.mm)) /\ \A q \in FreePages(s) : s.ref[q] = 0
        /\ \A q \in U : s.ref[q] = 1
        /\ MmOk(s.mm, s.ref)
    BY <1>3 DEF Sound
  <2>2. p .. p + 1 - 1 = {p} /\ p + 1 - 1 = p
    BY PagesAssumption DEF Page
  <2>3. Gives(s, t, p, 1)
    <3>1. /\ s.res = "ok" /\ 1 \in Nat \ {0} /\ p + 1 - 1 \in Page
          /\ FreePages(s) \cap (p .. p + 1 - 1) = {} /\ t = default_free_pages(s, p, 1)
      BY <1>3, <2>1, <2>2 DEF Ok, free_page
    <3> QED BY <1>1, <2>1, <3>1, GiveKeeps
  <2>4. /\ t \in State /\ ListSound(t) /\ FreePages(t) = FreePages(s) \cup {p}
        /\ t.ref = [q \in Page |-> IF q \in {p} THEN 0 ELSE s.ref[q]]
        /\ t.res = s.res /\ t.mm = s.mm /\ t.args = s.args
    BY <2>2, <2>3 DEF Gives
  <2>5. t.ref[p] = 0 /\ \A q \in Page : q # p => t.ref[q] = s.ref[q]
    BY <2>4
  <2>6. p \notin Held(s.mm) /\ p \notin U
    BY <2>1
  <2>7. FreePages(t) = Page \ (R \cup Held(t.mm)) /\ R \cap Held(t.mm) = {}
    BY <2>1, <2>4, <2>6
  <2>8. \A q \in FreePages(t) : t.ref[q] = 0
    <3>1. FreePages(s) \subseteq Page
      BY <2>1
    <3> QED BY <2>1, <2>4, <2>5, <3>1
  <2>9. \A q \in U : t.ref[q] = 1
    BY <1>1, <2>1, <2>5, <2>6
  <2>10. MmOk(t.mm, t.ref)
    <3>1. ASSUME NEW va \in Va, s.mm.pte[va] # NULL
          PROVE  t.ref[s.mm.pte[va]] = s.ref[s.mm.pte[va]]
      <4>1. s.mm.pte[va] \in Held(s.mm) /\ s.mm.pte[va] \in Page
        BY <1>1, <3>1, HeldIs, HeldArePages DEF State
      <4> QED BY <2>5, <2>6, <4>1
    <3> QED BY <2>1, <2>4, <3>1 DEF MmOk
  <2> QED BY <1>1, <2>1, <2>4, <2>7, <2>8, <2>9, <2>10 DEF Sound
<1> QED BY <1>2, <1>3

\* get_pte makes a table for an address that is mapped.
LEMMA GetPteSound ==
    ASSUME NEW s, NEW R, NEW U, Sound(s, R, U), NEW va \in Va,
           Ok(s) => Mapped(s.mm, va) /\ s.mm.pgdir # NULL, NEW t, t = get_pte(s, va)
    PROVE  /\ Sound(t, R, U) /\ SameMm(s, t) /\ t.mm.pte = s.mm.pte
           /\ Ok(t) => t.mm.pde[Pdx(va)] # NULL
           /\ \A p \in R : t.ref[p] = s.ref[p]
<1>1. PICK u : u = alloc_page(s)
  OBVIOUS
<1>2. t = IF s.mm.pde[Pdx(va)] # NULL \/ ~Ok(s) THEN s
          ELSE IF ~Ok(u) THEN u
          ELSE SetPde(set_page_ref(u, u.page, 1), va, u.page)
  BY <1>1 DEF get_pte
<1>3. s \in State /\ R \subseteq Page /\ U \subseteq R
  BY DEF Sound
<1>4. /\ u \in State /\ u.mm = s.mm /\ u.ref = s.ref /\ Same(s, u)
      /\ ~Ok(u) => Sound(u, R, U)
      /\ Ok(u) => /\ u.page \in Page /\ u.page \notin R /\ u.page \notin Held(s.mm)
                  /\ u.page \notin U /\ u.ref[u.page] = 0
                  /\ Sound(u, R \cup {u.page}, U)
  <2>1. Allocs(s, R, U, u)
    BY <1>1, AllocSound
  <2> QED BY <2>1 DEF Allocs
<1>5. CASE s.mm.pde[Pdx(va)] # NULL \/ ~Ok(s)
  BY <1>2, <1>5 DEF Same, SameMm
<1>6. CASE ~(s.mm.pde[Pdx(va)] # NULL \/ ~Ok(s)) /\ ~Ok(u)
  BY <1>2, <1>4, <1>6 DEF Same, SameMm
<1>7. CASE ~(s.mm.pde[Pdx(va)] # NULL \/ ~Ok(s)) /\ Ok(u)
  <2>1. PICK b, v : b = u.page /\ v = set_page_ref(u, u.page, 1)
    OBVIOUS
  <2>2. t = SetPde(v, va, b)
    BY <1>2, <1>7, <2>1
  <2>3. b \in Page /\ b \notin R /\ b \notin Held(s.mm) /\ Sound(u, R \cup {b}, U)
    BY <1>4, <1>7, <2>1
  <2>4. /\ v \in State
        /\ v.free_list = u.free_list /\ v.PageProperty = u.PageProperty
        /\ v.nr_free = u.nr_free /\ v.page = u.page /\ v.res = u.res
        /\ v.args = u.args /\ v.mm = u.mm
        /\ v.ref[b] = 1 /\ \A x \in Page : x # b => v.ref[x] = u.ref[x]
    BY <1>4, <2>1, <2>3, SetRefFacts
  <2>5. /\ t \in State
        /\ t.free_list = v.free_list /\ t.PageProperty = v.PageProperty
        /\ t.nr_free = v.nr_free /\ t.ref = v.ref /\ t.res = v.res
        /\ t.args = v.args
        /\ t.mm.pgdir = v.mm.pgdir /\ t.mm.vmas = v.mm.vmas /\ t.mm.pte = v.mm.pte
        /\ t.mm.pde[Pdx(va)] = b
        /\ \A i \in Pdxs : i # Pdx(va) => t.mm.pde[i] = v.mm.pde[i]
        /\ MmView(t.mm)[<<"table", Pdx(va)>>] = b
        /\ \A x \in MmSlot : x # <<"table", Pdx(va)>> => MmView(t.mm)[x] = MmView(v.mm)[x]
    BY <2>2, <2>3, <2>4, SetPdeFacts
  <2>6. FreePages(t) = FreePages(u) /\ (ListSound(u) => ListSound(t))
    BY <2>4, <2>5, SameList
  <2>7. /\ ListSound(u) /\ FreePages(u) = Page \ (R \cup {b} \cup Held(s.mm))
        /\ (R \cup {b}) \cap Held(s.mm) = {}
        /\ Apart(MmView(s.mm)) /\ \A q \in FreePages(u) : u.ref[q] = 0
        /\ \A q \in U : u.ref[q] = 1
        /\ MmOk(s.mm, u.ref)
    BY <1>4, <1>7, <2>3 DEF Sound
  <2>8. Apart(MmView(t.mm)) /\ Held(t.mm) = Held(s.mm) \cup {b}
    <3>1. PICK x : x = <<"table", Pdx(va)>>
      OBVIOUS
    <3>2. x \in MmSlot /\ MmView(s.mm)[x] = NULL
      BY <1>7, <3>1, VaFacts, ViewFacts
    <3>3. PICK V, W : V = MmView(s.mm) /\ W = MmView(t.mm)
      OBVIOUS
    <3>4. /\ DOMAIN V = MmSlot /\ DOMAIN W = MmSlot /\ Apart(V) /\ V[x] = NULL /\ W[x] = b
          /\ \A y \in MmSlot : y # x => W[y] = V[y]
      BY <1>4, <2>4, <2>5, <2>7, <3>1, <3>2, <3>3, ViewFacts
    <3>5. b # NULL /\ b \notin Pages(V)
      BY <2>3, <3>3, VaFacts DEF Held
    <3>6. Apart(W) /\ Pages(W) = Pages(V) \cup {W[x]}
      BY ONLY <3>2, <3>4, <3>5, ChangeSlot
    <3> QED BY <3>3, <3>4, <3>6 DEF Held
  <2>9. FreePages(t) = Page \ (R \cup Held(t.mm)) /\ R \cap Held(t.mm) = {}
    BY <2>3, <2>6, <2>7, <2>8
  <2>10. \A q \in R : t.ref[q] = s.ref[q]
    BY <1>3, <1>4, <2>3, <2>4, <2>5
  <2>11. \A q \in U : t.ref[q] = 1
    BY <1>3, <1>4, <2>7, <2>10
  <2>12. \A q \in FreePages(t) : t.ref[q] = 0
    BY <2>3, <2>4, <2>5, <2>6, <2>7
  <2>13. MmOk(t.mm, t.ref)
    <3>1. ASSUME NEW w \in Va, t.mm.pte[w] # NULL
          PROVE  t.mm.pde[Pdx(w)] # NULL /\ t.ref[t.mm.pte[w]] = 1 /\ Mapped(t.mm, w)
      <4>1. t.mm.pte[w] = s.mm.pte[w]
        BY <1>4, <2>4, <2>5
      <4>2. s.mm.pde[Pdx(w)] # NULL /\ u.ref[s.mm.pte[w]] = 1 /\ Mapped(s.mm, w)
        BY <2>7, <3>1, <4>1 DEF MmOk
      <4>3. s.mm.pte[w] \in Held(s.mm) /\ s.mm.pte[w] \in Page
        BY <1>3, <3>1, <4>1, HeldIs, HeldArePages DEF State
      <4>4. t.ref[t.mm.pte[w]] = 1
        BY <2>3, <2>4, <2>5, <4>1, <4>2, <4>3
      <4>5. t.mm.pde[Pdx(w)] # NULL
        BY <1>4, <2>3, <2>4, <2>5, <4>2, VaFacts
      <4>6. t.mm.vmas = s.mm.vmas
        BY <1>4, <2>4, <2>5
      <4> QED BY <4>2, <4>4, <4>5, <4>6 DEF Mapped
    <3>2. ASSUME NEW i \in Pdxs, t.mm.pde[i] # NULL
          PROVE  \E w \in Va : Pdx(w) = i /\ Mapped(t.mm, w)
      <4>1. t.mm.vmas = s.mm.vmas
        BY <1>4, <2>4, <2>5
      <4>2. CASE i = Pdx(va)
        BY <1>7, <4>1, <4>2 DEF Mapped
      <4>3. CASE i # Pdx(va)
        <5>1. s.mm.pde[i] # NULL
          BY <1>4, <2>4, <2>5, <3>2, <4>3
        <5>2. \E w \in Va : Pdx(w) = i /\ Mapped(s.mm, w)
          BY <2>7, <5>1 DEF MmOk
        <5> QED BY <4>1, <5>2 DEF Mapped
      <4> QED BY <4>2, <4>3
    <3>3. t.mm.pgdir # NULL
      BY <1>4, <1>7, <2>4, <2>5
    <3> QED BY <3>1, <3>2, <3>3 DEF MmOk
  <2>14. Sound(t, R, U)
    BY <1>3, <2>5, <2>6, <2>7, <2>8, <2>9, <2>11, <2>12, <2>13 DEF Sound
  <2>15. SameMm(s, t)
    BY <1>4, <2>4, <2>5 DEF SameMm, Same, Ok
  <2>16. t.mm.pte = s.mm.pte /\ t.mm.pde[Pdx(va)] # NULL
    BY <1>4, <2>3, <2>4, <2>5, VaFacts
  <2> QED BY <2>10, <2>14, <2>15, <2>16
<1> QED BY <1>5, <1>6, <1>7

\* page_remove_pte: the page of an address is free then.
LEMMA RemoveSound ==
    ASSUME NEW s, NEW R, NEW U, Sound(s, R, U), NEW va \in Va, NEW t, t = page_remove_pte(s, va)
    PROVE  /\ Sound(t, R, U) /\ SameMm(s, t) /\ t.res = s.res /\ t.mm.pde = s.mm.pde
           /\ Ok(t) \/ s.mm.pte[va] = NULL => t.mm.pte[va] = NULL
           /\ \A x \in Va : x # va => t.mm.pte[x] = s.mm.pte[x]
           /\ \A p \in R : t.ref[p] = s.ref[p]
<1>1. s \in State /\ R \subseteq Page /\ U \subseteq R
  BY DEF Sound
<1>2. PICK b : b = s.mm.pte[va]
  OBVIOUS
<1>3. CASE b = NULL \/ ~Ok(s)
  <2>1. t = s
    BY <1>2, <1>3 DEF page_remove_pte
  <2> QED BY <1>2, <1>3, <2>1 DEF SameMm, Same
<1>4. CASE b # NULL /\ Ok(s)
  <2>1. /\ ListSound(s) /\ FreePages(s) = Page \ (R \cup Held(s.mm))
        /\ R \cap Held(s.mm) = {}
        /\ Apart(MmView(s.mm)) /\ \A q \in FreePages(s) : s.ref[q] = 0
        /\ \A q \in U : s.ref[q] = 1
        /\ MmOk(s.mm, s.ref)
    BY <1>4 DEF Sound
  <2>2. b \in Held(s.mm) /\ b \in Page /\ s.ref[b] = 1 /\ b \notin R /\ b \notin FreePages(s)
    BY <1>1, <1>2, <1>4, <2>1, HeldIs, HeldArePages DEF State, MmOk
  <2>3. PICK u : u = set_page_ref(s, b, s.ref[b] - 1)
    OBVIOUS
  <2>4. /\ u \in State
        /\ u.free_list = s.free_list /\ u.PageProperty = s.PageProperty
        /\ u.nr_free = s.nr_free /\ u.page = s.page /\ u.res = s.res
        /\ u.args = s.args /\ u.mm = s.mm
        /\ u.ref[b] = 0 /\ \A x \in Page : x # b => u.ref[x] = s.ref[x]
    <3>1. s.ref[b] - 1 = 0 /\ 0 \in Nat
      BY <2>2
    <3> QED BY <1>1, <2>2, <2>3, <3>1, SetRefFacts
  <2>5. PICK v : v = free_page(u, b)
    OBVIOUS
  <2>6. t = SetPte(v, va, NULL)
    BY <1>2, <1>4, <2>3, <2>4, <2>5 DEF page_remove_pte
  <2>7. FreePages(u) = FreePages(s) /\ ListSound(u)
    BY <2>1, <2>4, SameList
  <2>8. b .. b + 1 - 1 = {b} /\ b + 1 - 1 = b
    BY <2>2, PagesAssumption DEF Page
  <2>9. Gives(u, v, b, 1)
    <3>1. /\ u.res = "ok" /\ 1 \in Nat \ {0} /\ b + 1 - 1 \in Page
          /\ FreePages(u) \cap (b .. b + 1 - 1) = {} /\ v = default_free_pages(u, b, 1)
      BY <1>4, <2>2, <2>4, <2>5, <2>7, <2>8 DEF Ok, free_page
    <3> QED BY <2>2, <2>4, <2>7, <3>1, GiveKeeps
  <2>10. /\ v \in State /\ ListSound(v) /\ FreePages(v) = FreePages(s) \cup {b}
         /\ v.ref = [q \in Page |-> IF q \in {b} THEN 0 ELSE u.ref[q]]
         /\ v.page = u.page /\ v.res = u.res /\ v.mm = u.mm /\ v.args = u.args
    BY <2>7, <2>8, <2>9 DEF Gives
  <2>11. v.ref[b] = 0 /\ \A q \in Page : q # b => v.ref[q] = s.ref[q]
    BY <2>2, <2>4, <2>10
  <2>12. /\ t \in State
         /\ t.free_list = v.free_list /\ t.PageProperty = v.PageProperty
         /\ t.nr_free = v.nr_free /\ t.ref = v.ref /\ t.res = v.res
         /\ t.args = v.args
         /\ t.mm.pgdir = v.mm.pgdir /\ t.mm.vmas = v.mm.vmas /\ t.mm.pde = v.mm.pde
         /\ t.mm.pte[va] = NULL /\ \A x \in Va : x # va => t.mm.pte[x] = v.mm.pte[x]
         /\ MmView(t.mm)[<<"user", va>>] = NULL
         /\ \A x \in MmSlot : x # <<"user", va>> => MmView(t.mm)[x] = MmView(v.mm)[x]
    BY <2>6, <2>10, SetPteFacts
  <2>13. FreePages(t) = FreePages(s) \cup {b} /\ ListSound(t)
    BY <2>10, <2>12, SameList
  <2>14. Apart(MmView(t.mm)) /\ Held(t.mm) = Held(s.mm) \ {b}
    <3>1. PICK x : x = <<"user", va>>
      OBVIOUS
    <3>2. x \in MmSlot /\ MmView(s.mm)[x] = b
      BY <1>2, <3>1, ViewFacts
    <3>3. PICK V, W : V = MmView(s.mm) /\ W = MmView(t.mm)
      OBVIOUS
    <3>4. /\ DOMAIN V = MmSlot /\ DOMAIN W = MmSlot /\ Apart(V) /\ W[x] = NULL
          /\ \A y \in MmSlot : y # x => W[y] = V[y]
      BY <2>1, <2>4, <2>10, <2>12, <3>1, <3>3, ViewFacts
    <3>5. Apart(W) /\ Pages(W) = Pages(V) \ {V[x]}
      BY ONLY <3>2, <3>4, ChangeSlot
    <3> QED BY <3>2, <3>3, <3>5 DEF Held
  <2>15. FreePages(t) = Page \ (R \cup Held(t.mm)) /\ R \cap Held(t.mm) = {}
    BY <2>1, <2>2, <2>13, <2>14
  <2>16. \A q \in R : t.ref[q] = s.ref[q]
    BY <1>1, <2>2, <2>11, <2>12
  <2>17. (\A q \in U : t.ref[q] = 1) /\ \A q \in FreePages(t) : t.ref[q] = 0
    BY <1>1, <2>1, <2>11, <2>12, <2>13, <2>16
  <2>18. MmOk(t.mm, t.ref)
    <3>1. ASSUME NEW w \in Va, t.mm.pte[w] # NULL
          PROVE  t.mm.pde[Pdx(w)] # NULL /\ t.ref[t.mm.pte[w]] = 1 /\ Mapped(t.mm, w)
      <4>1. w # va /\ t.mm.pte[w] = s.mm.pte[w]
        BY <2>4, <2>10, <2>12, <3>1
      <4>2. s.mm.pde[Pdx(w)] # NULL /\ s.ref[s.mm.pte[w]] = 1 /\ Mapped(s.mm, w)
        BY <2>1, <3>1, <4>1 DEF MmOk
      <4>3. s.mm.pte[w] \in Page
        BY <1>1, <3>1, <4>1, HeldIs, HeldArePages DEF State
      <4>4. s.mm.pte[w] # b
        <5>1. /\ <<"user", w>> \in DOMAIN MmView(s.mm) /\ <<"user", va>> \in DOMAIN MmView(s.mm)
              /\ MmView(s.mm)[<<"user", w>>] = s.mm.pte[w] /\ MmView(s.mm)[<<"user", va>>] = b
              /\ <<"user", w>> # <<"user", va>>
          BY <1>2, <4>1, ViewFacts
        <5> QED BY <1>4, <2>1, <5>1 DEF Apart
      <4>5. t.ref[t.mm.pte[w]] = 1
        BY <2>11, <2>12, <4>1, <4>2, <4>3, <4>4
      <4>6. t.mm.vmas = s.mm.vmas /\ t.mm.pde = s.mm.pde
        BY <2>4, <2>10, <2>12
      <4> QED BY <4>2, <4>5, <4>6 DEF Mapped
    <3>2. ASSUME NEW i \in Pdxs, t.mm.pde[i] # NULL
          PROVE  \E w \in Va : Pdx(w) = i /\ Mapped(t.mm, w)
      <4>1. t.mm.vmas = s.mm.vmas /\ t.mm.pde = s.mm.pde
        BY <2>4, <2>10, <2>12
      <4>2. \E w \in Va : Pdx(w) = i /\ Mapped(s.mm, w)
        BY <2>1, <3>2, <4>1 DEF MmOk
      <4> QED BY <4>1, <4>2 DEF Mapped
    <3>3. t.mm.pgdir # NULL
      <4>1. s.mm # NoMM
        BY <1>2, <1>4 DEF NoMM, NewMM
      <4>2. s.mm.pgdir # NULL
        BY <2>1, <4>1 DEF MmOk
      <4> QED BY <2>4, <2>10, <2>12, <4>2
    <3> QED BY <3>1, <3>2, <3>3 DEF MmOk
  <2>19. Sound(t, R, U)
    BY <1>1, <2>12, <2>13, <2>14, <2>15, <2>17, <2>18 DEF Sound
  <2>20. SameMm(s, t) /\ t.res = s.res /\ t.mm.pde = s.mm.pde
    BY <2>4, <2>10, <2>12 DEF SameMm, Same, Ok
  <2>21. \A x \in Va : x # va => t.mm.pte[x] = s.mm.pte[x]
    BY <2>4, <2>10, <2>12
  <2> QED BY <2>12, <2>16, <2>19, <2>20, <2>21
<1> QED BY <1>3, <1>4

\* A page that the caller has is about to be mapped.
LEMMA RefSound ==
    ASSUME NEW s, NEW R, NEW U, Sound(s, R, U), NEW p \in R, NEW t, t = set_page_ref(s, p, 1)
    PROVE  /\ Sound(t, R, U \cup {p}) /\ t.mm = s.mm /\ t.res = s.res /\ t.args = s.args
           /\ t.ref[p] = 1
<1>1. s \in State /\ R \subseteq Page /\ U \subseteq R /\ p \in Page
  BY DEF Sound
<1>2. /\ t \in State
      /\ t.free_list = s.free_list /\ t.PageProperty = s.PageProperty
      /\ t.nr_free = s.nr_free /\ t.page = s.page /\ t.res = s.res
      /\ t.args = s.args /\ t.mm = s.mm
      /\ t.ref[p] = 1 /\ \A x \in Page : x # p => t.ref[x] = s.ref[x]
  BY <1>1, SetRefFacts
<1>3. CASE ~Ok(s)
  <2>1. ~Ok(t)
    BY <1>2, <1>3 DEF Ok
  <2> QED BY <1>1, <1>2, <2>1, SoundStopped
<1>4. CASE Ok(s)
  <2>1. /\ ListSound(s) /\ FreePages(s) = Page \ (R \cup Held(s.mm))
        /\ R \cap Held(s.mm) = {}
        /\ Apart(MmView(s.mm)) /\ \A q \in FreePages(s) : s.ref[q] = 0
        /\ \A q \in U : s.ref[q] = 1
        /\ MmOk(s.mm, s.ref)
    BY <1>4 DEF Sound
  <2>2. FreePages(t) = FreePages(s) /\ ListSound(t)
    BY <1>2, <2>1, SameList
  <2>3. \A q \in FreePages(t) : t.ref[q] = 0
    BY <1>2, <2>1, <2>2
  <2>4. \A q \in U \cup {p} : t.ref[q] = 1
    BY <1>1, <1>2, <2>1
  <2>5. MmOk(t.mm, t.ref)
    <3>1. ASSUME NEW va \in Va, s.mm.pte[va] # NULL
          PROVE  t.ref[s.mm.pte[va]] = s.ref[s.mm.pte[va]]
      <4>1. s.mm.pte[va] \in Held(s.mm) /\ s.mm.pte[va] \in Page
        BY <1>1, <3>1, HeldIs, HeldArePages DEF State
      <4> QED BY <1>2, <2>1, <4>1
    <3> QED BY <1>2, <2>1, <3>1 DEF MmOk
  <2> QED BY <1>1, <1>2, <2>1, <2>2, <2>3, <2>4, <2>5 DEF Sound
<1> QED BY <1>3, <1>4

\* page_insert of a page that is the caller's.
LEMMA InsertSound ==
    ASSUME NEW s, NEW R, NEW U, NEW page \in Page, page \notin R, U \subseteq R,
           Sound(s, R \cup {page}, U), NEW va \in Va,
           Ok(s) => Mapped(s.mm, va) /\ s.mm.pgdir # NULL,
           NEW w, w = page_insert(s, page, va), s.ref[page] = 0
    PROVE  Sound(w, R, U) /\ SameMm(s, w)
<1>1. PICK t : t = get_pte(s, va)
  OBVIOUS
<1>2. PICK Q : Q = R \cup {page}
  OBVIOUS
<1>3. /\ Sound(t, Q, U) /\ SameMm(s, t) /\ t.mm.pte = s.mm.pte
      /\ Ok(t) => t.mm.pde[Pdx(va)] # NULL
      /\ \A p \in Q : t.ref[p] = s.ref[p]
  BY <1>1, <1>2, GetPteSound
<1>4. t \in State /\ Q \subseteq Page /\ R \subseteq Page
  BY <1>2, <1>3 DEF Sound
<1>5. CASE ~Ok(t)
  <2>1. w = t
    BY <1>1, <1>5 DEF page_insert
  <2> QED BY <1>3, <1>4, <1>5, <2>1, SoundStopped
<1>6. CASE Ok(t)
  <2>1. PICK u : u = set_page_ref(t, page, 1)
    OBVIOUS
  <2>2. t.ref[page] + 1 = 1
    BY <1>2, <1>3
  <2>3. PICK v : v = IF t.mm.pte[va] = page THEN t ELSE page_remove_pte(u, va)
    OBVIOUS
  <2>4. w = SetPte(v, va, page)
    BY <1>1, <1>6, <2>1, <2>2, <2>3 DEF page_insert
  <2>5. PICK T : T = U \cup {page}
    OBVIOUS
  <2>6. Sound(u, Q, T) /\ u.mm = t.mm /\ u.res = t.res /\ u.args = t.args /\ u.ref[page] = 1
    BY <1>2, <1>3, <2>1, <2>5, RefSound
  <2>7. /\ Sound(v, Q, T) /\ SameMm(u, v) /\ v.res = u.res /\ v.mm.pde = u.mm.pde
        /\ v.mm.pte[va] = NULL
    <3>1. u.mm.pte[va] # page
      <4>1. CASE u.mm.pte[va] = NULL
        BY <4>1, VaFacts
      <4>2. CASE u.mm.pte[va] # NULL
        <5>1. u.mm.pte[va] \in Held(u.mm)
          BY <4>2, HeldIs
        <5>2. page \notin Held(u.mm)
          BY <1>2, <1>6, <2>6 DEF Sound, Ok
        <5> QED BY <5>1, <5>2
      <4> QED BY <4>1, <4>2
    <3>2. v = page_remove_pte(u, va)
      BY <2>3, <2>6, <3>1
    <3>3. /\ Sound(v, Q, T) /\ SameMm(u, v) /\ v.res = u.res /\ v.mm.pde = u.mm.pde
          /\ Ok(v) => v.mm.pte[va] = NULL
      BY ONLY <2>6, va \in Va, <3>2, RemoveSound
    <3> QED BY <1>6, <2>6, <3>3 DEF Ok
  <2>8. Ok(v)
    BY <1>6, <2>6, <2>7 DEF Ok
  <2>9. /\ v \in State /\ ListSound(v) /\ FreePages(v) = Page \ (Q \cup Held(v.mm))
        /\ Q \cap Held(v.mm) = {}
        /\ Apart(MmView(v.mm)) /\ \A q \in FreePages(v) : v.ref[q] = 0
        /\ \A q \in T : v.ref[q] = 1
        /\ MmOk(v.mm, v.ref)
    BY <2>7, <2>8 DEF Sound
  <2>10. /\ w \in State
         /\ w.free_list = v.free_list /\ w.PageProperty = v.PageProperty
         /\ w.nr_free = v.nr_free /\ w.ref = v.ref /\ w.res = v.res
         /\ w.args = v.args
         /\ w.mm.pgdir = v.mm.pgdir /\ w.mm.vmas = v.mm.vmas /\ w.mm.pde = v.mm.pde
         /\ w.mm.pte[va] = page /\ \A x \in Va : x # va => w.mm.pte[x] = v.mm.pte[x]
         /\ MmView(w.mm)[<<"user", va>>] = page
         /\ \A x \in MmSlot : x # <<"user", va>> => MmView(w.mm)[x] = MmView(v.mm)[x]
    BY <2>4, <2>9, SetPteFacts
  <2>11. FreePages(w) = FreePages(v) /\ ListSound(w)
    BY <2>9, <2>10, SameList
  <2>12. Apart(MmView(w.mm)) /\ Held(w.mm) = Held(v.mm) \cup {page}
    <3>1. PICK x : x = <<"user", va>>
      OBVIOUS
    <3>2. x \in MmSlot /\ MmView(v.mm)[x] = NULL
      BY <2>7, <3>1, ViewFacts
    <3>3. PICK V, W : V = MmView(v.mm) /\ W = MmView(w.mm)
      OBVIOUS
    <3>4. /\ DOMAIN V = MmSlot /\ DOMAIN W = MmSlot /\ Apart(V) /\ V[x] = NULL /\ W[x] = page
          /\ \A y \in MmSlot : y # x => W[y] = V[y]
      BY <2>9, <2>10, <3>1, <3>2, <3>3, ViewFacts
    <3>5. page # NULL /\ page \notin Pages(V)
      BY <1>2, <2>9, <3>3, VaFacts DEF Held
    <3>6. Apart(W) /\ Pages(W) = Pages(V) \cup {W[x]}
      BY ONLY <3>2, <3>4, <3>5, ChangeSlot
    <3> QED BY <3>3, <3>4, <3>6 DEF Held
  <2>13. FreePages(w) = Page \ (R \cup Held(w.mm)) /\ R \cap Held(w.mm) = {}
    BY <1>2, <2>9, <2>11, <2>12
  <2>14. (\A q \in U : w.ref[q] = 1) /\ \A q \in FreePages(w) : w.ref[q] = 0
    BY <2>5, <2>9, <2>10, <2>11
  <2>15. SameMm(s, w)
    BY <1>3, <2>6, <2>7, <2>10 DEF SameMm, Same, Ok
  <2>16. MmOk(w.mm, w.ref)
    <3>1. ASSUME NEW x \in Va, w.mm.pte[x] # NULL
          PROVE  w.mm.pde[Pdx(x)] # NULL /\ w.ref[w.mm.pte[x]] = 1 /\ Mapped(w.mm, x)
      <4>1. CASE x = va
        <5>1. w.mm.pte[x] = page /\ w.ref[page] = 1
          BY <2>5, <2>9, <2>10, <4>1
        <5>2. w.mm.pde[Pdx(x)] # NULL
          BY <1>3, <1>6, <2>6, <2>7, <2>10, <4>1
        <5>3. Mapped(s.mm, va) /\ w.mm.vmas = s.mm.vmas
          BY <1>3, <1>6, <2>15 DEF SameMm, Same
        <5> QED BY <4>1, <5>1, <5>2, <5>3 DEF Mapped
      <4>2. CASE x # va
        <5>1. w.mm.pte[x] = v.mm.pte[x] /\ w.mm.pde = v.mm.pde /\ w.ref = v.ref
          BY <2>10, <4>2
        <5>2. v.mm.pde[Pdx(x)] # NULL /\ v.ref[v.mm.pte[x]] = 1 /\ Mapped(v.mm, x)
          BY <2>9, <3>1, <5>1 DEF MmOk
        <5>3. w.mm.vmas = v.mm.vmas
          BY <2>10
        <5> QED BY <5>1, <5>2, <5>3 DEF Mapped
      <4> QED BY <4>1, <4>2
    <3>2. ASSUME NEW i \in Pdxs, w.mm.pde[i] # NULL
          PROVE  \E x \in Va : Pdx(x) = i /\ Mapped(w.mm, x)
      <4>1. w.mm.vmas = v.mm.vmas /\ w.mm.pde = v.mm.pde
        BY <2>10
      <4>2. \E x \in Va : Pdx(x) = i /\ Mapped(v.mm, x)
        BY <2>9, <3>2, <4>1 DEF MmOk
      <4> QED BY <4>1, <4>2 DEF Mapped
    <3>3. w.mm.pgdir # NULL
      BY <1>3, <1>6, <2>15 DEF SameMm, Same
    <3> QED BY <3>1, <3>2, <3>3 DEF MmOk
  <2> QED BY <1>4, <2>9, <2>10, <2>11, <2>12, <2>13, <2>14, <2>15, <2>16 DEF Sound
<1> QED BY <1>5, <1>6

\* pgdir_alloc_page of an address that is mapped.
LEMMA PgdirAllocSound ==
    ASSUME NEW s, NEW R, NEW U, Sound(s, R, U), NEW va \in Va,
           Ok(s) => Mapped(s.mm, va) /\ s.mm.pgdir # NULL,
           NEW t, t = pgdir_alloc_page(s, va)
    PROVE  Sound(t, R, U) /\ SameMm(s, t)
<1>1. PICK u : u = alloc_page(s)
  OBVIOUS
<1>2. /\ u \in State /\ u.mm = s.mm /\ u.ref = s.ref /\ Same(s, u)
      /\ ~Ok(u) => Sound(u, R, U)
      /\ Ok(u) => /\ u.page \in Page /\ u.page \notin R /\ u.page \notin Held(s.mm)
                  /\ u.page \notin U /\ u.ref[u.page] = 0
                  /\ Sound(u, R \cup {u.page}, U)
  <2>1. Allocs(s, R, U, u)
    BY <1>1, AllocSound
  <2> QED BY <2>1 DEF Allocs
<1>3. t = IF Ok(u) THEN page_insert(u, u.page, va) ELSE u
  BY <1>1 DEF pgdir_alloc_page
<1>4. CASE ~Ok(u)
  BY <1>2, <1>3, <1>4 DEF SameMm
<1>5. CASE Ok(u)
  <2>1. PICK b : b = u.page
    OBVIOUS
  <2>2. /\ b \in Page /\ b \notin R /\ Sound(u, R \cup {b}, U) /\ u.ref[b] = 0
        /\ t = page_insert(u, b, va)
    BY <1>2, <1>3, <1>5, <2>1
  <2>3. U \subseteq R
    BY DEF Sound
  <2>4. Ok(u) => Mapped(u.mm, va) /\ u.mm.pgdir # NULL
    BY <1>2 DEF Same
  <2>5. Sound(t, R, U) /\ SameMm(u, t)
    BY ONLY <2>2, <2>3, <2>4, va \in Va, InsertSound
  <2> QED BY <1>2, <2>5 DEF SameMm, Same
<1> QED BY <1>4, <1>5

-----------------------------------------------------------------------------
(***************************************************************************)
(* The end of an address space.                                            *)
(***************************************************************************)
\* The addresses of an area.
InArea(area, va) == area[1] <= va /\ va < area[2]

LEMMA PagesInFacts ==
    ASSUME NEW area \in Area
    PROVE  /\ PagesIn(area) \in Seq(Va) /\ Len(PagesIn(area)) \in Nat
           /\ \A k \in 1 .. Len(PagesIn(area)) : /\ PagesIn(area)[k] \in Va
                                                /\ InArea(area, PagesIn(area)[k])
           /\ \A va \in Va : InArea(area, va) =>
                \E k \in 1 .. Len(PagesIn(area)) : PagesIn(area)[k] = va
<1>1. PICK a, b : a = area[1] /\ b = area[2]
  OBVIOUS
<1>2. a \in Va /\ a \in Nat /\ b \in Nat /\ b <= NVa /\ NVa \in Nat
  BY <1>1, MemoryAssumption DEF Area, Va
<1>3. PICK n \in Nat : 1 .. b - a = 1 .. n /\ (a <= b => n = b - a) /\ (b < a => n = 0)
  <2>1. CASE a <= b
    BY <1>2, <2>1
  <2>2. CASE b < a
    <3>1. 1 .. b - a = 1 .. 0
      BY <1>2, <2>2
    <3> QED BY <1>2, <2>2, <3>1
  <2> QED BY <1>2, <2>1, <2>2
<1>4. PICK f : f = [i \in 1 .. n |-> a + i - 1]
  OBVIOUS
<1>5. PagesIn(area) = f
  BY <1>1, <1>3, <1>4 DEF PagesIn
<1>6. ASSUME NEW i \in 1 .. n PROVE a + i - 1 \in Va /\ a <= a + i - 1 /\ a + i - 1 < b
  BY <1>2, <1>3 DEF Va
<1>7. f \in Seq(Va)
  BY <1>4, <1>6, IsASeq
<1>8. Len(f) = n
  BY <1>4, <1>7, LenProperties
<1>9. ASSUME NEW va \in Va, a <= va, va < b PROVE \E k \in 1 .. n : f[k] = va
  <2>1. va \in Nat
    BY <1>2 DEF Va
  <2>2. va - a + 1 \in 1 .. n /\ a + (va - a + 1) - 1 = va
    BY <1>2, <1>3, <1>9, <2>1
  <2>3. f[va - a + 1] = va
    BY <1>4, <2>2
  <2> QED BY <2>2, <2>3
<1>10. \A k \in 1 .. n : f[k] \in Va /\ a <= f[k] /\ f[k] < b
  BY <1>4, <1>6
<1> QED BY <1>1, <1>5, <1>7, <1>8, <1>9, <1>10 DEF InArea

\* What page_remove_pte does, for the addresses of an area.
LEMMA UnmapSound ==
    ASSUME NEW s, NEW R, NEW U, Sound(s, R, U), NEW area \in Area, NEW t, t = unmap_range(s, area)
    PROVE  /\ Sound(t, R, U) /\ SameMm(s, t) /\ t.res = s.res /\ t.mm.pde = s.mm.pde
           /\ \A x \in Va : s.mm.pte[x] = NULL => t.mm.pte[x] = NULL
           /\ Ok(t) => \A x \in Va : InArea(area, x) => t.mm.pte[x] = NULL
<1>1. PICK xs : xs = PagesIn(area)
  OBVIOUS
<1>2. Len(xs) \in Nat /\ \A k \in 1 .. Len(xs) : xs[k] \in Va
  BY <1>1, PagesInFacts
<1> DEFINE P(u, k) == /\ Sound(u, R, U) /\ SameMm(s, u) /\ u.res = s.res /\ u.mm.pde = s.mm.pde
                      /\ \A x \in Va : s.mm.pte[x] = NULL => u.mm.pte[x] = NULL
                      /\ Ok(u) => \A i \in 1 .. k : u.mm.pte[xs[i]] = NULL
<1>3. PICK Good : Good = [k \in 0 .. Len(xs) |-> {u \in State : P(u, k)}]
  OBVIOUS
<1>4. s \in Good[0]
  <2>1. s \in State /\ 0 \in 0 .. Len(xs)
    BY <1>2 DEF Sound
  <2>2. P(s, 0)
    BY DEF SameMm, Same
  <2> HIDE DEF P
  <2> QED BY <1>3, <2>1, <2>2
<1>5. ASSUME NEW k \in 1 .. Len(xs), NEW u \in Good[k - 1]
      PROVE  page_remove_pte(u, xs[k]) \in Good[k]
  <2>1. k - 1 \in 0 .. Len(xs) /\ k \in 0 .. Len(xs) /\ xs[k] \in Va
    BY <1>2
  <2>2. P(u, k - 1)
    <3> HIDE DEF P
    <3> QED BY <1>3, <2>1
  <2>3. PICK v : v = page_remove_pte(u, xs[k])
    OBVIOUS
  <2>4. Sound(u, R, U)
    BY <2>2
  <2>5. /\ Sound(v, R, U) /\ SameMm(u, v) /\ v.res = u.res /\ v.mm.pde = u.mm.pde
        /\ Ok(v) \/ u.mm.pte[xs[k]] = NULL => v.mm.pte[xs[k]] = NULL
        /\ \A x \in Va : x # xs[k] => v.mm.pte[x] = u.mm.pte[x]
    BY ONLY <2>4, <2>1, <2>3, RemoveSound
  <2>6. Ok(v) => Ok(u)
    BY <2>5 DEF Ok
  <2>7. \A x \in Va : Ok(v) /\ u.mm.pte[x] = NULL => v.mm.pte[x] = NULL
    BY <2>5
  <2>8. \A x \in Va : s.mm.pte[x] = NULL => v.mm.pte[x] = NULL
    BY <2>2, <2>5
  <2>9. ASSUME Ok(v), NEW i \in 1 .. k PROVE v.mm.pte[xs[i]] = NULL
    <3>1. CASE i = k
      BY <2>5, <2>9, <3>1
    <3>2. CASE i # k
      <4>1. i \in 1 .. k - 1 /\ xs[i] \in Va
        BY <1>2, <3>2
      <4> QED BY <2>2, <2>6, <2>7, <2>9, <4>1
    <3> QED BY <3>1, <3>2
  <2>10. P(v, k)
    BY <2>2, <2>5, <2>8, <2>9 DEF SameMm, Same
  <2>11. v \in State
    BY <2>5 DEF Sound
  <2> HIDE DEF P
  <2> QED BY <1>3, <2>1, <2>3, <2>10, <2>11
<1>6. t = Unmaps!Loop(s, xs)
  BY <1>1, Zenon DEF unmap_range, Each, Unmaps!Loop
<1>7. t \in Good[Len(xs)]
  BY <1>2, <1>4, <1>5, <1>6, Unmaps!LoopKeeps
<1>8. P(t, Len(xs))
  <2> HIDE DEF P
  <2> QED BY <1>2, <1>3, <1>7
<1>9. Ok(t) => \A x \in Va : InArea(area, x) => t.mm.pte[x] = NULL
  BY <1>1, <1>8, PagesInFacts
<1> QED BY <1>8, <1>9

\* The same for all areas of an address space: no page is mapped any more.
LEMMA UnmapAllSound ==
    ASSUME NEW s, NEW R, NEW U, Sound(s, R, U), NEW t, t = Each(unmap_range, s, s.mm.vmas)
    PROVE  /\ Sound(t, R, U) /\ SameMm(s, t) /\ t.res = s.res /\ t.mm.pde = s.mm.pde
           /\ Ok(t) => \A x \in Va : t.mm.pte[x] = NULL
<1>1. PICK xs \in Seq(Area) : xs = s.mm.vmas
  BY DEF Sound, State, Space
<1>2. Len(xs) \in Nat /\ DOMAIN xs = 1 .. Len(xs) /\ \A k \in 1 .. Len(xs) : xs[k] \in Area
  BY LenProperties, ElementOfSeq
<1> DEFINE P(u, k) == /\ Sound(u, R, U) /\ SameMm(s, u) /\ u.res = s.res /\ u.mm.pde = s.mm.pde
                      /\ Ok(u) => \A i \in 1 .. k : \A x \in Va :
                                    InArea(xs[i], x) => u.mm.pte[x] = NULL
<1>3. PICK Good : Good = [k \in 0 .. Len(xs) |-> {u \in State : P(u, k)}]
  OBVIOUS
<1>4. s \in Good[0]
  <2>1. s \in State /\ 0 \in 0 .. Len(xs)
    BY <1>2 DEF Sound
  <2>2. P(s, 0)
    BY DEF SameMm, Same
  <2> HIDE DEF P
  <2> QED BY <1>3, <2>1, <2>2
<1>5. ASSUME NEW k \in 1 .. Len(xs), NEW u \in Good[k - 1]
      PROVE  unmap_range(u, xs[k]) \in Good[k]
  <2>1. k - 1 \in 0 .. Len(xs) /\ k \in 0 .. Len(xs) /\ xs[k] \in Area
    BY <1>2
  <2>2. P(u, k - 1)
    <3> HIDE DEF P
    <3> QED BY <1>3, <2>1
  <2>3. PICK v : v = unmap_range(u, xs[k])
    OBVIOUS
  <2>4. Sound(u, R, U)
    BY <2>2
  <2>5. /\ Sound(v, R, U) /\ SameMm(u, v) /\ v.res = u.res /\ v.mm.pde = u.mm.pde
        /\ \A x \in Va : u.mm.pte[x] = NULL => v.mm.pte[x] = NULL
        /\ Ok(v) => \A x \in Va : InArea(xs[k], x) => v.mm.pte[x] = NULL
    BY ONLY <2>4, <2>1, <2>3, UnmapSound
  <2>6. Ok(v) => Ok(u)
    BY <2>5 DEF Ok
  <2>7. ASSUME Ok(v), NEW i \in 1 .. k, NEW x \in Va, InArea(xs[i], x)
        PROVE  v.mm.pte[x] = NULL
    <3>1. CASE i = k
      BY <2>5, <2>7, <3>1
    <3>2. CASE i # k
      <4>1. i \in 1 .. k - 1
        BY <3>2
      <4> QED BY <2>2, <2>5, <2>6, <2>7, <4>1
    <3> QED BY <3>1, <3>2
  <2>8. P(v, k)
    BY <2>2, <2>5, <2>7 DEF SameMm, Same
  <2>9. v \in State
    BY <2>5 DEF Sound
  <2> HIDE DEF P
  <2> QED BY <1>3, <2>1, <2>3, <2>8, <2>9
<1>6. t = UnmapsAreas!Loop(s, xs)
  BY <1>1, Zenon DEF Each, UnmapsAreas!Loop
<1>7. t \in Good[Len(xs)]
  BY <1>2, <1>4, <1>5, <1>6, UnmapsAreas!LoopKeeps
<1>8. P(t, Len(xs))
  <2> HIDE DEF P
  <2> QED BY <1>2, <1>3, <1>7
<1>9. ASSUME Ok(t), NEW x \in Va, t.mm.pte[x] # NULL PROVE FALSE
  <2>1. Mapped(t.mm, x)
    BY <1>8, <1>9 DEF Sound, MmOk
  <2>2. t.mm.vmas = xs
    BY <1>1, <1>8 DEF SameMm
  <2>3. PICK j \in 1 .. Len(xs) : InArea(xs[j], x)
    BY <1>2, <2>1, <2>2 DEF Mapped, InArea
  <2> QED BY <1>8, <1>9, <2>3
<1> QED BY <1>8, <1>9

\* exit_range: a table that nothing uses any more is free.
LEMMA ExitTableSound ==
    ASSUME NEW s, NEW R, NEW U, Sound(s, R, U), Ok(s) => \A x \in Va : s.mm.pte[x] = NULL,
           NEW va \in Va, NEW t, t = exit_table(s, va)
    PROVE  /\ Sound(t, R, U) /\ SameMm(s, t) /\ t.res = s.res /\ t.mm.pte = s.mm.pte
           /\ t.mm.pde[Pdx(va)] = NULL
           /\ \A i \in Pdxs : s.mm.pde[i] = NULL => t.mm.pde[i] = NULL
<1>1. s \in State /\ R \subseteq Page /\ U \subseteq R
  BY DEF Sound
<1>2. PICK b : b = s.mm.pde[Pdx(va)]
  OBVIOUS
<1>3. CASE b = NULL
  <2>1. t = s
    BY <1>2, <1>3 DEF exit_table
  <2> QED BY <1>2, <1>3, <2>1 DEF SameMm, Same
<1>4. CASE b # NULL
  <2>1. PICK v : v = free_page(s, b)
    OBVIOUS
  <2>2. t = SetPde(v, va, NULL)
    BY <1>2, <1>4, <2>1 DEF exit_table
  <2>3. v \in State => /\ t \in State
                       /\ t.free_list = v.free_list /\ t.PageProperty = v.PageProperty
                       /\ t.nr_free = v.nr_free /\ t.ref = v.ref /\ t.res = v.res
                       /\ t.args = v.args
                       /\ t.mm.pgdir = v.mm.pgdir /\ t.mm.vmas = v.mm.vmas
                       /\ t.mm.pte = v.mm.pte /\ t.mm.pde[Pdx(va)] = NULL
                       /\ \A i \in Pdxs : i # Pdx(va) => t.mm.pde[i] = v.mm.pde[i]
                       /\ MmView(t.mm)[<<"table", Pdx(va)>>] = NULL
                       /\ \A x \in MmSlot : x # <<"table", Pdx(va)>> =>
                            MmView(t.mm)[x] = MmView(v.mm)[x]
    BY <2>2, SetPdeFacts
  <2>4. CASE ~Ok(s)
    <3>1. v = s
      BY <2>1, <2>4 DEF free_page, default_free_pages, Ok
    <3>2. Sound(t, R, U)
      <4>1. ~Ok(t) /\ t \in State
        BY <1>1, <2>3, <2>4, <3>1 DEF Ok
      <4> QED BY <1>1, <4>1, SoundStopped
    <3> QED BY <1>1, <2>3, <3>1, <3>2 DEF SameMm, Same, Ok
  <2>5. CASE Ok(s)
    <3>1. /\ ListSound(s) /\ FreePages(s) = Page \ (R \cup Held(s.mm))
          /\ R \cap Held(s.mm) = {}
          /\ Apart(MmView(s.mm)) /\ \A q \in FreePages(s) : s.ref[q] = 0
          /\ \A q \in U : s.ref[q] = 1
          /\ MmOk(s.mm, s.ref)
      BY <2>5 DEF Sound
    <3>2. b \in Held(s.mm) /\ b \in Page /\ b \notin R /\ b \notin FreePages(s)
      BY <1>1, <1>2, <1>4, <3>1, VaFacts, HeldIs, HeldArePages DEF State
    <3>3. b .. b + 1 - 1 = {b} /\ b + 1 - 1 = b
      BY <3>2, PagesAssumption DEF Page
    <3>4. Gives(s, v, b, 1)
      <4>1. /\ s.res = "ok" /\ 1 \in Nat \ {0} /\ b + 1 - 1 \in Page
            /\ FreePages(s) \cap (b .. b + 1 - 1) = {} /\ v = default_free_pages(s, b, 1)
        BY <2>1, <2>5, <3>2, <3>3 DEF Ok, free_page
      <4> QED BY <1>1, <3>1, <3>2, <4>1, GiveKeeps
    <3>5. /\ v \in State /\ ListSound(v) /\ FreePages(v) = FreePages(s) \cup {b}
          /\ v.ref = [q \in Page |-> IF q \in {b} THEN 0 ELSE s.ref[q]]
          /\ v.res = s.res /\ v.mm = s.mm /\ v.args = s.args
      BY <3>3, <3>4 DEF Gives
    <3>6. t.ref[b] = 0 /\ \A q \in Page : q # b => t.ref[q] = s.ref[q]
      BY <2>3, <3>2, <3>5
    <3>7. FreePages(t) = FreePages(s) \cup {b} /\ ListSound(t)
      BY <2>3, <3>5, SameList
    <3>8. Apart(MmView(t.mm)) /\ Held(t.mm) = Held(s.mm) \ {b}
      <4>1. PICK x : x = <<"table", Pdx(va)>>
        OBVIOUS
      <4>2. x \in MmSlot /\ MmView(s.mm)[x] = b
        BY <1>2, <4>1, VaFacts, ViewFacts
      <4>3. PICK V, W : V = MmView(s.mm) /\ W = MmView(t.mm)
        OBVIOUS
      <4>4. /\ DOMAIN V = MmSlot /\ DOMAIN W = MmSlot /\ Apart(V) /\ W[x] = NULL
            /\ \A y \in MmSlot : y # x => W[y] = V[y]
        BY <2>3, <3>1, <3>5, <4>1, <4>3, ViewFacts
      <4>5. Apart(W) /\ Pages(W) = Pages(V) \ {V[x]}
        BY ONLY <4>2, <4>4, ChangeSlot
      <4> QED BY <4>2, <4>3, <4>5 DEF Held
    <3>9. FreePages(t) = Page \ (R \cup Held(t.mm)) /\ R \cap Held(t.mm) = {}
      BY <3>1, <3>2, <3>7, <3>8
    <3>10. (\A q \in U : t.ref[q] = 1) /\ \A q \in FreePages(t) : t.ref[q] = 0
      BY <1>1, <3>1, <3>2, <3>6, <3>7
    <3>11. SameMm(s, t) /\ t.res = s.res /\ t.mm.pte = s.mm.pte
      BY <2>3, <3>5 DEF SameMm, Same, Ok
    <3>12. ASSUME NEW i \in Pdxs, t.mm.pde[i] # NULL PROVE s.mm.pde[i] # NULL
      BY <2>3, <3>5, <3>12
    <3>13. MmOk(t.mm, t.ref)
      <4>1. \A x \in Va : t.mm.pte[x] = NULL
        BY <2>5, <3>11
      <4>2. ASSUME NEW i \in Pdxs, t.mm.pde[i] # NULL
            PROVE  \E w \in Va : Pdx(w) = i /\ Mapped(t.mm, w)
        <5>1. \E w \in Va : Pdx(w) = i /\ Mapped(s.mm, w)
          BY <3>1, <3>12, <4>2 DEF MmOk
        <5> QED BY <3>11, <5>1 DEF Mapped, SameMm
      <4>3. t.mm.pgdir # NULL
        <5>1. s.mm # NoMM
          BY <1>2, <1>4, VaFacts DEF NoMM, NewMM
        <5> QED BY <3>1, <3>11, <5>1 DEF MmOk, SameMm
      <4> QED BY <4>1, <4>2, <4>3 DEF MmOk
    <3>14. Sound(t, R, U)
      BY <1>1, <2>3, <3>5, <3>7, <3>8, <3>9, <3>10, <3>13 DEF Sound
    <3> QED BY <2>3, <3>5, <3>11, <3>12, <3>14
  <2> QED BY <2>4, <2>5
<1> QED BY <1>3, <1>4

LEMMA ExitRangeSound ==
    ASSUME NEW s, NEW R, NEW U, Sound(s, R, U), Ok(s) => \A x \in Va : s.mm.pte[x] = NULL,
           NEW area \in Area, NEW t, t = exit_range(s, area)
    PROVE  /\ Sound(t, R, U) /\ SameMm(s, t) /\ t.res = s.res /\ t.mm.pte = s.mm.pte
           /\ \A x \in Va : InArea(area, x) => t.mm.pde[Pdx(x)] = NULL
           /\ \A i \in Pdxs : s.mm.pde[i] = NULL => t.mm.pde[i] = NULL
<1>1. PICK xs : xs = PagesIn(area)
  OBVIOUS
<1>2. Len(xs) \in Nat /\ \A k \in 1 .. Len(xs) : xs[k] \in Va
  BY <1>1, PagesInFacts
<1> DEFINE P(u, k) == /\ Sound(u, R, U) /\ SameMm(s, u) /\ u.res = s.res /\ u.mm.pte = s.mm.pte
                      /\ \A i \in Pdxs : s.mm.pde[i] = NULL => u.mm.pde[i] = NULL
                      /\ \A i \in 1 .. k : u.mm.pde[Pdx(xs[i])] = NULL
<1>3. PICK Good : Good = [k \in 0 .. Len(xs) |-> {u \in State : P(u, k)}]
  OBVIOUS
<1>4. s \in Good[0]
  <2>1. s \in State /\ 0 \in 0 .. Len(xs)
    BY <1>2 DEF Sound
  <2>2. P(s, 0)
    BY DEF SameMm, Same
  <2> HIDE DEF P
  <2> QED BY <1>3, <2>1, <2>2
<1>5. ASSUME NEW k \in 1 .. Len(xs), NEW u \in Good[k - 1]
      PROVE  exit_table(u, xs[k]) \in Good[k]
  <2>1. k - 1 \in 0 .. Len(xs) /\ k \in 0 .. Len(xs) /\ xs[k] \in Va
    BY <1>2
  <2>2. P(u, k - 1)
    <3> HIDE DEF P
    <3> QED BY <1>3, <2>1
  <2>3. PICK v : v = exit_table(u, xs[k])
    OBVIOUS
  <2>4. Sound(u, R, U) /\ (Ok(u) => \A x \in Va : u.mm.pte[x] = NULL)
    BY <2>2 DEF Ok
  <2>5. /\ Sound(v, R, U) /\ SameMm(u, v) /\ v.res = u.res /\ v.mm.pte = u.mm.pte
        /\ v.mm.pde[Pdx(xs[k])] = NULL
        /\ \A i \in Pdxs : u.mm.pde[i] = NULL => v.mm.pde[i] = NULL
    BY ONLY <2>4, <2>1, <2>3, ExitTableSound
  <2>6. ASSUME NEW i \in 1 .. k PROVE v.mm.pde[Pdx(xs[i])] = NULL
    <3>1. CASE i = k
      BY <2>5, <3>1
    <3>2. CASE i # k
      <4>1. i \in 1 .. k - 1 /\ Pdx(xs[i]) \in Pdxs
        BY <1>2, <3>2, VaFacts
      <4> QED BY <2>2, <2>5, <4>1
    <3> QED BY <3>1, <3>2
  <2>7. P(v, k)
    BY <2>2, <2>5, <2>6 DEF SameMm, Same
  <2>8. v \in State
    BY <2>5 DEF Sound
  <2> HIDE DEF P
  <2> QED BY <1>3, <2>1, <2>3, <2>7, <2>8
<1>6. t = ExitsTables!Loop(s, xs)
  BY <1>1, Zenon DEF exit_range, Each, ExitsTables!Loop
<1>7. t \in Good[Len(xs)]
  BY <1>2, <1>4, <1>5, <1>6, ExitsTables!LoopKeeps
<1>8. P(t, Len(xs))
  <2> HIDE DEF P
  <2> QED BY <1>2, <1>3, <1>7
<1>9. \A x \in Va : InArea(area, x) => t.mm.pde[Pdx(x)] = NULL
  BY <1>1, <1>8, PagesInFacts
<1> QED BY <1>8, <1>9

LEMMA ExitAllSound ==
    ASSUME NEW s, NEW R, NEW U, Sound(s, R, U), Ok(s) => \A x \in Va : s.mm.pte[x] = NULL,
           NEW t, t = Each(exit_range, s, s.mm.vmas)
    PROVE  /\ Sound(t, R, U) /\ SameMm(s, t) /\ t.res = s.res /\ t.mm.pte = s.mm.pte
           /\ Ok(t) => \A i \in Pdxs : t.mm.pde[i] = NULL
<1>1. PICK xs \in Seq(Area) : xs = s.mm.vmas
  BY DEF Sound, State, Space
<1>2. Len(xs) \in Nat /\ DOMAIN xs = 1 .. Len(xs) /\ \A k \in 1 .. Len(xs) : xs[k] \in Area
  BY LenProperties, ElementOfSeq
<1> DEFINE P(u, k) == /\ Sound(u, R, U) /\ SameMm(s, u) /\ u.res = s.res /\ u.mm.pte = s.mm.pte
                      /\ \A i \in 1 .. k : \A x \in Va :
                           InArea(xs[i], x) => u.mm.pde[Pdx(x)] = NULL
<1>3. PICK Good : Good = [k \in 0 .. Len(xs) |-> {u \in State : P(u, k)}]
  OBVIOUS
<1>4. s \in Good[0]
  <2>1. s \in State /\ 0 \in 0 .. Len(xs)
    BY <1>2 DEF Sound
  <2>2. P(s, 0)
    BY DEF SameMm, Same
  <2> HIDE DEF P
  <2> QED BY <1>3, <2>1, <2>2
<1>5. ASSUME NEW k \in 1 .. Len(xs), NEW u \in Good[k - 1]
      PROVE  exit_range(u, xs[k]) \in Good[k]
  <2>1. k - 1 \in 0 .. Len(xs) /\ k \in 0 .. Len(xs) /\ xs[k] \in Area
    BY <1>2
  <2>2. P(u, k - 1)
    <3> HIDE DEF P
    <3> QED BY <1>3, <2>1
  <2>3. PICK v : v = exit_range(u, xs[k])
    OBVIOUS
  <2>4. Sound(u, R, U) /\ (Ok(u) => \A x \in Va : u.mm.pte[x] = NULL)
    BY <2>2 DEF Ok
  <2>5. /\ Sound(v, R, U) /\ SameMm(u, v) /\ v.res = u.res /\ v.mm.pte = u.mm.pte
        /\ \A x \in Va : InArea(xs[k], x) => v.mm.pde[Pdx(x)] = NULL
        /\ \A i \in Pdxs : u.mm.pde[i] = NULL => v.mm.pde[i] = NULL
    BY ONLY <2>4, <2>1, <2>3, ExitRangeSound
  <2>6. ASSUME NEW i \in 1 .. k, NEW x \in Va, InArea(xs[i], x) PROVE v.mm.pde[Pdx(x)] = NULL
    <3>1. CASE i = k
      BY <2>5, <2>6, <3>1
    <3>2. CASE i # k
      <4>1. i \in 1 .. k - 1 /\ Pdx(x) \in Pdxs
        BY <3>2, VaFacts
      <4> QED BY <2>2, <2>5, <2>6, <4>1
    <3> QED BY <3>1, <3>2
  <2>7. P(v, k)
    BY <2>2, <2>5, <2>6 DEF SameMm, Same
  <2>8. v \in State
    BY <2>5 DEF Sound
  <2> HIDE DEF P
  <2> QED BY <1>3, <2>1, <2>3, <2>7, <2>8
<1>6. t = ExitsAreas!Loop(s, xs)
  BY <1>1, Zenon DEF Each, ExitsAreas!Loop
<1>7. t \in Good[Len(xs)]
  BY <1>2, <1>4, <1>5, <1>6, ExitsAreas!LoopKeeps
<1>8. P(t, Len(xs))
  <2> HIDE DEF P
  <2> QED BY <1>2, <1>3, <1>7
<1>9. ASSUME Ok(t), NEW i \in Pdxs, t.mm.pde[i] # NULL PROVE FALSE
  <2>1. PICK x \in Va : Pdx(x) = i /\ Mapped(t.mm, x)
    BY <1>8, <1>9 DEF Sound, MmOk
  <2>2. t.mm.vmas = xs
    BY <1>1, <1>8 DEF SameMm
  <2>3. PICK j \in 1 .. Len(xs) : InArea(xs[j], x)
    BY <1>2, <2>1, <2>2 DEF Mapped, InArea
  <2> QED BY <1>8, <1>9, <2>1, <2>3
<1> QED BY <1>8, <1>9

\* A new address space, and none.
LEMMA NewMMFacts ==
    ASSUME NEW p \in Page \cup {NULL}, NEW r
    PROVE  /\ NewMM(p) \in Space /\ NewMM(p).pgdir = p /\ NewMM(p).vmas = << >>
           /\ Held(NewMM(p)) = {p} \ {NULL} /\ Apart(MmView(NewMM(p))) /\ MmOk(NewMM(p), r)
<1>1. PICK m : m = NewMM(p)
  OBVIOUS
<1>2. /\ m \in Space /\ m.pgdir = p /\ m.vmas = << >>
      /\ \A i \in Pdxs : m.pde[i] = NULL
      /\ \A va \in Va : m.pte[va] = NULL
  BY <1>1 DEF NewMM, Space
<1>3. ASSUME NEW q PROVE q \in Held(m) <=> q \in {p} \ {NULL}
  BY <1>2, HeldIs
<1>4. Apart(MmView(m))
  <2>1. ASSUME NEW x \in MmSlot, MmView(m)[x] # NULL PROVE x = <<"pgdir", 0>>
    <3>1. CASE \E i \in Pdxs : x = <<"table", i>>
      <4>1. PICK i \in Pdxs : x = <<"table", i>>
        BY <3>1
      <4>2. MmView(m)[<<"table", i>>] = m.pde[i]
        BY ViewFacts
      <4> QED BY <1>2, <2>1, <4>1, <4>2
    <3>2. CASE \E va \in Va : x = <<"user", va>>
      <4>1. PICK va \in Va : x = <<"user", va>>
        BY <3>2
      <4>2. MmView(m)[<<"user", va>>] = m.pte[va]
        BY ViewFacts
      <4> QED BY <1>2, <2>1, <4>1, <4>2
    <3> QED BY <3>1, <3>2, ViewFacts
  <2> QED BY <2>1, ViewFacts DEF Apart
<1>5. m.pgdir = NULL => m = NoMM
  BY <1>1, <1>2 DEF NoMM
<1> QED BY <1>1, <1>2, <1>3, <1>4, <1>5 DEF MmOk

LEMMA NoMMFacts ==
    ASSUME NEW r
    PROVE  /\ NoMM \in Space /\ NoMM.pgdir = NULL /\ Held(NoMM) = {} /\ NoMM.vmas = << >>
           /\ Apart(MmView(NoMM)) /\ MmOk(NoMM, r)
<1>1. NULL \in Page \cup {NULL}
  OBVIOUS
<1> QED BY <1>1, NewMMFacts DEF NoMM

\* A state in which only the address space is another.
LEMMA WithMm ==
    ASSUME NEW s \in State, NEW m \in Space, NEW t, t = [s EXCEPT !.mm = m]
    PROVE  /\ t \in State /\ t.mm = m
           /\ t.free_list = s.free_list /\ t.PageProperty = s.PageProperty
           /\ t.nr_free = s.nr_free /\ t.ref = s.ref /\ t.page = s.page /\ t.res = s.res
           /\ t.args = s.args
BY DEF State

\* An address space is given up: all its pages are free.
LEMMA FreeMMSound ==
    ASSUME NEW s, NEW R, NEW U, Sound(s, R, U), NEW t, t = FreeMM(s)
    PROVE  Sound(t, R, U) /\ Same(s, t) /\ t.mm = NoMM
<1>1. s \in State /\ R \subseteq Page /\ U \subseteq R
  BY DEF Sound
<1>2. CASE s.mm = NoMM
  <2>1. t = s
    BY <1>2 DEF FreeMM
  <2> QED BY <1>2, <2>1 DEF Same
<1>3. CASE s.mm # NoMM
  <2>1. PICK u : u = Each(unmap_range, s, s.mm.vmas)
    OBVIOUS
  <2>2. /\ Sound(u, R, U) /\ SameMm(s, u)
        /\ Ok(u) => \A x \in Va : u.mm.pte[x] = NULL
    BY ONLY Sound(s, R, U), <2>1, UnmapAllSound
  <2>3. PICK e : e = Each(exit_range, u, u.mm.vmas)
    OBVIOUS
  <2>4. /\ Sound(e, R, U) /\ SameMm(u, e) /\ e.res = u.res /\ e.mm.pte = u.mm.pte
        /\ Ok(e) => \A i \in Pdxs : e.mm.pde[i] = NULL
    BY ONLY <2>2, <2>3, ExitAllSound
  <2>5. e = exit_mmap(s)
    <3>1. u.mm.vmas = s.mm.vmas
      BY <2>2 DEF SameMm
    <3> QED BY <2>1, <2>3, <3>1, Zenon DEF exit_mmap
  <2>6. PICK b : b = s.mm.pgdir
    OBVIOUS
  <2>7. SameMm(s, e) /\ e.mm.pgdir = b /\ e \in State
    BY <2>2, <2>4, <2>6 DEF SameMm, Same, Sound
  <2>8. PICK f : f = free_page(e, b)
    OBVIOUS
  <2>9. t = [f EXCEPT !.mm = NoMM]
    BY <1>3, <2>5, <2>6, <2>8 DEF FreeMM
  <2>10. NoMM \in Space /\ Held(NoMM) = {} /\ Apart(MmView(NoMM))
         /\ \A r : MmOk(NoMM, r)
    BY NoMMFacts
  <2>11. f \in State => /\ t \in State /\ t.mm = NoMM
                        /\ t.free_list = f.free_list /\ t.PageProperty = f.PageProperty
                        /\ t.nr_free = f.nr_free /\ t.ref = f.ref /\ t.res = f.res
                        /\ t.args = f.args
    BY <2>9, <2>10, WithMm
  <2>12. CASE ~Ok(e)
    <3>1. f = e
      BY <2>8, <2>12 DEF free_page, default_free_pages, Ok
    <3>2. ~Ok(t) /\ t \in State
      BY <2>7, <2>11, <2>12, <3>1 DEF Ok
    <3>3. Sound(t, R, U)
      BY <1>1, <3>2, SoundStopped
    <3> QED BY <2>7, <2>11, <3>1, <3>2, <3>3 DEF Same, SameMm
  <2>13. CASE Ok(e)
    <3>1. /\ ListSound(e) /\ FreePages(e) = Page \ (R \cup Held(e.mm))
          /\ R \cap Held(e.mm) = {}
          /\ \A q \in FreePages(e) : e.ref[q] = 0
          /\ \A q \in U : e.ref[q] = 1
      BY <2>4, <2>13 DEF Sound
    <3>2. b \in Page
      <4>1. Ok(s)
        BY <2>7, <2>13 DEF SameMm, Same
      <4>2. b # NULL
        BY <1>3, <2>6, <4>1 DEF Sound, MmOk
      <4> QED BY <1>1, <2>6, <4>2 DEF State, Space
    <3>3. Held(e.mm) = {b}
      <4>1. \A x \in Va : e.mm.pte[x] = NULL
        BY <2>2, <2>4, <2>13 DEF Ok
      <4>2. \A i \in Pdxs : e.mm.pde[i] = NULL
        BY <2>4, <2>13
      <4>3. b # NULL
        BY <3>2, VaFacts
      <4>4. ASSUME NEW q PROVE q \in Held(e.mm) <=> q \in {b}
        BY <2>7, <4>1, <4>2, <4>3, HeldIs
      <4> QED BY <4>4
    <3>4. b .. b + 1 - 1 = {b} /\ b + 1 - 1 = b
      BY <3>2, PagesAssumption DEF Page
    <3>5. Gives(e, f, b, 1)
      <4>1. /\ e.res = "ok" /\ 1 \in Nat \ {0} /\ b + 1 - 1 \in Page
            /\ FreePages(e) \cap (b .. b + 1 - 1) = {} /\ f = default_free_pages(e, b, 1)
        BY <2>8, <2>13, <3>1, <3>2, <3>3, <3>4 DEF Ok, free_page
      <4> QED BY <2>7, <3>1, <3>2, <4>1, GiveKeeps
    <3>6. /\ f \in State /\ ListSound(f) /\ FreePages(f) = FreePages(e) \cup {b}
          /\ f.ref = [q \in Page |-> IF q \in {b} THEN 0 ELSE e.ref[q]]
          /\ f.res = e.res /\ f.mm = e.mm /\ f.args = e.args
      BY <3>4, <3>5 DEF Gives
    <3>7. t.ref[b] = 0 /\ \A q \in Page : q # b => t.ref[q] = e.ref[q]
      BY <2>11, <3>2, <3>6
    <3>8. FreePages(t) = FreePages(e) \cup {b} /\ ListSound(t)
      BY <2>11, <3>6, SameList
    <3>9. FreePages(t) = Page \ (R \cup Held(t.mm)) /\ R \cap Held(t.mm) = {}
      BY <2>10, <2>11, <3>1, <3>2, <3>3, <3>6, <3>8
    <3>10. (\A q \in U : t.ref[q] = 1) /\ \A q \in FreePages(t) : t.ref[q] = 0
      <4>1. b \notin U /\ FreePages(e) \subseteq Page
        BY <1>1, <3>1, <3>3
      <4> QED BY <1>1, <3>1, <3>7, <3>8, <4>1
    <3>11. Sound(t, R, U)
      BY <1>1, <2>10, <2>11, <3>6, <3>8, <3>9, <3>10 DEF Sound
    <3> QED BY <2>7, <2>11, <3>6, <3>11 DEF Same, SameMm, Ok
  <2> QED BY <2>12, <2>13
<1> QED BY <1>2, <1>3

\* setup_pgdir makes an address space without areas, if it finds a page.
LEMMA SetupSound ==
    ASSUME NEW s, NEW R, NEW U, Sound(s, R, U), s.mm = NoMM, NEW t, t = setup_pgdir(s)
    PROVE  /\ Sound(t, R, U) /\ Same(s, t)
           /\ Ok(t) => t.mm.pgdir # NULL /\ t.mm.vmas = << >>
<1>1. PICK u : u = alloc_page(s)
  OBVIOUS
<1>2. /\ u \in State /\ u.mm = s.mm /\ u.ref = s.ref /\ Same(s, u)
      /\ ~Ok(u) => Sound(u, R, U)
      /\ Ok(u) => /\ u.page \in Page /\ u.page \notin R /\ u.page \notin Held(s.mm)
                  /\ u.page \notin U /\ u.ref[u.page] = 0
                  /\ Sound(u, R \cup {u.page}, U)
  <2>1. Allocs(s, R, U, u)
    BY <1>1, AllocSound
  <2> QED BY <2>1 DEF Allocs
<1>3. R \subseteq Page /\ U \subseteq R
  BY DEF Sound
<1>4. CASE ~Ok(u)
  <2>1. t = u
    BY <1>1, <1>4 DEF setup_pgdir
  <2> QED BY <1>2, <1>4, <2>1
<1>5. CASE Ok(u)
  <2>1. PICK b : b = u.page
    OBVIOUS
  <2>2. b \in Page /\ b \notin R /\ Sound(u, R \cup {b}, U) /\ b # NULL
    BY <1>2, <1>5, <2>1, VaFacts
  <2>3. /\ NewMM(b) \in Space /\ NewMM(b).pgdir = b /\ NewMM(b).vmas = << >>
        /\ Held(NewMM(b)) = {b} /\ Apart(MmView(NewMM(b))) /\ \A r : MmOk(NewMM(b), r)
    BY <2>2, NewMMFacts
  <2>4. t = [u EXCEPT !.mm = NewMM(b)]
    BY <1>1, <1>5, <2>1 DEF setup_pgdir
  <2>5. /\ t \in State /\ t.mm = NewMM(b)
        /\ t.free_list = u.free_list /\ t.PageProperty = u.PageProperty
        /\ t.nr_free = u.nr_free /\ t.ref = u.ref /\ t.res = u.res
        /\ t.args = u.args
    BY <1>2, <2>3, <2>4, WithMm
  <2>6. /\ ListSound(u) /\ FreePages(u) = Page \ (R \cup {b})
        /\ \A q \in FreePages(u) : u.ref[q] = 0
        /\ \A q \in U : u.ref[q] = 1
    BY <1>2, <1>5, <2>2, NoMMFacts DEF Sound
  <2>7. FreePages(t) = FreePages(u) /\ ListSound(t)
    BY <2>5, <2>6, SameList
  <2>8. FreePages(t) = Page \ (R \cup Held(t.mm)) /\ R \cap Held(t.mm) = {}
    BY <2>2, <2>3, <2>5, <2>6, <2>7
  <2>9. Sound(t, R, U)
    BY <1>3, <2>3, <2>5, <2>6, <2>7, <2>8 DEF Sound
  <2> QED BY <1>2, <2>2, <2>3, <2>5, <2>9 DEF Same, Ok
<1> QED BY <1>4, <1>5

LEMMA BorrowSound ==
    ASSUME NEW s, NEW R, NEW U, Sound(s, R, U), NEW t, t = Borrow(s)
    PROVE  Sound(t, R, U) /\ SameMm(s, t) /\ t.mm = s.mm
<1>1. PICK u : u = alloc_page(s)
  OBVIOUS
<1>2. u.mm = s.mm /\ Same(s, u) /\ (~Ok(u) => Sound(u, R, U))
  <2>1. Allocs(s, R, U, u)
    BY <1>1, AllocSound
  <2> QED BY <2>1 DEF Allocs
<1>3. t = IF Ok(u) THEN s ELSE u
  BY <1>1 DEF Borrow
<1> QED BY <1>2, <1>3 DEF SameMm, Same

-----------------------------------------------------------------------------
(***************************************************************************)
(* The making of an address space.                                         *)
(***************************************************************************)
\* The kernel may work on the address space of s.
HasMm(s) == Ok(s) => s.mm.pgdir # NULL

\* Areas in order and apart from each other, and two that are not apart.
Tidy(vmas) == \A i, j \in DOMAIN vmas : i < j => vmas[i][2] <= vmas[j][1]
Overlap(v, area) == v[1] < area[2] /\ area[1] < v[2]

\* l has the areas of vmas, and area, in order, and no other.
HasToo(l, vmas, area) ==
    /\ l \in Seq(Area) /\ Tidy(l)
    /\ \E j \in DOMAIN l : l[j] = area
    /\ \A k \in DOMAIN vmas : \E j \in DOMAIN l : l[j] = vmas[k]
    /\ \A j \in DOMAIN l : l[j] = area \/ \E k \in DOMAIN vmas : l[j] = vmas[k]

\* The neighbours let area into the h-th place.
Fits(vmas, h, area) ==
    /\ h > 1 => check_vma_overlap(vmas[h - 1], area)
    /\ h <= Len(vmas) => check_vma_overlap(area, vmas[h])

LEMMA AreaFacts ==
    ASSUME NEW area \in Area
    PROVE  /\ area[1] \in Nat /\ area[2] \in Nat /\ area[1] < area[2]
           /\ area[1] \in Va /\ area[2] <= NVa
BY MemoryAssumption DEF Area, Va

\* Where insert_vma_struct puts area: in front of the first area that starts later.
Place(vmas, h, area) ==
    /\ h \in 1 .. Len(vmas) + 1
    /\ \A i \in 1 .. h - 1 : vmas[i][1] <= area[1]
    /\ h <= Len(vmas) => area[1] < vmas[h][1]

LEMMA PlaceFound ==
    ASSUME NEW vmas \in Seq(Area), NEW area \in Area,
           NEW later, later = {i \in DOMAIN vmas : area[1] < vmas[i][1]},
           NEW h, h = IF later = {} THEN Len(vmas) + 1 ELSE Min(later)
    PROVE  Place(vmas, h, area)
<1>1. PICK n \in Nat : n = Len(vmas) /\ DOMAIN vmas = 1 .. n
  BY LenProperties
<1>2. PICK a, b : a = area[1] /\ b = area[2]
  OBVIOUS
<1>3. a \in Nat /\ b \in Nat /\ a < b
  BY <1>2, AreaFacts
<1>4. PICK lo, hi : /\ lo = [i \in 1 .. n |-> vmas[i][1]]
                    /\ hi = [i \in 1 .. n |-> vmas[i][2]]
  OBVIOUS
<1>5. ASSUME NEW i \in 1 .. n
      PROVE  /\ vmas[i][1] = lo[i] /\ vmas[i][2] = hi[i]
             /\ lo[i] \in Nat /\ hi[i] \in Nat /\ lo[i] < hi[i]
  <2>1. vmas[i] \in Area
    BY <1>1, ElementOfSeq
  <2> QED BY <1>4, <2>1, AreaFacts
<1>6. later = {i \in 1 .. n : a < lo[i]}
  BY <1>1, <1>2, <1>5
<1>7. /\ h \in 1 .. n + 1
      /\ \A i \in 1 .. h - 1 : lo[i] <= a
      /\ h <= n => a < lo[h]
  <2>1. CASE later = {}
    BY <1>1, <1>3, <1>5, <1>6, <2>1
  <2>2. CASE later # {}
    <3>1. later \in SUBSET Nat
      BY <1>6
    <3>2. PICK m \in later : \A i \in later : m <= i
      BY <2>2, <3>1, Unmaps!LeastNat
    <3>3. h \in later /\ \A i \in later : h <= i
      BY <2>2, <3>2 DEF Min
    <3>4. h \in 1 .. n /\ a < lo[h]
      BY <1>6, <3>3
    <3>5. ASSUME NEW i \in 1 .. h - 1 PROVE lo[i] <= a
      <4>1. i \in 1 .. n /\ i < h
        BY <3>4
      <4>2. i \notin later
        <5>1. i \in Nat /\ h \in Nat
          BY ONLY n \in Nat, <3>4, <4>1
        <5>2. ~(h <= i)
          BY ONLY <4>1, <5>1
        <5> QED BY ONLY <3>3, <5>2
      <4>3. lo[i] \in Nat /\ ~(a < lo[i])
        BY ONLY <1>5, <1>6, <4>1, <4>2
      <4> QED BY ONLY <1>3, <4>3
    <3> QED BY <3>4, <3>5
  <2> QED BY <2>1, <2>2
<1>8. \A i \in 1 .. h - 1 : i \in 1 .. n
  BY <1>7
<1>9. h <= n => h \in 1 .. n
  BY <1>7
<1> QED BY ONLY <1>1, <1>2, <1>5, <1>7, <1>8, <1>9 DEF Place

\* The assertions about the two neighbours find every overlap, as the areas are in order.
LEMMA InsertVma ==
    ASSUME NEW vmas \in Seq(Area), Tidy(vmas), NEW area \in Area,
           NEW h, Place(vmas, h, area)
    PROVE  /\ Fits(vmas, h, area) => HasToo(InsertAt(vmas, h, area), vmas, area)
           /\ ~Fits(vmas, h, area) => \E i \in DOMAIN vmas : Overlap(vmas[i], area)
<1>1. PICK n \in Nat : n = Len(vmas) /\ DOMAIN vmas = 1 .. n
  BY LenProperties
<1>2. PICK a, b : a = area[1] /\ b = area[2]
  OBVIOUS
<1>3. a \in Nat /\ b \in Nat /\ a < b
  BY <1>2, AreaFacts
<1>4. PICK lo, hi : /\ lo = [i \in 1 .. n |-> vmas[i][1]]
                    /\ hi = [i \in 1 .. n |-> vmas[i][2]]
  OBVIOUS
<1>5. ASSUME NEW i \in 1 .. n
      PROVE  /\ vmas[i][1] = lo[i] /\ vmas[i][2] = hi[i]
             /\ lo[i] \in Nat /\ hi[i] \in Nat /\ lo[i] < hi[i]
  <2>1. vmas[i] \in Area
    BY <1>1, ElementOfSeq
  <2> QED BY <1>4, <2>1, AreaFacts
<1>6. \A i, j \in 1 .. n : i < j => hi[i] <= lo[j]
  BY <1>1, <1>5 DEF Tidy
<1>7. h \in 1 .. n + 1 /\ (\A i \in 1 .. h - 1 : i \in 1 .. n) /\ (h <= n => h \in 1 .. n)
  BY <1>1 DEF Place
<1>8. /\ h \in 1 .. n + 1
      /\ \A i \in 1 .. h - 1 : lo[i] <= a
      /\ h <= n => a < lo[h]
  BY <1>1, <1>2, <1>5, <1>7 DEF Place
<1>9. Fits(vmas, h, area) <=> (h > 1 => hi[h - 1] <= a) /\ (h <= n => b <= lo[h])
  <2>1. h > 1 => h - 1 \in 1 .. n
    BY <1>8
  <2>2. h <= n => h \in 1 .. n
    BY <1>8
  <2> QED BY <1>1, <1>2, <1>5, <2>1, <2>2 DEF Fits, check_vma_overlap
<1>10. ASSUME ~Fits(vmas, h, area)
       PROVE  \E i \in DOMAIN vmas : Overlap(vmas[i], area)
  <2>1. CASE h > 1 /\ a < hi[h - 1]
    <3>1. h - 1 \in 1 .. n /\ lo[h - 1] <= a
      BY <1>8, <2>1
    <3>2. lo[h - 1] < b
      BY <1>3, <1>5, <3>1
    <3> QED BY <1>1, <1>2, <1>5, <2>1, <3>1, <3>2 DEF Overlap
  <2>2. CASE h <= n /\ lo[h] < b
    <3>1. h \in 1 .. n /\ a < lo[h]
      BY <1>8, <2>2
    <3>2. a < hi[h]
      BY <1>3, <1>5, <3>1
    <3> QED BY <1>1, <1>2, <1>5, <2>2, <3>1, <3>2 DEF Overlap
  <2>3. (h > 1 => h - 1 \in 1 .. n) /\ (h <= n => h \in 1 .. n)
    BY <1>8
  <2>4. \/ h > 1 /\ ~(hi[h - 1] <= a)
        \/ h <= n /\ ~(b <= lo[h])
    BY ONLY <1>9, <1>10
  <2>5. (h > 1 => hi[h - 1] \in Nat) /\ (h <= n => lo[h] \in Nat)
    BY <1>5, <2>3
  <2>6. \/ h > 1 /\ a < hi[h - 1]
        \/ h <= n /\ lo[h] < b
    BY ONLY <1>3, <2>4, <2>5
  <2> QED BY <2>1, <2>2, <2>6
<1>11. ASSUME Fits(vmas, h, area)
       PROVE  HasToo(InsertAt(vmas, h, area), vmas, area)
  <2>1. PICK l : l = InsertAt(vmas, h, area)
    OBVIOUS
  <2>2. /\ l \in Seq(Area) /\ Len(l) = n + 1 /\ DOMAIN l = 1 .. n + 1
        /\ \A k \in 1 .. h - 1 : l[k] = vmas[k]
        /\ l[h] = area
        /\ \A k \in h .. n : l[k + 1] = vmas[k]
    <3>1. /\ InsertAt(vmas, h, area) \in Seq(Area)
          /\ Len(InsertAt(vmas, h, area)) = Len(vmas) + 1
          /\ \A k \in 1 .. h - 1 : InsertAt(vmas, h, area)[k] = vmas[k]
          /\ InsertAt(vmas, h, area)[h] = area
          /\ \A k \in h .. Len(vmas) : InsertAt(vmas, h, area)[k + 1] = vmas[k]
      <4>1. h \in 1 .. Len(vmas) + 1
        BY <1>1, <1>8
      <4> QED BY ONLY vmas \in Seq(Area), area \in Area, <4>1, InsertFacts
    <3> QED BY <1>1, <2>1, <3>1, LenProperties
  <2>3. ASSUME NEW i \in 1 .. h - 1 PROVE hi[i] <= a
    <3>1. i \in 1 .. n /\ h - 1 \in 1 .. n /\ h > 1 /\ (i = h - 1 \/ i < h - 1)
      BY <1>8
    <3>2. hi[h - 1] <= a
      BY <1>9, <1>11, <3>1
    <3>3. i < h - 1 => hi[i] <= lo[h - 1]
      BY <1>6, <3>1
    <3> QED BY <1>3, <1>5, <3>1, <3>2, <3>3
  <2>4. ASSUME NEW i \in h .. n PROVE b <= lo[i]
    <3>1. i \in 1 .. n /\ h \in 1 .. n /\ h <= n /\ (i = h \/ h < i)
      BY <1>8
    <3>2. b <= lo[h]
      BY <1>9, <1>11, <3>1
    <3>3. h < i => hi[h] <= lo[i]
      BY <1>6, <3>1
    <3> QED BY <1>3, <1>5, <3>1, <3>2, <3>3
  <2>5. ASSUME NEW j \in 1 .. n + 1
        PROVE  \/ j \in 1 .. h - 1 /\ j \in 1 .. n /\ l[j] = vmas[j]
               \/ j = h /\ l[j] = area
               \/ j > h /\ j - 1 \in h .. n /\ j - 1 \in 1 .. n /\ l[j] = vmas[j - 1]
    <3>1. CASE j < h
      <4>1. j \in 1 .. h - 1 /\ j \in 1 .. n
        BY <1>8, <3>1
      <4> QED BY <2>2, <4>1
    <3>2. CASE j = h
      BY <2>2, <3>2
    <3>3. CASE j > h
      <4>1. j - 1 \in h .. n /\ j - 1 \in 1 .. n /\ j - 1 + 1 = j
        BY <1>8, <3>3
      <4>2. l[j - 1 + 1] = vmas[j - 1]
        BY <2>2, <4>1
      <4> QED BY <3>3, <4>1, <4>2
    <3> QED BY <1>8, <3>1, <3>2, <3>3
  <2>6. ASSUME NEW i \in 1 .. n + 1, NEW j \in 1 .. n + 1, i < j
        PROVE  l[i][2] <= l[j][1]
    <3>1. CASE j \in 1 .. h - 1
      <4>1. i \in 1 .. h - 1 /\ i \in 1 .. n /\ j \in 1 .. n
        BY <1>8, <2>6, <3>1
      <4>2. hi[i] <= lo[j]
        BY <1>6, <2>6, <4>1
      <4>3. l[i] = vmas[i] /\ l[j] = vmas[j]
        BY <2>2, <3>1, <4>1
      <4> QED BY <1>5, <4>1, <4>2, <4>3
    <3>2. CASE j = h
      <4>1. i \in 1 .. h - 1 /\ i \in 1 .. n
        BY <1>8, <2>6, <3>2
      <4>2. hi[i] <= a
        BY <2>3, <4>1
      <4>3. l[i] = vmas[i] /\ l[j] = area
        BY <2>2, <3>2, <4>1
      <4> QED BY <1>2, <1>5, <4>1, <4>2, <4>3
    <3>3. CASE j > h
      <4>1. j - 1 \in h .. n /\ j - 1 \in 1 .. n /\ l[j] = vmas[j - 1]
        BY <1>8, <2>5, <3>3
      <4>2. CASE i < h
        <5>1. i \in 1 .. h - 1 /\ i \in 1 .. n /\ i < j - 1
          BY <1>8, <3>3, <4>2
        <5>2. hi[i] <= lo[j - 1]
          BY <1>6, <4>1, <5>1
        <5>3. l[i] = vmas[i]
          BY <2>2, <5>1
        <5> QED BY <1>5, <4>1, <5>1, <5>2, <5>3
      <4>3. CASE i = h
        <5>1. b <= lo[j - 1]
          BY <2>4, <4>1
        <5>2. l[i] = area
          BY <2>2, <4>3
        <5> QED BY <1>2, <1>5, <4>1, <5>1, <5>2
      <4>4. CASE i > h
        <5>1. i - 1 \in 1 .. n /\ l[i] = vmas[i - 1]
          BY <1>8, <2>5, <4>4
        <5>2. hi[i - 1] <= lo[j - 1]
          BY <1>6, <2>6, <4>1, <5>1
        <5> QED BY <1>5, <4>1, <5>1, <5>2
      <4> QED BY <1>8, <4>2, <4>3, <4>4
    <3> QED BY <1>8, <3>1, <3>2, <3>3
  <2>7. Tidy(l)
    BY <2>2, <2>6 DEF Tidy
  <2>8. ASSUME NEW k \in 1 .. n PROVE \E j \in 1 .. n + 1 : l[j] = vmas[k]
    <3>1. CASE k < h
      BY <1>8, <2>2, <3>1
    <3>2. CASE ~(k < h)
      <4>1. k \in h .. n /\ k + 1 \in 1 .. n + 1
        BY <1>8, <3>2
      <4> QED BY <2>2, <4>1
    <3> QED BY <3>1, <3>2
  <2>9. ASSUME NEW j \in 1 .. n + 1 PROVE l[j] = area \/ \E k \in 1 .. n : l[j] = vmas[k]
    BY <2>5
  <2>10. DOMAIN l = 1 .. n + 1 /\ DOMAIN vmas = 1 .. n /\ h \in 1 .. n + 1
    BY <1>1, <1>8, <2>2
  <2>11. HasToo(l, vmas, area)
    BY ONLY <2>2, <2>7, <2>8, <2>9, <2>10 DEF HasToo
  <2> QED BY ONLY <2>1, <2>11
<1> QED BY <1>10, <1>11

\* Only where the kernel has stopped is another.
LEMMA WithRes ==
    ASSUME NEW s \in State, NEW r \in Results, NEW t, t = [s EXCEPT !.res = r]
    PROVE  /\ t \in State /\ t.res = r /\ t.mm = s.mm /\ t.args = s.args
           /\ t.free_list = s.free_list /\ t.PageProperty = s.PageProperty
           /\ t.nr_free = s.nr_free /\ t.ref = s.ref /\ t.page = s.page
           /\ s.res = "ok" => [t EXCEPT !.res = "ok"] = s
BY DEF State

\* insert_vma_struct has put area into the list,
Inserted(s, t, R, U, area) ==
    /\ Sound(t, R, U) /\ Ok(t) /\ t.args = s.args /\ t.mm.pgdir # NULL
    /\ HasToo(t.mm.vmas, s.mm.vmas, area)

\* or one of its assertions has failed.
Overlapped(s, t, area) ==
    /\ t = [s EXCEPT !.res = "check_vma_overlap"]
    /\ \E i \in DOMAIN s.mm.vmas : Overlap(s.mm.vmas[i], area)

LEMMA InsertStruct ==
    ASSUME NEW s, NEW R, NEW U, Sound(s, R, U), HasMm(s), Ok(s), Tidy(s.mm.vmas),
           NEW area \in Area, NEW t, t = insert_vma_struct(s, area)
    PROVE  Inserted(s, t, R, U, area) \/ Overlapped(s, t, area)
<1>1. s \in State /\ R \subseteq Page /\ U \subseteq R
  BY DEF Sound
<1>2. PICK m \in Space : m = s.mm
  BY <1>1 DEF State
<1>3. m.vmas \in Seq(Area) /\ Tidy(m.vmas)
  BY <1>2 DEF Space
<1>4. PICK later : later = {i \in DOMAIN m.vmas : area[1] < m.vmas[i][1]}
  OBVIOUS
<1>5. PICK h : h = IF later = {} THEN Len(m.vmas) + 1 ELSE Min(later)
  OBVIOUS
<1>6. /\ Fits(m.vmas, h, area) => HasToo(InsertAt(m.vmas, h, area), m.vmas, area)
      /\ ~Fits(m.vmas, h, area) => \E i \in DOMAIN m.vmas : Overlap(m.vmas[i], area)
  <2>1. Place(m.vmas, h, area)
    BY <1>3, <1>4, <1>5, PlaceFound
  <2> QED BY <1>3, <2>1, InsertVma
<1>7. PICK l : l = InsertAt(m.vmas, h, area)
  OBVIOUS
<1>8. area[1] < area[2]
  BY AreaFacts
<1>9. t = IF area[1] < area[2] /\ Fits(m.vmas, h, area)
          THEN [s EXCEPT !.mm.vmas = l] ELSE [s EXCEPT !.res = "check_vma_overlap"]
  <2>1. t = IF /\ area[1] < area[2]
               /\ h > 1 => check_vma_overlap(m.vmas[h - 1], area)
               /\ h <= Len(m.vmas) => check_vma_overlap(area, m.vmas[h])
            THEN [s EXCEPT !.mm.vmas = InsertAt(m.vmas, h, area)]
            ELSE [s EXCEPT !.res = "check_vma_overlap"]
    BY <1>2, <1>4, <1>5 DEF insert_vma_struct
  <2> QED BY <1>7, <2>1 DEF Fits
<1>10. CASE ~Fits(m.vmas, h, area)
  BY <1>2, <1>6, <1>9, <1>10 DEF Overlapped
<1>11. CASE Fits(m.vmas, h, area)
  <2>1. HasToo(l, m.vmas, area)
    BY <1>6, <1>7, <1>11
  <2>2. l \in Seq(Area) /\ \A k \in DOMAIN m.vmas : \E j \in DOMAIN l : l[j] = m.vmas[k]
    BY <2>1 DEF HasToo
  <2>3. PICK n : n = [m EXCEPT !.vmas = l]
    OBVIOUS
  <2>4. n \in Space /\ n.pgdir = m.pgdir /\ n.pde = m.pde /\ n.pte = m.pte /\ n.vmas = l
    BY <2>2, <2>3 DEF Space
  <2>5. t = [s EXCEPT !.mm = n]
    BY <1>1, <1>2, <1>8, <1>9, <1>11, <2>3 DEF State, Space
  <2>6. /\ t \in State /\ t.mm = n
        /\ t.free_list = s.free_list /\ t.PageProperty = s.PageProperty
        /\ t.nr_free = s.nr_free /\ t.ref = s.ref /\ t.page = s.page /\ t.res = s.res
        /\ t.args = s.args
    BY <1>1, <2>4, <2>5, WithMm
  <2>7. \A va \in Va : Mapped(m, va) => Mapped(n, va)
    BY <2>2, <2>4 DEF Mapped
  <2>8. MmView(n) = MmView(m)
    BY <2>4 DEF MmView, MmAt
  <2>9. /\ ListSound(s) /\ FreePages(s) = Page \ (R \cup Held(m))
        /\ R \cap Held(m) = {}
        /\ Apart(MmView(m)) /\ \A q \in FreePages(s) : s.ref[q] = 0
        /\ \A q \in U : s.ref[q] = 1
        /\ MmOk(m, s.ref)
    BY <1>2 DEF Sound
  <2>10. Held(n) = Held(m) /\ Apart(MmView(n))
    BY <2>8, <2>9 DEF Held
  <2>11. FreePages(t) = FreePages(s) /\ ListSound(t)
    BY <2>6, <2>9, SameList
  <2>12. n.pgdir # NULL
    BY <1>2, <2>4 DEF HasMm
  <2>13. MmOk(n, t.ref)
    <3>1. \A va \in Va : n.pte[va] # NULL =>
             n.pde[Pdx(va)] # NULL /\ t.ref[n.pte[va]] = 1 /\ Mapped(n, va)
      BY <2>4, <2>6, <2>7, <2>9 DEF MmOk
    <3>2. \A i \in Pdxs : n.pde[i] # NULL => \E va \in Va : Pdx(va) = i /\ Mapped(n, va)
      BY <2>4, <2>7, <2>9 DEF MmOk
    <3> QED BY <2>12, <3>1, <3>2 DEF MmOk
  <2>14. Sound(t, R, U)
    BY <1>1, <2>6, <2>9, <2>10, <2>11, <2>13 DEF Sound
  <2>15. Ok(t) /\ t.args = s.args /\ t.mm.pgdir # NULL
    BY <2>6, <2>12 DEF Ok
  <2> QED BY <1>2, <2>1, <2>4, <2>6, <2>14, <2>15 DEF Inserted
<1> QED BY <1>10, <1>11

\* The new area is mapped.
LEMMA NowMapped ==
    ASSUME NEW m, NEW vmas, NEW area, HasToo(m.vmas, vmas, area), NEW va, InArea(area, va)
    PROVE  Mapped(m, va)
BY DEF HasToo, Mapped, InArea

\* What may be mapped stays so as long as the areas do.
LEMMA StaysMapped ==
    ASSUME NEW s, NEW t, SameMm(s, t), HasMm(s), NEW va, Ok(s) => Mapped(s.mm, va)
    PROVE  HasMm(t) /\ (Ok(t) => Mapped(t.mm, va) /\ t.mm.pgdir # NULL)
BY DEF SameMm, Same, HasMm, Mapped

LEMMA SameMmTwice ==
    ASSUME NEW s, NEW t, NEW u, SameMm(s, t), SameMm(t, u) PROVE SameMm(s, u)
BY DEF SameMm, Same

\* copy_range, page by page.
LEMMA CopyPageSound ==
    ASSUME NEW s, NEW R, NEW U, Sound(s, R, U), HasMm(s), NEW m, NEW va \in Va,
           Ok(s) => Mapped(s.mm, va), NEW w, w = copy_page(s, <<m, va>>)
    PROVE  Sound(w, R, U) /\ SameMm(s, w)
<1>1. PICK t : t = get_pte(s, va)
  OBVIOUS
<1>2. Sound(t, R, U) /\ SameMm(s, t)
  <2>1. Ok(s) => Mapped(s.mm, va) /\ s.mm.pgdir # NULL
    BY DEF HasMm
  <2> QED BY <1>1, <2>1, GetPteSound
<1>3. PICK u : u = alloc_page(t)
  OBVIOUS
<1>4. Allocs(t, R, U, u)
  BY <1>2, <1>3, AllocSound
<1>5. w = IF m.pte[va] = NULL THEN s ELSE IF Ok(u) THEN page_insert(u, u.page, va) ELSE u
  BY <1>1, <1>3 DEF copy_page
<1>6. CASE m.pte[va] = NULL
  BY <1>5, <1>6 DEF SameMm, Same
<1>7. CASE m.pte[va] # NULL /\ ~Ok(u)
  <2>1. w = u
    BY <1>5, <1>7
  <2> QED BY <1>2, <1>4, <1>7, <2>1 DEF Allocs, SameMm, Same
<1>8. CASE m.pte[va] # NULL /\ Ok(u)
  <2>1. PICK b : b = u.page
    OBVIOUS
  <2>2. w = page_insert(u, b, va)
    BY <1>5, <1>8, <2>1
  <2>3. /\ b \in Page /\ b \notin R /\ Sound(u, R \cup {b}, U) /\ u.ref[b] = 0
        /\ SameMm(t, u)
    BY <1>4, <1>8, <2>1 DEF Allocs, SameMm
  <2>4. U \subseteq R
    BY DEF Sound
  <2>5. SameMm(s, u)
    BY <1>2, <2>3, SameMmTwice
  <2>6. Ok(u) => Mapped(u.mm, va) /\ u.mm.pgdir # NULL
    BY <2>5, StaysMapped
  <2>7. Sound(w, R, U) /\ SameMm(u, w)
    BY ONLY <2>2, <2>3, <2>4, <2>6, va \in Va, InsertSound
  <2> QED BY <2>5, <2>7, SameMmTwice
<1> QED BY <1>6, <1>7, <1>8

LEMMA FromFacts ==
    ASSUME NEW X, NEW xs \in Seq(X), NEW m
    PROVE  /\ Len(From(m, xs)) = Len(xs) /\ Len(xs) \in Nat
           /\ \A k \in 1 .. Len(xs) : From(m, xs)[k] = <<m, xs[k]>> /\ xs[k] \in X
<1>1. Len(xs) \in Nat /\ DOMAIN xs = 1 .. Len(xs) /\ \A k \in 1 .. Len(xs) : xs[k] \in X
  BY LenProperties, ElementOfSeq
<1>2. PICK f : f = From(m, xs)
  OBVIOUS
<1>3. f = [k \in 1 .. Len(xs) |-> <<m, xs[k]>>]
  BY <1>1, <1>2 DEF From
<1>4. f \in Seq({m} \X X)
  BY <1>1, <1>3, IsASeq
<1>5. Len(f) = Len(xs)
  BY <1>1, <1>3, <1>4, LenProperties
<1> QED BY <1>1, <1>2, <1>3, <1>5

LEMMA CopyRangeSound ==
    ASSUME NEW s, NEW R, NEW U, Sound(s, R, U), HasMm(s), NEW m, NEW area \in Area,
           Ok(s) => \A va \in Va : InArea(area, va) => Mapped(s.mm, va),
           NEW t, t = copy_range(s, m, area)
    PROVE  Sound(t, R, U) /\ SameMm(s, t)
<1>1. PICK ps, xs : ps = PagesIn(area) /\ xs = From(m, PagesIn(area))
  OBVIOUS
<1>2. /\ Len(ps) \in Nat /\ Len(xs) = Len(ps)
      /\ \A k \in 1 .. Len(xs) : ps[k] \in Va /\ InArea(area, ps[k]) /\ xs[k] = <<m, ps[k]>>
  BY <1>1, PagesInFacts, FromFacts
<1> DEFINE P(u) == Sound(u, R, U) /\ SameMm(s, u)
<1>3. PICK Good : Good = [k \in 0 .. Len(xs) |-> {u \in State : P(u)}]
  OBVIOUS
<1>4. s \in Good[0]
  <2>1. s \in State /\ 0 \in 0 .. Len(xs)
    BY <1>2 DEF Sound
  <2>2. P(s)
    BY DEF SameMm, Same
  <2> HIDE DEF P
  <2> QED BY <1>3, <2>1, <2>2
<1>5. ASSUME NEW k \in 1 .. Len(xs), NEW u \in Good[k - 1]
      PROVE  copy_page(u, xs[k]) \in Good[k]
  <2>1. k - 1 \in 0 .. Len(xs) /\ k \in 0 .. Len(xs)
    BY <1>2
  <2>2. P(u)
    <3> HIDE DEF P
    <3> QED BY <1>3, <2>1
  <2>3. PICK va \in Va : va = ps[k] /\ InArea(area, va) /\ xs[k] = <<m, va>>
    BY <1>2
  <2>4. PICK v : v = copy_page(u, <<m, va>>)
    OBVIOUS
  <2>5. HasMm(u) /\ (Ok(u) => Mapped(u.mm, va))
    BY <2>2, <2>3, StaysMapped
  <2>6. Sound(v, R, U) /\ SameMm(u, v)
    BY ONLY P(u), <2>4, <2>5, va \in Va, CopyPageSound
  <2>7. P(v) /\ v \in State
    BY <2>2, <2>6, SameMmTwice DEF Sound
  <2> HIDE DEF P
  <2> QED BY <1>3, <2>1, <2>3, <2>4, <2>7
<1>6. t = CopiesPages!Loop(s, xs)
  BY <1>1, Zenon DEF copy_range, Each, CopiesPages!Loop
<1>7. t \in Good[Len(xs)]
  BY <1>2, <1>4, <1>5, <1>6, CopiesPages!LoopKeeps
<1> HIDE DEF P
<1>8. P(t)
  BY <1>2, <1>3, <1>7
<1> QED BY <1>8 DEF P

-----------------------------------------------------------------------------
(***************************************************************************)
(* The address spaces of fork and of exec.                                 *)
(***************************************************************************)
LEMMA ReverseFacts ==
    ASSUME NEW X, NEW xs \in Seq(X)
    PROVE  /\ Reverse(xs) \in Seq(X)
           /\ Len(Reverse(xs)) = Len(xs)
           /\ \A k \in 1 .. Len(xs) : Reverse(xs)[k] = xs[Len(xs) - k + 1]
<1>1. Len(xs) \in Nat /\ \A k \in 1 .. Len(xs) : xs[k] \in X
  BY LenProperties, ElementOfSeq
<1>2. PICK n \in Nat : n = Len(xs)
  BY <1>1
<1>3. \A k \in 1 .. n : n - k + 1 \in 1 .. n
  BY <1>2
<1>4. PICK f : f = [k \in 1 .. n |-> xs[n - k + 1]]
  OBVIOUS
<1>5. \A k \in 1 .. n : f[k] = xs[n - k + 1] /\ f[k] \in X
  BY <1>1, <1>2, <1>3, <1>4
<1>6. f \in Seq(X)
  BY <1>2, <1>4, <1>5, IsASeq
<1>7. Len(f) = n
  BY <1>2, <1>4, <1>6, LenProperties
<1>8. Reverse(xs) = f
  BY <1>2, <1>4 DEF Reverse
<1> QED BY <1>2, <1>5, <1>6, <1>7, <1>8

LEMMA InitialFacts ==
    ASSUME NEW X, NEW xs \in Seq(X), NEW n \in 0 .. Len(xs)
    PROVE  /\ n \in Nat /\ Len(SubSeq(xs, 1, n)) = n
           /\ \A k \in 1 .. n : SubSeq(xs, 1, n)[k] = xs[k] /\ xs[k] \in X
<1>1. Len(xs) \in Nat /\ \A k \in 1 .. Len(xs) : xs[k] \in X
  BY LenProperties, ElementOfSeq
<1>2. \A i \in 1 .. n : xs[i] \in X
  BY <1>1
<1>3. /\ Len(SubSeq(xs, 1, n)) = IF 1 <= n THEN n - 1 + 1 ELSE 0
      /\ \A i \in 1 .. n - 1 + 1 : SubSeq(xs, 1, n)[i] = xs[1 + i - 1]
  BY <1>1, <1>2, SubSeqProperties
<1> QED BY <1>1, <1>2, <1>3

\* An area of the parent that touches none of those the child has.
LEMMA CopyAreaSound ==
    ASSUME NEW s, NEW R, NEW U, Sound(s, R, U), HasMm(s), NEW m, NEW area \in Area,
           Ok(s) => /\ Tidy(s.mm.vmas)
                    /\ \A i \in DOMAIN s.mm.vmas : ~Overlap(s.mm.vmas[i], area),
           NEW w, w = copy_area(s, <<m, area>>)
    PROVE  /\ Sound(w, R, U) /\ Same(s, w) /\ HasMm(w)
           /\ Ok(w) => HasToo(w.mm.vmas, s.mm.vmas, area)
<1>1. PICK t : t = insert_vma_struct(s, area)
  OBVIOUS
<1>2. w = copy_range(t, m, area)
  BY <1>1 DEF copy_area
<1>3. CASE ~Ok(s)
  <2>1. t = s
    BY <1>1, <1>3 DEF insert_vma_struct
  <2>2. Sound(w, R, U) /\ SameMm(s, w)
    BY <1>2, <1>3, <2>1, CopyRangeSound
  <2> QED BY <1>3, <2>2 DEF SameMm, Same, HasMm
<1>4. CASE Ok(s)
  <2>1. Inserted(s, t, R, U, area)
    BY <1>1, <1>4, InsertStruct DEF Overlapped
  <2>2. /\ Sound(t, R, U) /\ Ok(t) /\ t.args = s.args /\ t.mm.pgdir # NULL
        /\ HasToo(t.mm.vmas, s.mm.vmas, area)
    BY <2>1 DEF Inserted
  <2>3. \A va \in Va : InArea(area, va) => Mapped(t.mm, va)
    BY <2>2, NowMapped
  <2>4. HasMm(t)
    BY <2>2 DEF HasMm
  <2>5. Sound(w, R, U) /\ SameMm(t, w)
    BY <1>2, <2>2, <2>3, <2>4, CopyRangeSound
  <2> QED BY <1>4, <2>2, <2>5 DEF SameMm, Same, HasMm, Ok
<1> QED BY <1>3, <1>4

\* dup_mmap: the areas of the parent are apart, so no assertion about them fails.
LEMMA DupMmapSound ==
    ASSUME NEW s, NEW R, NEW U, Sound(s, R, U), HasMm(s), Ok(s) => s.mm.vmas = << >>,
           NEW m \in Space, Tidy(m.vmas), NEW t, t = dup_mmap(s, m)
    PROVE  Sound(t, R, U) /\ Same(s, t) /\ (Ok(t) => Tidy(t.mm.vmas))
<1>1. PICK areas, xs : areas = Reverse(m.vmas) /\ xs = From(m, Reverse(m.vmas))
  OBVIOUS
<1>2. PICK v \in Seq(Area) : v = m.vmas
  BY DEF Space
<1>3. PICK n \in Nat : n = Len(v) /\ DOMAIN v = 1 .. n
  BY LenProperties
<1>4. /\ areas \in Seq(Area) /\ Len(areas) = n
      /\ \A k \in 1 .. n : areas[k] = v[n - k + 1]
  BY <1>1, <1>2, <1>3, ReverseFacts
<1>5. /\ Len(xs) = n
      /\ \A k \in 1 .. n : areas[k] \in Area /\ xs[k] = <<m, areas[k]>>
  BY <1>1, <1>4, FromFacts
<1> DEFINE Known(u, k) == /\ Tidy(u.mm.vmas)
                          /\ \A i \in DOMAIN u.mm.vmas :
                               \E j \in n - k + 1 .. n : u.mm.vmas[i] = v[j]
           P(u, k) == /\ Sound(u, R, U) /\ Same(s, u) /\ HasMm(u)
                      /\ Ok(u) => Known(u, k)
<1>6. PICK Good : Good = [k \in 0 .. n |-> {u \in State : P(u, k)}]
  OBVIOUS
<1>7. s \in Good[0]
  <2>1. s \in State /\ 0 \in 0 .. n
    BY DEF Sound
  <2>2. Ok(s) => Known(s, 0)
    BY DEF Tidy
  <2>3. P(s, 0)
    BY <2>2 DEF Same
  <2> HIDE DEF P
  <2> QED BY <1>6, <2>1, <2>3
<1>8. ASSUME NEW k \in 1 .. n, NEW u \in Good[k - 1]
      PROVE  copy_area(u, xs[k]) \in Good[k]
  <2>1. k - 1 \in 0 .. n /\ k \in 0 .. n
    OBVIOUS
  <2>2. P(u, k - 1)
    <3> HIDE DEF P
    <3> QED BY <1>6, <2>1
  <2>3. PICK h \in 1 .. n : h = n - k + 1
    OBVIOUS
  <2>4. PICK area \in Area : xs[k] = <<m, area>> /\ area = v[h]
    BY <1>4, <1>5, <2>3
  <2>5. PICK w : w = copy_area(u, <<m, area>>)
    OBVIOUS
  <2>6. ASSUME Ok(u), NEW i \in DOMAIN u.mm.vmas PROVE ~Overlap(u.mm.vmas[i], area)
    <3>1. PICK j \in n - (k - 1) + 1 .. n : u.mm.vmas[i] = v[j]
      BY <2>2, <2>6
    <3>2. j \in 1 .. n /\ h < j
      BY <2>3
    <3>3. area[2] <= v[j][1]
      BY <1>2, <1>3, <2>4, <3>2 DEF Tidy
    <3>4. v[j] \in Area
      BY <1>3, <3>2, ElementOfSeq
    <3> QED BY <3>1, <3>3, <3>4, AreaFacts DEF Overlap
  <2>7. /\ Sound(u, R, U) /\ HasMm(u)
        /\ Ok(u) => /\ Tidy(u.mm.vmas)
                    /\ \A i \in DOMAIN u.mm.vmas : ~Overlap(u.mm.vmas[i], area)
    BY <2>2, <2>6
  <2>8. /\ Sound(w, R, U) /\ Same(u, w) /\ HasMm(w)
        /\ Ok(w) => HasToo(w.mm.vmas, u.mm.vmas, area)
    BY ONLY <2>5, <2>7, area \in Area, CopyAreaSound
  <2>9. ASSUME Ok(w) PROVE Known(w, k)
    <3>1. Ok(u)
      BY <2>8, <2>9 DEF Same
    <3>2. /\ Tidy(w.mm.vmas)
          /\ \A i \in DOMAIN w.mm.vmas :
               \/ w.mm.vmas[i] = area
               \/ \E e \in DOMAIN u.mm.vmas : w.mm.vmas[i] = u.mm.vmas[e]
      BY <2>8, <2>9 DEF HasToo
    <3>3. h \in n - k + 1 .. n /\ \A j \in n - (k - 1) + 1 .. n : j \in n - k + 1 .. n
      BY <2>3
    <3>4. \A e \in DOMAIN u.mm.vmas : \E j \in n - (k - 1) + 1 .. n : u.mm.vmas[e] = v[j]
      BY <2>2, <3>1
    <3>5. ASSUME NEW i \in DOMAIN w.mm.vmas
          PROVE  \E j \in n - k + 1 .. n : w.mm.vmas[i] = v[j]
      <4>1. CASE w.mm.vmas[i] = area
        BY <2>4, <3>3, <4>1
      <4>2. CASE \E e \in DOMAIN u.mm.vmas : w.mm.vmas[i] = u.mm.vmas[e]
        BY <3>3, <3>4, <4>2
      <4> QED BY <3>2, <4>1, <4>2
    <3> QED BY <3>2, <3>5
  <2>10. Same(s, w)
    BY <2>2, <2>8 DEF Same
  <2>11. P(w, k) /\ w \in State
    <3> HIDE DEF Known
    <3> QED BY <2>8, <2>9, <2>10 DEF Sound
  <2> HIDE DEF P
  <2> QED BY <1>6, <2>1, <2>4, <2>5, <2>11
<1>9. t = CopiesAreas!Loop(s, xs)
  BY <1>1, Zenon DEF dup_mmap, Each, CopiesAreas!Loop
<1>10. t \in Good[n]
  <2>1. t \in Good[Len(xs)]
    <3>1. Len(xs) \in Nat
      BY <1>5
    <3> QED BY <1>5, <1>7, <1>8, <1>9, <3>1, CopiesAreas!LoopKeeps
  <2> QED BY <1>5, <2>1
<1>11. P(t, n)
  <2> HIDE DEF P
  <2> QED BY <1>6, <1>10
<1> QED BY <1>11

LEMMA LoadPageSound ==
    ASSUME NEW s, NEW R, NEW U, Sound(s, R, U), HasMm(s), NEW va \in Va,
           Ok(s) => Mapped(s.mm, va), NEW w, w = load_page(s, va)
    PROVE  Sound(w, R, U) /\ SameMm(s, w)
<1>1. PICK t : t = pgdir_alloc_page(s, va)
  OBVIOUS
<1>2. Ok(s) => Mapped(s.mm, va) /\ s.mm.pgdir # NULL
  BY DEF HasMm
<1>3. Sound(t, R, U) /\ SameMm(s, t)
  BY <1>1, <1>2, PgdirAllocSound
<1>4. w = Borrow(t)
  BY <1>1 DEF load_page
<1>5. Sound(w, R, U) /\ SameMm(t, w)
  BY <1>3, <1>4, BorrowSound
<1> QED BY <1>3, <1>5, SameMmTwice

\* A segment may be anywhere.
Segment == Int \X Int

LEMMA PagesAnywhere ==
    ASSUME NEW seg \in Segment
    PROVE  /\ PagesIn(seg) \in Seq(Int) /\ Len(PagesIn(seg)) \in Nat
           /\ seg[1] < seg[2] => Len(PagesIn(seg)) = seg[2] - seg[1]
<1>1. PICK a \in Int, b \in Int : a = seg[1] /\ b = seg[2]
  BY DEF Segment
<1>2. PICK n \in Nat : 1 .. b - a = 1 .. n /\ (a < b => n = b - a)
  <2>1. CASE a < b
    BY <2>1
  <2>2. CASE ~(a < b)
    <3>1. 1 .. b - a = 1 .. 0
      BY <2>2
    <3> QED BY <2>2, <3>1
  <2> QED BY <2>1, <2>2
<1>3. PICK f : f = [i \in 1 .. n |-> a + i - 1]
  OBVIOUS
<1>4. PagesIn(seg) = f
  BY <1>1, <1>2, <1>3 DEF PagesIn
<1>5. \A i \in 1 .. n : a + i - 1 \in Int
  OBVIOUS
<1>6. f \in Seq(Int)
  BY <1>3, <1>5, IsASeq
<1>7. Len(f) = n
  BY <1>3, <1>6, LenProperties
<1> QED BY <1>1, <1>2, <1>4, <1>6, <1>7

\* The areas of an executable, the stack behind the segments.
LEMMA ProgramFacts ==
    ASSUME NEW prog \in Programs, NEW A, A = Append(prog, Stack)
    PROVE  /\ prog \in Seq(Segment) /\ Len(prog) \in Nat /\ DOMAIN prog = 1 .. Len(prog)
           /\ A \in Seq(Segment) /\ Len(A) = Len(prog) + 1 /\ A[Len(prog) + 1] = Stack
           /\ \A k \in 1 .. Len(prog) : A[k] = prog[k] /\ prog[k] \in Segment
<1>1. prog \in Seq(Segment)
  BY MemoryAssumption DEF Segment
<1>2. Stack \in Segment
  BY MemoryAssumption DEF Segment, Va
<1> QED BY <1>1, <1>2, AppendProperties, LenProperties, ElementOfSeq

\* Where load_icode fails is in the program.
LEMMA StopFacts ==
    ASSUME NEW prog \in Programs, NEW stop \in Stops(prog)
    PROVE  /\ stop[1] \in 0 .. Len(prog)
           /\ stop[2] # 0 =>
                stop[1] + 1 \in 1 .. Len(prog) /\ stop[2] \in 0 .. Len(PagesIn(prog[stop[1] + 1]))
<1>1. /\ Len(prog) \in Nat /\ DOMAIN prog = 1 .. Len(prog)
      /\ \A k \in 1 .. Len(prog) : prog[k] \in Segment
  BY ProgramFacts
<1>2. CASE \E i \in 0 .. Len(prog) : stop = <<i, 0>>
  BY <1>2
<1>3. CASE \E i \in DOMAIN prog :
             \E n \in 1 .. prog[i][2] - prog[i][1] - 1 : stop = <<i - 1, n>>
  <2>1. PICK i \in 1 .. Len(prog) :
          \E n \in 1 .. prog[i][2] - prog[i][1] - 1 : stop = <<i - 1, n>>
    BY <1>1, <1>3
  <2>2. PICK seg \in Segment : seg = prog[i]
    BY <1>1
  <2>3. PICK a \in Int, b \in Int : a = seg[1] /\ b = seg[2]
    BY DEF Segment
  <2>4. PICK n \in 1 .. b - a - 1 : stop = <<i - 1, n>>
    BY <2>1, <2>2, <2>3
  <2>5. a < b /\ n \in 0 .. b - a
    OBVIOUS
  <2>6. Len(PagesIn(seg)) = b - a
    BY <2>3, <2>5, PagesAnywhere
  <2>7. stop[1] = i - 1 /\ stop[2] = n /\ stop[1] + 1 = i
    BY <1>1, <2>4
  <2> QED BY <1>1, <2>2, <2>5, <2>6, <2>7
<1>4. \/ \E i \in 0 .. Len(prog) : stop = <<i, 0>>
      \/ \E i \in DOMAIN prog :
           \E n \in 1 .. prog[i][2] - prog[i][1] - 1 : stop = <<i - 1, n>>
  BY Zenon DEF Stops
<1> QED BY <1>2, <1>3, <1>4

\* Two of the areas A cross, as Crosses says.
CrossesIn(A) ==
    \E i, j \in DOMAIN A : i < j /\ A[j][1] < A[i][1] /\ A[i][1] < A[j][2]

\* The areas that are mapped are some of the first k of A.
Loaded(t, A, k) ==
    /\ Tidy(t.mm.vmas)
    /\ \A e \in DOMAIN t.mm.vmas : \E i \in 1 .. k : t.mm.vmas[e] = A[i]

\* Where load_icode may be when it began in o and has seen the first k areas of A: it can
\* go on or give up, and if an assertion about areas has failed since, two of them cross.
Loading(o, t, R, U, A, k) ==
    /\ Sound(t, R, U) /\ Sound(GivesUp(t), R, U)
    /\ t.args = o.args /\ HasMm(t)
    /\ Ok(t) => Loaded(t, A, k)
    /\ t.res = "check_vma_overlap" => CrossesIn(A) \/ o.res = "check_vma_overlap"

\* Once the kernel has stopped, or mm_map has refused, nothing more is done.
LEMMA NothingMore ==
    ASSUME NEW s, ~Ok(s), NEW va, NEW seg
    PROVE  pgdir_alloc_page(s, va) = s /\ load_page(s, va) = s /\ mm_map(s, seg) = s
<1>1. alloc_page(s) = s
  BY DEF Ok, alloc_page, alloc_pages
<1>2. pgdir_alloc_page(s, va) = s
  BY <1>1 DEF pgdir_alloc_page
<1>3. load_page(s, va) = s
  BY <1>1, <1>2 DEF load_page, Borrow
<1>4. mm_map(s, seg) = s
  BY DEF mm_map, insert_vma_struct
<1> QED BY <1>2, <1>3, <1>4

\* mm_map of the next area.
LEMMA MapSound ==
    ASSUME NEW o, NEW s, NEW R, NEW U, NEW A \in Seq(Segment), NEW k \in 1 .. Len(A),
           Loading(o, s, R, U, A, k - 1), NEW r, r = mm_map(s, A[k])
    PROVE  /\ Loading(o, r, R, U, A, k)
           /\ Ok(r) => /\ A[k] \in Area
                       /\ \A va \in Va : InArea(A[k], va) => Mapped(r.mm, va)
<1>1. PICK n \in Nat : n = Len(A) /\ DOMAIN A = 1 .. n
  BY LenProperties
<1>2. PICK seg \in Segment : seg = A[k]
  BY <1>1, ElementOfSeq
<1>3. /\ Sound(s, R, U) /\ Sound(GivesUp(s), R, U)
      /\ s.args = o.args /\ HasMm(s)
      /\ Ok(s) => Loaded(s, A, k - 1)
      /\ s.res = "check_vma_overlap" => CrossesIn(A) \/ o.res = "check_vma_overlap"
  BY DEF Loading
<1>4. s \in State /\ R \subseteq Page /\ U \subseteq R
  BY <1>3 DEF Sound
<1>5. CASE ~Ok(s)
  <2>1. r = s
    BY <1>2, <1>5, NothingMore
  <2> QED BY <1>3, <1>5, <2>1 DEF Loading
<1>6. CASE Ok(s) /\ (~USER_ACCESS(seg) \/ find_vma(s.mm.vmas, seg[1]) # {})
  <2>1. r = [s EXCEPT !.res = "-E_INVAL"]
    BY <1>2, <1>6 DEF mm_map
  <2>2. /\ r \in State /\ r.res = "-E_INVAL" /\ r.args = s.args
        /\ s.res = "ok" => [r EXCEPT !.res = "ok"] = s
    <3>1. PICK e \in Results : e = "-E_INVAL"
      BY DEF Results
    <3>2. r = [s EXCEPT !.res = e]
      BY <2>1, <3>1
    <3>3. /\ r \in State /\ r.res = e /\ r.args = s.args
          /\ s.res = "ok" => [r EXCEPT !.res = "ok"] = s
      BY <1>4, <3>2 DEF State
    <3> QED BY <3>1, <3>3
  <2>3. ~Ok(r) /\ GivesUp(r) = s
    BY <1>6, <2>2 DEF Ok, GivesUp
  <2>4. Sound(r, R, U)
    BY <1>4, <2>2, <2>3, SoundStopped
  <2> QED BY <1>3, <2>2, <2>3, <2>4 DEF Loading, HasMm
<1>7. CASE Ok(s) /\ USER_ACCESS(seg) /\ find_vma(s.mm.vmas, seg[1]) = {}
  <2>1. r = insert_vma_struct(s, seg)
    BY <1>2, <1>7 DEF mm_map
  <2>2. PICK a \in Int, b \in Int : a = seg[1] /\ b = seg[2] /\ seg = <<a, b>>
    BY DEF Segment
  <2>3. seg \in Area
    BY <1>7, <2>2, MemoryAssumption DEF USER_ACCESS, Area, Va
  <2>4. Tidy(s.mm.vmas) /\ \A e \in DOMAIN s.mm.vmas : \E i \in 1 .. k - 1 : s.mm.vmas[e] = A[i]
    BY <1>3, <1>7 DEF Loaded
  <2>5. Inserted(s, r, R, U, seg) \/ Overlapped(s, r, seg)
    BY <1>3, <1>7, <2>1, <2>3, <2>4, InsertStruct
  <2>6. CASE Inserted(s, r, R, U, seg)
    <3>1. /\ Sound(r, R, U) /\ Ok(r) /\ r.args = s.args /\ r.mm.pgdir # NULL
          /\ HasToo(r.mm.vmas, s.mm.vmas, seg)
      BY <2>6 DEF Inserted
    <3>2. /\ Tidy(r.mm.vmas)
          /\ \A e \in DOMAIN r.mm.vmas :
               \/ r.mm.vmas[e] = seg
               \/ \E i \in DOMAIN s.mm.vmas : r.mm.vmas[e] = s.mm.vmas[i]
      BY <3>1 DEF HasToo
    <3>3. k \in 1 .. k /\ \A i \in 1 .. k - 1 : i \in 1 .. k
      BY <1>1
    <3>4. ASSUME NEW e \in DOMAIN r.mm.vmas PROVE \E i \in 1 .. k : r.mm.vmas[e] = A[i]
      <4>1. CASE r.mm.vmas[e] = seg
        BY <1>2, <3>3, <4>1
      <4>2. CASE \E i \in DOMAIN s.mm.vmas : r.mm.vmas[e] = s.mm.vmas[i]
        BY <2>4, <3>3, <4>2
      <4> QED BY <3>2, <4>1, <4>2
    <3>5. Loaded(r, A, k)
      BY <3>2, <3>4 DEF Loaded
    <3>6. GivesUp(r) = r /\ HasMm(r) /\ r.res # "check_vma_overlap"
      BY <3>1 DEF GivesUp, Ok, HasMm
    <3>7. \A va \in Va : InArea(seg, va) => Mapped(r.mm, va)
      BY <3>1, NowMapped
    <3>8. Loading(o, r, R, U, A, k)
      BY <1>3, <3>1, <3>5, <3>6 DEF Loading
    <3> QED BY <1>2, <2>3, <3>7, <3>8
  <2>7. CASE Overlapped(s, r, seg)
    <3>1. r = [s EXCEPT !.res = "check_vma_overlap"]
      BY <2>7 DEF Overlapped
    <3>2. r \in State /\ r.res = "check_vma_overlap" /\ r.args = s.args
      <4>1. PICK e \in Results : e = "check_vma_overlap"
        BY DEF Results
      <4>2. r = [s EXCEPT !.res = e]
        BY <3>1, <4>1
      <4>3. r \in State /\ r.res = e /\ r.args = s.args
        BY <1>4, <4>2 DEF State
      <4> QED BY <4>1, <4>3
    <3>3. ~Ok(r) /\ GivesUp(r) = r
      BY <3>2 DEF Ok, GivesUp
    <3>4. Sound(r, R, U)
      BY <1>4, <3>2, <3>3, SoundStopped
    <3>5. CrossesIn(A)
      <4>1. PICK e \in DOMAIN s.mm.vmas : Overlap(s.mm.vmas[e], seg)
        BY <2>7 DEF Overlapped
      <4>2. s.mm.vmas \in Seq(Area)
        BY <1>4 DEF State, Space
      <4>3. s.mm.vmas[e] \in Area
        BY <4>1, <4>2, LenProperties, ElementOfSeq
      <4>4. PICK v \in Area : v = s.mm.vmas[e]
        BY <4>3
      <4>5. v[1] \in Nat /\ v[2] \in Nat
        BY AreaFacts
      <4>6. v[1] < b /\ a < v[2]
        BY <2>2, <4>1, <4>4 DEF Overlap
      <4>7. ~(v[1] <= a /\ a < v[2])
        BY <1>7, <2>2, <4>4 DEF find_vma
      <4>8. a < v[1]
        BY <4>5, <4>6, <4>7
      <4>9. PICK i \in 1 .. k - 1 : v = A[i]
        BY <2>4, <4>4
      <4>10. i \in DOMAIN A /\ k \in DOMAIN A /\ i < k
        BY <1>1
      <4>11. A[k][1] < A[i][1] /\ A[i][1] < A[k][2]
        BY <1>2, <2>2, <4>6, <4>8, <4>9
      <4> QED BY <4>10, <4>11 DEF CrossesIn
    <3> QED BY <1>3, <3>2, <3>3, <3>4, <3>5 DEF Loading, HasMm
  <2> QED BY <2>5, <2>6, <2>7
<1> QED BY <1>5, <1>6, <1>7

\* The pages of an area that has been mapped; if it has not, nothing.
Onward(r, t, R, U) == IF Ok(r) THEN Sound(t, R, U) /\ SameMm(r, t) ELSE t = r

LEMMA LoadsOn ==
    ASSUME NEW o, NEW r, NEW R, NEW U, NEW A, NEW k, Loading(o, r, R, U, A, k),
           NEW t, Onward(r, t, R, U)
    PROVE  Loading(o, t, R, U, A, k)
<1>1. CASE ~Ok(r)
  BY <1>1 DEF Onward
<1>2. CASE Ok(r)
  <2>1. Sound(t, R, U) /\ SameMm(r, t)
    BY <1>2 DEF Onward
  <2>2. /\ r.args = o.args /\ HasMm(r) /\ Loaded(r, A, k) /\ r.res = "ok"
    BY <1>2 DEF Loading, Ok
  <2>3. /\ t.args = r.args /\ t.res \in {"ok", "swap_out(NULL)"}
        /\ t.mm.vmas = r.mm.vmas /\ t.mm.pgdir = r.mm.pgdir
    BY <2>1, <2>2 DEF SameMm, Same
  <2>4. GivesUp(t) = t
    BY <2>3 DEF GivesUp
  <2>5. HasMm(t) /\ Loaded(t, A, k)
    BY <1>2, <2>2, <2>3 DEF HasMm, Loaded
  <2> QED BY <2>1, <2>2, <2>3, <2>4, <2>5 DEF Loading
<1> QED BY <1>1, <1>2

LEMMA LoadSomeSound ==
    ASSUME NEW o, NEW s, NEW R, NEW U, NEW A \in Seq(Segment), NEW k \in 1 .. Len(A),
           Loading(o, s, R, U, A, k - 1), NEW n \in 0 .. Len(PagesIn(A[k])),
           NEW t, t = LoadSome(s, A[k], n)
    PROVE  Loading(o, t, R, U, A, k)
<1>1. PICK seg \in Segment : seg = A[k]
  BY LenProperties, ElementOfSeq
<1>2. PICK r : r = mm_map(s, seg)
  OBVIOUS
<1>3. /\ Loading(o, r, R, U, A, k)
      /\ Ok(r) => seg \in Area /\ \A va \in Va : InArea(seg, va) => Mapped(r.mm, va)
  BY <1>1, <1>2, MapSound
<1>4. Sound(r, R, U) /\ HasMm(r) /\ r \in State
  BY <1>3 DEF Loading, Sound
<1>5. PICK xs : xs = SubSeq(PagesIn(seg), 1, n)
  OBVIOUS
<1>6. /\ n \in Nat /\ Len(xs) = n /\ PagesIn(seg) \in Seq(Int)
      /\ Len(PagesIn(seg)) \in Nat /\ n \in 0 .. Len(PagesIn(seg))
      /\ \A e \in 1 .. n : xs[e] = PagesIn(seg)[e]
  <2>1. PagesIn(seg) \in Seq(Int) /\ Len(PagesIn(seg)) \in Nat
    BY PagesAnywhere
  <2>2. n \in 0 .. Len(PagesIn(seg))
    BY <1>1
  <2> QED BY <1>5, <2>1, <2>2, InitialFacts
<1>7. Len(xs) \in Nat
  BY <1>6
<1>8. ASSUME Ok(r), NEW e \in 1 .. Len(xs) PROVE xs[e] \in Va /\ InArea(seg, xs[e])
  <2>1. e \in 1 .. Len(PagesIn(seg)) /\ xs[e] = PagesIn(seg)[e]
    BY <1>6
  <2>2. PICK area \in Area : area = seg
    BY <1>3, <1>8
  <2>3. \A i \in 1 .. Len(PagesIn(area)) : PagesIn(area)[i] \in Va /\ InArea(area, PagesIn(area)[i])
    BY PagesInFacts
  <2> QED BY <2>1, <2>2, <2>3
<1> DEFINE P(u) == Onward(r, u, R, U)
<1>9. PICK Good : Good = [e \in 0 .. Len(xs) |-> {u \in State : P(u)}]
  OBVIOUS
<1>10. r \in Good[0]
  <2>1. 0 \in 0 .. Len(xs)
    BY <1>7
  <2>2. P(r)
    BY <1>4 DEF Onward, SameMm, Same
  <2> HIDE DEF P
  <2> QED BY <1>4, <1>9, <2>1, <2>2
<1>11. ASSUME NEW e \in 1 .. Len(xs), NEW u \in Good[e - 1]
       PROVE  load_page(u, xs[e]) \in Good[e]
  <2>1. e - 1 \in 0 .. Len(xs) /\ e \in 0 .. Len(xs)
    BY <1>7
  <2>2. P(u) /\ u \in State
    <3> HIDE DEF P
    <3> QED BY <1>9, <2>1
  <2>3. PICK va : va = xs[e]
    OBVIOUS
  <2>4. PICK v : v = load_page(u, va)
    OBVIOUS
  <2>5. CASE ~Ok(r)
    <3>1. u = r /\ v = u
      BY <2>2, <2>4, <2>5, NothingMore DEF Onward
    <3> HIDE DEF P
    <3> QED BY <1>9, <2>1, <2>2, <2>3, <2>4, <3>1
  <2>6. CASE Ok(r)
    <3>1. va \in Va /\ InArea(seg, va)
      BY <1>8, <2>3, <2>6
    <3>2. Sound(u, R, U) /\ SameMm(r, u)
      BY <2>2, <2>6 DEF Onward
    <3>3. HasMm(u) /\ (Ok(u) => Mapped(u.mm, va))
      BY <1>3, <1>4, <3>1, <3>2, StaysMapped
    <3>4. Sound(v, R, U) /\ SameMm(u, v)
      BY ONLY <2>4, <3>1, <3>2, <3>3, LoadPageSound
    <3>5. P(v) /\ v \in State
      BY <2>6, <3>2, <3>4, SameMmTwice DEF Onward, Sound
    <3> HIDE DEF P
    <3> QED BY <1>9, <2>1, <2>3, <2>4, <3>5
  <2> QED BY <2>5, <2>6
<1>12. t = LoadsPages!Loop(r, xs)
  BY <1>1, <1>2, <1>5, Zenon DEF LoadSome, Each, LoadsPages!Loop
<1>13. t \in Good[Len(xs)]
  BY <1>7, <1>10, <1>11, <1>12, LoadsPages!LoopKeeps
<1> HIDE DEF P
<1>14. P(t)
  BY <1>7, <1>9, <1>13
<1> QED BY <1>3, <1>14, LoadsOn DEF P

LEMMA LoadSegmentSound ==
    ASSUME NEW o, NEW s, NEW R, NEW U, NEW A \in Seq(Segment), NEW k \in 1 .. Len(A),
           Loading(o, s, R, U, A, k - 1), NEW t, t = load_segment(s, A[k])
    PROVE  Loading(o, t, R, U, A, k)
<1>1. PICK n : n = Len(PagesIn(A[k]))
  OBVIOUS
<1>2. A[k] \in Segment
  BY LenProperties, ElementOfSeq
<1>3. n \in 0 .. Len(PagesIn(A[k]))
  BY <1>1, <1>2, PagesAnywhere
<1>4. t = LoadSome(s, A[k], n)
  BY <1>1 DEF load_segment
<1> QED BY <1>3, <1>4, LoadSomeSound

\* An executable is loaded, all or the first part of it.
LEMMA LoadPagesSound ==
    ASSUME NEW s, NEW R, NEW U, Sound(s, R, U), s.mm = NoMM, s.res # "-E_INVAL",
           NEW prog \in Programs, NEW A, A = Append(prog, Stack),
           NEW i \in 0 .. Len(prog), NEW n,
           n # 0 => i + 1 \in 1 .. Len(prog) /\ n \in 0 .. Len(PagesIn(prog[i + 1])),
           NEW w, w = LoadPages(s, prog, i, n)
    PROVE  Loading(s, w, R, U, A, IF n = 0 THEN i ELSE i + 1)
<1>1. PICK a, b : a = setup_pgdir(s) /\ b = Borrow(a)
  OBVIOUS
<1>2. Sound(a, R, U) /\ Same(s, a) /\ (Ok(a) => a.mm.pgdir # NULL /\ a.mm.vmas = << >>)
  BY <1>1, SetupSound
<1>3. Sound(b, R, U) /\ SameMm(a, b)
  BY <1>1, <1>2, BorrowSound
<1>4. Loading(s, b, R, U, A, 0)
  <2>1. b.args = s.args /\ b.res \in {s.res, "swap_out(NULL)"}
    BY <1>2, <1>3 DEF SameMm, Same
  <2>2. GivesUp(b) = b
    BY <2>1 DEF GivesUp
  <2>3. Ok(b) => b.mm.pgdir # NULL /\ b.mm.vmas = << >>
    BY <1>2, <1>3 DEF SameMm, Same
  <2>4. Ok(b) => Loaded(b, A, 0)
    BY <2>3 DEF Loaded, Tidy
  <2> QED BY <1>3, <2>1, <2>2, <2>3, <2>4 DEF Loading, HasMm
<1>5. /\ prog \in Seq(Segment) /\ Len(prog) \in Nat
      /\ A \in Seq(Segment) /\ Len(A) = Len(prog) + 1
      /\ \A k \in 1 .. Len(prog) : A[k] = prog[k] /\ prog[k] \in Segment
  BY ProgramFacts
<1>6. PICK xs : xs = SubSeq(prog, 1, i)
  OBVIOUS
<1>7. i \in Nat /\ Len(xs) = i /\ \A k \in 1 .. i : xs[k] = A[k] /\ k \in 1 .. Len(A)
  <2>1. i \in Nat /\ Len(xs) = i /\ \A k \in 1 .. i : xs[k] = prog[k]
    BY <1>5, <1>6, InitialFacts
  <2>2. \A k \in 1 .. i : k \in 1 .. Len(prog) /\ k \in 1 .. Len(A)
    BY <1>5
  <2> QED BY <1>5, <2>1, <2>2
<1> DEFINE P(u, k) == Loading(s, u, R, U, A, k)
<1>8. PICK Good : Good = [k \in 0 .. Len(xs) |-> {u \in State : P(u, k)}]
  OBVIOUS
<1>9. b \in Good[0]
  <2>1. b \in State /\ 0 \in 0 .. Len(xs)
    BY <1>3, <1>7 DEF Sound
  <2>2. P(b, 0)
    BY <1>4
  <2> HIDE DEF P
  <2> QED BY <1>8, <2>1, <2>2
<1>10. ASSUME NEW k \in 1 .. Len(xs), NEW u \in Good[k - 1]
       PROVE  load_segment(u, xs[k]) \in Good[k]
  <2>1. k - 1 \in 0 .. Len(xs) /\ k \in 0 .. Len(xs) /\ k \in 1 .. Len(A) /\ xs[k] = A[k]
    BY <1>7
  <2>2. P(u, k - 1)
    <3> HIDE DEF P
    <3> QED BY <1>8, <2>1
  <2>3. PICK v : v = load_segment(u, A[k])
    OBVIOUS
  <2>4. P(v, k)
    BY <1>5, <2>1, <2>2, <2>3, LoadSegmentSound
  <2>5. v \in State
    BY <2>4 DEF Loading, Sound
  <2> HIDE DEF P
  <2> QED BY <1>8, <2>1, <2>3, <2>4, <2>5
<1>11. PICK t : t = Each(load_segment, b, xs)
  OBVIOUS
<1>12. t = LoadsSegments!Loop(b, xs)
  BY <1>11, Zenon DEF Each, LoadsSegments!Loop
<1>13. t \in Good[Len(xs)]
  BY <1>7, <1>9, <1>10, <1>12, LoadsSegments!LoopKeeps
<1> HIDE DEF P
<1>14. P(t, i)
  BY <1>7, <1>8, <1>13
<1>15. Loading(s, t, R, U, A, i)
  BY <1>14 DEF P
<1>16. w = IF n = 0 THEN t ELSE LoadSome(t, prog[i + 1], n)
  BY <1>1, <1>6, <1>11, Zenon DEF LoadPages
<1>17. CASE n = 0
  BY <1>15, <1>16, <1>17
<1>18. CASE n # 0
  <2>1. PICK k : k = i + 1
    OBVIOUS
  <2>2. /\ k \in 1 .. Len(A) /\ k - 1 = i /\ A[k] = prog[k] /\ n \in 0 .. Len(PagesIn(A[k]))
    BY <1>5, <1>7, <1>18, <2>1
  <2>3. w = LoadSome(t, A[k], n)
    BY <1>16, <1>18, <2>1, <2>2
  <2>4. Loading(s, t, R, U, A, k - 1)
    BY <1>15, <2>2
  <2>5. Loading(s, w, R, U, A, k)
    BY <1>5, <2>2, <2>3, <2>4, LoadSomeSound
  <2> QED BY <1>18, <2>1, <2>5
<1> QED BY <1>17, <1>18

LEMMA LoadIcodeSound ==
    ASSUME NEW s, NEW R, NEW U, Sound(s, R, U), s.mm = NoMM, s.res # "-E_INVAL",
           NEW prog \in Programs, NEW A, A = Append(prog, Stack),
           NEW w, w = load_icode(s, prog)
    PROVE  Loading(s, w, R, U, A, Len(A))
<1>1. PICK i, n : i = Len(prog) /\ n = 0
  OBVIOUS
<1>2. /\ i \in Nat /\ i \in 0 .. Len(prog) /\ A \in Seq(Segment) /\ Len(A) = i + 1
      /\ A[i + 1] = Stack
  BY <1>1, ProgramFacts
<1>3. PICK k : k = i + 1
  OBVIOUS
<1>4. k \in 1 .. Len(A) /\ k - 1 = i /\ Len(A) = k
  BY <1>2, <1>3
<1>5. PICK a, r : a = LoadPages(s, prog, i, n) /\ r = mm_map(a, Stack)
  OBVIOUS
<1>6. Loading(s, a, R, U, A, i)
  <2>1. n # 0 => i + 1 \in 1 .. Len(prog) /\ n \in 0 .. Len(PagesIn(prog[i + 1]))
    BY <1>1
  <2>2. Loading(s, a, R, U, A, IF n = 0 THEN i ELSE i + 1)
    BY <1>2, <1>5, <2>1, LoadPagesSound
  <2> QED BY <1>1, <2>2
<1>7. PICK st \in Area : st = Stack
  <2>1. PICK lo, hi : Stack = <<lo, hi>> /\ lo = Stack[1] /\ hi = Stack[2]
    BY MemoryAssumption
  <2>2. lo \in Nat /\ hi \in 1 .. NVa /\ NVa \in Nat /\ StackLoaded \in 1 .. hi - lo
    BY <2>1, MemoryAssumption DEF Va
  <2>3. lo < hi
    BY <2>2
  <2> QED BY <2>1, <2>3, MemoryAssumption DEF Area
<1>8. /\ Loading(s, r, R, U, A, k)
      /\ Ok(r) => \A va \in Va : InArea(st, va) => Mapped(r.mm, va)
  <2>1. r = mm_map(a, A[k]) /\ A[k] = st
    BY <1>2, <1>3, <1>5, <1>7
  <2>2. Loading(s, a, R, U, A, k - 1)
    BY <1>4, <1>6
  <2> QED BY <1>2, <1>4, <2>1, <2>2, MapSound
<1>9. Sound(r, R, U) /\ HasMm(r) /\ r \in State
  BY <1>8 DEF Loading, Sound
<1>10. PICK xs : xs = [e \in 1 .. StackLoaded |-> Stack[2] - e]
  OBVIOUS
<1>11. Len(xs) \in Nat /\ \A e \in 1 .. Len(xs) : xs[e] \in Va /\ InArea(st, xs[e])
  <2>1. PICK lo, hi : lo = Stack[1] /\ hi = Stack[2]
    OBVIOUS
  <2>2. lo \in Nat /\ hi \in 1 .. NVa /\ NVa \in Nat /\ StackLoaded \in 1 .. hi - lo
    BY <2>1, MemoryAssumption DEF Va
  <2>3. PICK m \in Nat : m = StackLoaded
    BY <2>2
  <2>4. \A e \in 1 .. m : hi - e \in Va /\ lo <= hi - e /\ hi - e < hi
    BY <2>2, <2>3 DEF Va
  <2>5. xs = [e \in 1 .. m |-> hi - e]
    BY <1>10, <2>1, <2>3
  <2>6. xs \in Seq(Va)
    BY <2>4, <2>5, IsASeq
  <2>7. Len(xs) = m
    BY <2>3, <2>5, <2>6, LenProperties
  <2>8. \A e \in 1 .. m : xs[e] = hi - e
    BY <2>5
  <2> QED BY <1>7, <2>1, <2>3, <2>4, <2>7, <2>8 DEF InArea
<1> DEFINE P(u) == Onward(r, u, R, U)
<1>12. PICK Good : Good = [e \in 0 .. Len(xs) |-> {u \in State : P(u)}]
  OBVIOUS
<1>13. r \in Good[0]
  <2>1. 0 \in 0 .. Len(xs)
    BY <1>11
  <2>2. P(r)
    BY <1>9 DEF Onward, SameMm, Same
  <2> HIDE DEF P
  <2> QED BY <1>9, <1>12, <2>1, <2>2
<1>14. ASSUME NEW e \in 1 .. Len(xs), NEW u \in Good[e - 1]
       PROVE  pgdir_alloc_page(u, xs[e]) \in Good[e]
  <2>1. e - 1 \in 0 .. Len(xs) /\ e \in 0 .. Len(xs)
    BY <1>11
  <2>2. P(u) /\ u \in State
    <3> HIDE DEF P
    <3> QED BY <1>12, <2>1
  <2>3. PICK va \in Va : va = xs[e] /\ InArea(st, va)
    BY <1>11
  <2>4. PICK v : v = pgdir_alloc_page(u, va)
    OBVIOUS
  <2>5. CASE ~Ok(r)
    <3>1. u = r /\ v = u
      BY <2>2, <2>4, <2>5, NothingMore DEF Onward
    <3> HIDE DEF P
    <3> QED BY <1>12, <2>1, <2>2, <2>3, <2>4, <3>1
  <2>6. CASE Ok(r)
    <3>1. Sound(u, R, U) /\ SameMm(r, u)
      BY <2>2, <2>6 DEF Onward
    <3>2. Ok(u) => Mapped(u.mm, va) /\ u.mm.pgdir # NULL
      BY <1>8, <1>9, <2>3, <3>1, StaysMapped
    <3>3. Sound(v, R, U) /\ SameMm(u, v)
      BY ONLY <2>4, <3>1, <3>2, va \in Va, PgdirAllocSound
    <3>4. P(v) /\ v \in State
      BY <2>6, <3>1, <3>3, SameMmTwice DEF Onward, Sound
    <3> HIDE DEF P
    <3> QED BY <1>12, <2>1, <2>3, <2>4, <3>4
  <2> QED BY <2>5, <2>6
<1>15. w = MapsPages!Loop(r, xs)
  BY <1>1, <1>5, <1>10, Zenon DEF load_icode, Each, MapsPages!Loop
<1>16. w \in Good[Len(xs)]
  BY <1>11, <1>13, <1>14, <1>15, MapsPages!LoopKeeps
<1> HIDE DEF P
<1>17. P(w)
  BY <1>11, <1>12, <1>16
<1>18. Loading(s, w, R, U, A, k)
  BY <1>8, <1>17, LoadsOn DEF P
<1> QED BY <1>4, <1>18

\* load_icode has given up in t, which began in s.
GaveUp(s, t, R, U, A) ==
    /\ Sound(t, R, U) /\ t.args = s.args /\ t.mm = NoMM /\ t.res # "-E_INVAL"
    /\ t.res = "check_vma_overlap" => CrossesIn(A) \/ s.res = "check_vma_overlap"

LEMMA LoadFailsSound ==
    ASSUME NEW s, NEW R, NEW U, Sound(s, R, U), s.mm = NoMM, s.res # "-E_INVAL",
           NEW prog \in Programs, NEW A, A = Append(prog, Stack), NEW stop \in Stops(prog),
           NEW w, w = load_icode_fails(s, prog, stop[1], stop[2])
    PROVE  GaveUp(s, w, R, U, A)
<1>1. PICK i, n : i = stop[1] /\ n = stop[2]
  OBVIOUS
<1>2. /\ i \in 0 .. Len(prog)
      /\ n # 0 => i + 1 \in 1 .. Len(prog) /\ n \in 0 .. Len(PagesIn(prog[i + 1]))
  BY <1>1, StopFacts
<1>3. PICK a, g : a = LoadPages(s, prog, i, n) /\ g = GivesUp(a)
  OBVIOUS
<1>4. PICK k : k = IF n = 0 THEN i ELSE i + 1
  OBVIOUS
<1>5. Loading(s, a, R, U, A, k)
  BY <1>2, <1>3, <1>4, LoadPagesSound
<1>6. /\ Sound(g, R, U) /\ a.args = s.args /\ a \in State
      /\ a.res = "check_vma_overlap" => CrossesIn(A) \/ s.res = "check_vma_overlap"
  BY <1>3, <1>5 DEF Loading, Sound
<1>7. g.args = a.args /\ g.res # "-E_INVAL" /\ (g.res = "check_vma_overlap" => g = a)
  <2>1. CASE a.res = "-E_INVAL"
    <3>1. g = [a EXCEPT !.res = "ok"]
      BY <1>3, <2>1 DEF GivesUp
    <3>2. g.res = "ok" /\ g.args = a.args
      BY <1>6, <3>1, WithRes DEF Results
    <3> QED BY <3>2
  <2>2. CASE a.res # "-E_INVAL"
    BY <1>3, <2>2 DEF GivesUp
  <2> QED BY <2>1, <2>2
<1>8. w = FreeMM(g)
  BY <1>1, <1>3 DEF load_icode_fails
<1>9. Sound(w, R, U) /\ Same(g, w) /\ w.mm = NoMM
  BY <1>6, <1>8, FreeMMSound
<1> QED BY <1>6, <1>7, <1>9 DEF Same, GaveUp

-----------------------------------------------------------------------------
(***************************************************************************)
(* The pages of the arguments of exec.                                     *)
(***************************************************************************)
ArgPages(s) == {s.args[k] : k \in DOMAIN s.args}

\* The pages in R are those of others, and the arguments have pages of their own.
Argued(s, R, U) ==
    /\ U \subseteq R
    /\ Sound(s, R \cup ArgPages(s), U)
    /\ \A j, k \in DOMAIN s.args : s.args[j] = s.args[k] => j = k
    /\ \A k \in DOMAIN s.args : s.args[k] \notin R

LEMMA StaysArgued ==
    ASSUME NEW s, NEW R, NEW U, Argued(s, R, U), NEW t, Sound(t, R \cup ArgPages(s), U),
           t.args = s.args
    PROVE  Argued(t, R, U)
BY DEF Argued, ArgPages

LEMMA CopyStringSound ==
    ASSUME NEW s, NEW R, NEW U, Argued(s, R, U), NEW i, NEW w, w = copy_string(s, i)
    PROVE  Argued(w, R, U) /\ w.mm = s.mm /\ w.res \in {s.res, "swap_out(NULL)"}
<1>1. PICK Q : Q = R \cup ArgPages(s)
  OBVIOUS
<1>2. Sound(s, Q, U) /\ s \in State
  BY <1>1 DEF Argued, Sound
<1>3. PICK t : t = alloc_page(s)
  OBVIOUS
<1>4. Allocs(s, Q, U, t)
  BY <1>2, <1>3, AllocSound
<1>5. CASE ~Ok(t)
  <2>1. w = t
    BY <1>3, <1>5 DEF copy_string
  <2>2. Sound(w, Q, U) /\ Same(s, w) /\ w.mm = s.mm
    BY <1>4, <1>5, <2>1 DEF Allocs
  <2>3. Argued(w, R, U)
    BY <1>1, <2>2, StaysArgued DEF Same
  <2> QED BY <2>2, <2>3 DEF Same
<1>6. CASE Ok(t)
  <2>1. PICK b : b = t.page
    OBVIOUS
  <2>2. /\ t \in State /\ t.mm = s.mm /\ Same(s, t) /\ b \in Page /\ b \notin Q
        /\ Sound(t, Q \cup {b}, U) /\ t.args = s.args
    BY <1>4, <1>6, <2>1 DEF Allocs, Same
  <2>3. PICK l \in Seq(Page) : l = s.args
    BY <1>2 DEF State
  <2>4. PICK n \in Nat : n = Len(l) /\ DOMAIN l = 1 .. n
    BY LenProperties
  <2>5. PICK g : g = Append(l, b)
    OBVIOUS
  <2>6. PICK h \in Nat : h = n + 1
    OBVIOUS
  <2>7. /\ g \in Seq(Page) /\ DOMAIN g = 1 .. h /\ g[h] = b
        /\ \A k \in 1 .. n : g[k] = l[k]
    <3>1. g \in Seq(Page) /\ Len(g) = n + 1 /\ g[n + 1] = b /\ \A k \in 1 .. n : g[k] = l[k]
      BY <2>2, <2>4, <2>5, AppendProperties
    <3> QED BY <2>6, <3>1, LenProperties
  <2>8. w = [t EXCEPT !.args = g]
    BY <1>3, <1>6, <2>1, <2>2, <2>3, <2>5 DEF copy_string, State
  <2>9. /\ w \in State /\ w.mm = s.mm /\ w.args = g /\ w.free_list = t.free_list
        /\ w.PageProperty = t.PageProperty /\ w.nr_free = t.nr_free /\ w.ref = t.ref
        /\ w.res = t.res /\ w.mm = t.mm
    BY <2>2, <2>7, <2>8 DEF State
  <2>10. \A k \in 1 .. h : k = h \/ k \in 1 .. n
    BY <2>6
  <2>11. n + 1 \in 1 .. h /\ \A k \in 1 .. n : k \in 1 .. h /\ k # h
    BY <2>6
  <2>12. R \cup ArgPages(w) = Q \cup {b}
    <3>1. ArgPages(w) = {g[k] : k \in 1 .. h} /\ ArgPages(s) = {l[k] : k \in 1 .. n}
      BY <2>3, <2>4, <2>7, <2>9 DEF ArgPages
    <3>2. {g[k] : k \in 1 .. h} = {l[k] : k \in 1 .. n} \cup {b}
      BY <2>6, <2>7, <2>10, <2>11
    <3> QED BY <1>1, <3>1, <3>2
  <2>13. Sound(w, Q \cup {b}, U)
    <3>1. ListSound(t) => ListSound(w) /\ FreePages(w) = FreePages(t)
      BY <2>2, <2>9, SameList
    <3>2. Ok(w) <=> Ok(t)
      BY <2>9 DEF Ok
    <3> QED BY <2>2, <2>9, <3>1, <3>2 DEF Sound
  <2>14. \A k \in 1 .. n : l[k] \in Q /\ l[k] \notin R
    BY <1>1, <2>3, <2>4 DEF ArgPages, Argued
  <2>15. \A k \in 1 .. h : g[k] \notin R
    BY <1>1, <2>2, <2>7, <2>10, <2>14
  <2>16. \A j, k \in 1 .. n : l[j] = l[k] => j = k
    BY <2>3, <2>4 DEF Argued
  <2>17. ASSUME NEW j \in 1 .. h, NEW k \in 1 .. h, g[j] = g[k] PROVE j = k
    BY <2>2, <2>7, <2>10, <2>14, <2>16, <2>17
  <2>18. Argued(w, R, U)
    <3>1. U \subseteq R
      BY DEF Argued
    <3>2. DOMAIN w.args = 1 .. h /\ w.args = g
      BY ONLY <2>7, <2>9
    <3>3. Sound(w, R \cup ArgPages(w), U)
      BY ONLY <2>12, <2>13
    <3>4. \A j, k \in DOMAIN w.args : w.args[j] = w.args[k] => j = k
      BY ONLY <2>17, <3>2
    <3>5. \A k \in DOMAIN w.args : w.args[k] \notin R
      BY ONLY <2>15, <3>2
    <3> QED BY ONLY <3>1, <3>3, <3>4, <3>5 DEF Argued
  <2> QED BY <2>2, <2>9, <2>18 DEF Same
<1> QED BY <1>5, <1>6

LEMMA CopyKargvSound ==
    ASSUME NEW s, NEW R, NEW U, Sound(s, R, U), s.args = << >>, NEW argc \in Nat,
           NEW t, t = copy_kargv(s, argc)
    PROVE  Argued(t, R, U) /\ t.mm = s.mm /\ t.res \in {s.res, "swap_out(NULL)"}
<1>1. PICK xs : xs = [i \in 1 .. argc |-> i]
  OBVIOUS
<1>2. Len(xs) \in Nat
  <2>1. \A i \in 1 .. argc : i \in Nat
    OBVIOUS
  <2>2. xs \in Seq(Nat)
    BY <1>1, <2>1, IsASeq
  <2> QED BY <2>2, LenProperties
<1> DEFINE P(u) == Argued(u, R, U) /\ u.mm = s.mm /\ u.res \in {s.res, "swap_out(NULL)"}
<1>3. PICK Good : Good = [k \in 0 .. Len(xs) |-> {u \in State : P(u)}]
  OBVIOUS
<1>4. s \in Good[0]
  <2>1. s \in State /\ 0 \in 0 .. Len(xs)
    BY <1>2 DEF Sound
  <2>2. P(s)
    <3>1. ArgPages(s) = {} /\ DOMAIN s.args = {}
      BY DEF ArgPages
    <3>2. R \cup ArgPages(s) = R
      BY <3>1
    <3> QED BY <3>1, <3>2 DEF Argued, Sound
  <2> HIDE DEF P
  <2> QED BY <1>3, <2>1, <2>2
<1>5. ASSUME NEW k \in 1 .. Len(xs), NEW u \in Good[k - 1]
      PROVE  copy_string(u, xs[k]) \in Good[k]
  <2>1. k - 1 \in 0 .. Len(xs) /\ k \in 0 .. Len(xs)
    BY <1>2
  <2>2. P(u)
    <3> HIDE DEF P
    <3> QED BY <1>3, <2>1
  <2>3. PICK i : i = xs[k]
    OBVIOUS
  <2>4. PICK v : v = copy_string(u, i)
    OBVIOUS
  <2>5. Argued(v, R, U) /\ v.mm = u.mm /\ v.res \in {u.res, "swap_out(NULL)"}
    BY <2>2, <2>4, CopyStringSound
  <2>6. P(v) /\ v \in State
    BY <2>2, <2>5 DEF Argued, Sound
  <2> HIDE DEF P
  <2> QED BY <1>3, <2>1, <2>3, <2>4, <2>6
<1>6. t = CopiesStrings!Loop(s, xs)
  BY <1>1, ZenonT(40) DEF copy_kargv, Each, CopiesStrings!Loop
<1>7. t \in Good[Len(xs)]
  BY <1>2, <1>4, <1>5, <1>6, CopiesStrings!LoopKeeps
<1> HIDE DEF P
<1>8. P(t)
  BY <1>2, <1>3, <1>7
<1> QED BY <1>8 DEF P

\* put_kargv, from the last argument to the first.
LEMMA PutKargvSound ==
    ASSUME NEW s, NEW R, NEW U, Argued(s, R, U), NEW t, t = put_kargv(s)
    PROVE  Sound(t, R, U) /\ t.mm = s.mm /\ t.res = s.res
<1>1. s \in State /\ U \subseteq R
  BY DEF Argued, Sound
<1>2. PICK l \in Seq(Page) : l = s.args
  BY <1>1 DEF State
<1>3. PICK n \in Nat : n = Len(l) /\ DOMAIN l = 1 .. n
  BY LenProperties
<1>4. PICK xs : xs = Reverse(l)
  OBVIOUS
<1>5. Len(xs) = n /\ \A k \in 1 .. n : xs[k] = l[n - k + 1]
  BY <1>3, <1>4, ReverseFacts
<1>6. /\ \A j, k \in 1 .. n : l[j] = l[k] => j = k
      /\ \A k \in 1 .. n : l[k] \notin R /\ l[k] \in Page
      /\ ArgPages(s) = {l[k] : k \in 1 .. n}
  BY <1>2, <1>3, ElementOfSeq DEF Argued, ArgPages
<1> DEFINE Left(k) == {l[j] : j \in 1 .. n - k}
           P(u, k) == Sound(u, R \cup Left(k), U) /\ u.mm = s.mm /\ u.res = s.res
<1>7. PICK Good : Good = [k \in 0 .. n |-> {u \in State : P(u, k)}]
  OBVIOUS
<1>8. s \in Good[0]
  <2>1. P(s, 0)
    <3>1. n - 0 = n
      OBVIOUS
    <3>2. Left(0) = ArgPages(s)
      BY <1>6, <3>1
    <3> QED BY <3>2 DEF Argued
  <2> HIDE DEF P
  <2> QED BY <1>1, <1>7, <2>1
<1>9. ASSUME NEW k \in 1 .. n, NEW u \in Good[k - 1]
      PROVE  free_page(u, xs[k]) \in Good[k]
  <2>1. k - 1 \in 0 .. n /\ k \in 0 .. n
    OBVIOUS
  <2>2. P(u, k - 1)
    <3> HIDE DEF P
    <3> QED BY <1>7, <2>1
  <2>3. PICK h \in 1 .. n : h = n - k + 1
    OBVIOUS
  <2>4. PICK p \in Page : p = l[h] /\ p = xs[k]
    BY <1>5, <1>6, <2>3
  <2>5. PICK Q : Q = R \cup Left(k)
    OBVIOUS
  <2>6. R \cup Left(k - 1) = Q \cup {p} /\ p \notin Q
    <3>1. /\ h \in 1 .. n - (k - 1)
          /\ \A j \in 1 .. n - (k - 1) : j \in 1 .. n /\ (j = h \/ j \in 1 .. n - k)
          /\ \A j \in 1 .. n - k : j \in 1 .. n /\ j \in 1 .. n - (k - 1) /\ j # h
      BY <2>3
    <3>2. Left(k - 1) = Left(k) \cup {p}
      BY <2>4, <3>1
    <3>3. p \notin Left(k) /\ p \notin R
      BY <1>6, <2>4, <3>1
    <3> QED BY <2>5, <3>2, <3>3
  <2>7. PICK v : v = free_page(u, p)
    OBVIOUS
  <2>8. Sound(u, Q \cup {p}, U) /\ U \subseteq Q
    BY <1>1, <2>2, <2>5, <2>6
  <2>9. Sound(v, Q, U) /\ v.mm = u.mm /\ v.res = u.res
    BY <2>6, <2>7, <2>8, FreeSound
  <2>10. P(v, k) /\ v \in State
    BY <2>2, <2>5, <2>9 DEF Sound
  <2> HIDE DEF P
  <2> QED BY <1>7, <2>1, <2>4, <2>7, <2>10
<1>10. t = FreesPages!Loop(s, xs)
  BY <1>2, <1>4, Zenon DEF put_kargv, Each, FreesPages!Loop
<1>11. t \in Good[n]
  <2>1. t \in Good[Len(xs)]
    <3>1. Len(xs) \in Nat
      BY <1>5
    <3> QED BY <1>5, <1>8, <1>9, <1>10, <3>1, FreesPages!LoopKeeps
  <2> QED BY <1>5, <2>1
<1>12. P(t, n)
  <2> HIDE DEF P
  <2> QED BY <1>7, <1>11
<1>13. R \cup Left(n) = R
  <2>1. 1 .. n - n = {}
    OBVIOUS
  <2> QED BY <2>1
<1> QED BY <1>12, <1>13

-----------------------------------------------------------------------------
(***************************************************************************)
(* The pages of all processes.                                             *)
(***************************************************************************)
KernelSlot == {<<"kstack", 0>>, <<"kstack", 1>>, <<"files", 0>>}
KernelAt(k, f, x) == IF x[1] = "files" THEN f ELSE IF k = NULL THEN NULL ELSE k + x[2]

Everywhere == Proc \X (MmSlot \cup KernelSlot)

\* What each process has a page for, and the page, if the stacks of the processes are K,
\* their file tables F and their address spaces M.
Whole(K, F, M) ==
    [y \in Everywhere |->
        IF y[2] \in MmSlot THEN MmAt(M[y[1]], y[2]) ELSE KernelAt(K[y[1]], F[y[1]], y[2])]

Typed(K, F, M) ==
    /\ K \in [Proc -> Page \cup {NULL}]
    /\ F \in [Proc -> Page \cup {NULL}]
    /\ M \in [Proc -> Space]

\* A process with a file table has a stack, one without has no address space; and the
\* areas of an address space are in order and apart.
Kernels(K, F, M) ==
    \A p \in Proc : /\ F[p] # NULL => K[p] # NULL
                    /\ F[p] = NULL => M[p] = NoMM
                    /\ K[p] # NULL => K[p] + 1 \in Page
                    /\ Tidy(M[p].vmas)

WholeOk(s, K, F, M) ==
    /\ ListSound(s)
    /\ Apart(Whole(K, F, M))
    /\ FreePages(s) = Page \ Pages(Whole(K, F, M))
    /\ \A q \in FreePages(s) : s.ref[q] = 0
    /\ \A p \in Proc : MmOk(M[p], s.ref)
    /\ Kernels(K, F, M)

\* The same without the address space of p, and the pages that others have mapped.
Elsewhere(p) == Everywhere \ ({p} \X MmSlot)
Rest(K, F, M, p) == [y \in Elsewhere(p) |-> Whole(K, F, M)[y]]
Others(M, p) == UNION {{M[q].pte[va] : va \in Va} \ {NULL} : q \in Proc \ {p}}

LEMMA SlotsDiffer ==
    /\ <<"kstack", 0>> \notin MmSlot /\ <<"kstack", 1>> \notin MmSlot
    /\ <<"files", 0>> \notin MmSlot
BY DEF MmSlot

\* W has the pages of p where they belong.
Shows(W, K, F, M, p) ==
    /\ DOMAIN W = Everywhere
    /\ \A x \in MmSlot : <<p, x>> \in Everywhere /\ W[<<p, x>>] = MmView(M[p])[x]
    /\ \A x \in KernelSlot : <<p, x>> \in Everywhere /\ W[<<p, x>>] = KernelAt(K[p], F[p], x)

LEMMA WholeFacts ==
    ASSUME NEW K, NEW F, NEW M, NEW p \in Proc
    PROVE  Shows(Whole(K, F, M), K, F, M, p)
<1>. PICK W : W = Whole(K, F, M)
  OBVIOUS
<1>1. DOMAIN W = Everywhere
  BY DEF Whole
<1>2. ASSUME NEW x \in MmSlot PROVE <<p, x>> \in Everywhere /\ W[<<p, x>>] = MmView(M[p])[x]
  BY DEF Whole, Everywhere, MmView
<1>3. ASSUME NEW x \in KernelSlot
      PROVE  <<p, x>> \in Everywhere /\ W[<<p, x>>] = KernelAt(K[p], F[p], x)
  <2>1. x \notin MmSlot
    BY SlotsDiffer DEF KernelSlot
  <2> QED BY <2>1 DEF Whole, Everywhere
<1> QED BY <1>1, <1>2, <1>3 DEF Shows

\* The values of W are those of Y and of V, which have none in common.
Splits(W, V, Y) ==
    /\ Apart(W) <=> Apart(V) /\ Apart(Y) /\ Pages(Y) \cap Pages(V) = {}
    /\ Pages(W) = Pages(Y) \cup Pages(V)

\* Y is a part of W, and V, in the place of p, is the other one.
PartsOf(W, V, Y, p) ==
    /\ \A y \in DOMAIN Y : y \in DOMAIN W /\ Y[y] = W[y]
    /\ \A x \in DOMAIN V : /\ <<p, x>> \in DOMAIN W /\ <<p, x>> \notin DOMAIN Y
                           /\ V[x] = W[<<p, x>>]
    /\ \A y \in DOMAIN W : y \in DOMAIN Y \/ \E x \in DOMAIN V : y = <<p, x>>

LEMMA TwoParts ==
    ASSUME NEW p, NEW W, NEW V, NEW Y, PartsOf(W, V, Y, p)
    PROVE  Splits(W, V, Y)
<1>. PICK D, E, S : D = DOMAIN W /\ E = DOMAIN Y /\ S = DOMAIN V
  OBVIOUS
<1>0. /\ E \subseteq D
      /\ \A x \in S : <<p, x>> \in D /\ <<p, x>> \notin E
      /\ \A y \in D : y \in E \/ \E x \in S : y = <<p, x>>
      /\ \A y \in E : Y[y] = W[y]
      /\ \A x \in S : V[x] = W[<<p, x>>]
  BY DEF PartsOf
<1>. USE <1>0
<1>1. \A q : q \in Pages(W) <=> q # NULL /\ \E y \in D : W[y] = q
  BY DEF Pages
<1>2. \A q : q \in Pages(Y) <=> q # NULL /\ \E y \in E : W[y] = q
  BY DEF Pages
<1>3. \A q : q \in Pages(V) <=> q # NULL /\ \E x \in S : W[<<p, x>>] = q
  <2>1. \A q : q \in Pages(V) <=> q # NULL /\ \E x \in S : V[x] = q
    BY DEF Pages
  <2>2. ASSUME NEW q PROVE (\E x \in S : V[x] = q) <=> (\E x \in S : W[<<p, x>>] = q)
    OBVIOUS
  <2> QED BY <2>1, <2>2
<1>4. ASSUME Apart(W)
      PROVE  Apart(V) /\ Apart(Y) /\ Pages(Y) \cap Pages(V) = {}
  <2>1. \A y, z \in D : W[y] = W[z] /\ W[y] # NULL => y = z
    BY <1>4 DEF Apart
  <2>2. Apart(Y)
    BY <2>1 DEF Apart
  <2>3. ASSUME NEW x \in S, NEW z \in S, V[x] = V[z], V[x] # NULL PROVE x = z
    <3>1. <<p, x>> \in D /\ <<p, z>> \in D /\ V[x] = W[<<p, x>>] /\ V[z] = W[<<p, z>>]
      OBVIOUS
    <3>2. <<p, x>> = <<p, z>>
      BY ONLY <2>1, <2>3, <3>1
    <3> QED BY ONLY <3>2
  <2>4. Apart(V)
    BY <2>3 DEF Apart
  <2>5. ASSUME NEW q, q \in Pages(Y), q \in Pages(V) PROVE FALSE
    <3>1. PICK y \in E : W[y] = q /\ q # NULL
      BY <1>2, <2>5
    <3>2. PICK x \in S : W[<<p, x>>] = q
      BY <1>3, <2>5
    <3>3. y \in D /\ <<p, x>> \in D
      OBVIOUS
    <3>4. y = <<p, x>>
      BY <2>1, <3>1, <3>2, <3>3
    <3> QED BY <3>4
  <2> QED BY <2>2, <2>4, <2>5
<1>5. ASSUME Apart(V), Apart(Y), Pages(Y) \cap Pages(V) = {}
      PROVE  Apart(W)
  <2>1. \A y, z \in E : W[y] = W[z] /\ W[y] # NULL => y = z
    BY <1>5 DEF Apart
  <2>2. \A x, z \in S : W[<<p, x>>] = W[<<p, z>>] /\ W[<<p, x>>] # NULL => x = z
    BY <1>5 DEF Apart
  <2>3. \A y \in E : \A x \in S : W[y] = W[<<p, x>>] => W[y] = NULL
    BY <1>2, <1>3, <1>5
  <2>4. ASSUME NEW y \in D, NEW z \in D, W[y] = W[z], W[y] # NULL PROVE y = z
    <3>1. CASE y \in E /\ z \in E
      BY <2>1, <2>4, <3>1
    <3>2. CASE y \in E /\ z \notin E
      BY <2>3, <2>4, <3>2
    <3>3. CASE y \notin E /\ z \in E
      BY <2>3, <2>4, <3>3
    <3>4. CASE y \notin E /\ z \notin E
      BY <2>2, <2>4, <3>4
    <3> QED BY <3>1, <3>2, <3>3, <3>4
  <2> QED BY <2>4 DEF Apart
<1>6. ASSUME NEW q PROVE q \in Pages(W) <=> q \in Pages(Y) \/ q \in Pages(V)
  <2>1. ASSUME q # NULL
        PROVE  (\E y \in D : W[y] = q) <=> \/ \E y \in E : W[y] = q
                                           \/ \E x \in S : W[<<p, x>>] = q
    OBVIOUS
  <2> QED BY <1>1, <1>2, <1>3, <2>1
<1> QED BY <1>4, <1>5, <1>6 DEF Splits

LEMMA RestFacts ==
    ASSUME NEW K, NEW F, NEW M, NEW p \in Proc, NEW Y, Y = Rest(K, F, M, p),
           NEW W, W = Whole(K, F, M)
    PROVE  /\ DOMAIN Y = Elsewhere(p)
           /\ \A y \in Elsewhere(p) : y \in Everywhere /\ Y[y] = W[y]
           /\ \A x \in KernelSlot : /\ <<p, x>> \in Elsewhere(p)
                                    /\ Y[<<p, x>>] = KernelAt(K[p], F[p], x)
           /\ \A y \in Elsewhere(p) : y[1] = p => \E x \in KernelSlot : y = <<p, x>>
           /\ Splits(W, MmView(M[p]), Y)
<1>0. Shows(W, K, F, M, p)
  BY WholeFacts
<1>1. DOMAIN Y = Elsewhere(p) /\ \A y \in Elsewhere(p) : y \in Everywhere /\ Y[y] = W[y]
  BY DEF Rest, Elsewhere
<1>2. ASSUME NEW x \in KernelSlot
      PROVE  <<p, x>> \in Elsewhere(p) /\ Y[<<p, x>>] = KernelAt(K[p], F[p], x)
  <2>1. <<p, x>> \in Everywhere /\ W[<<p, x>>] = KernelAt(K[p], F[p], x)
    BY <1>0 DEF Shows
  <2>2. x \notin MmSlot
    BY SlotsDiffer DEF KernelSlot
  <2>3. <<p, x>> \in Elsewhere(p)
    BY <2>1, <2>2 DEF Elsewhere
  <2> QED BY <1>1, <2>1, <2>3
<1>3. \A x \in MmSlot : <<p, x>> \in Everywhere /\ W[<<p, x>>] = MmView(M[p])[x]
  BY <1>0 DEF Shows
<1>4. \A x \in MmSlot : <<p, x>> \notin Elsewhere(p)
  BY DEF Elsewhere
<1>5. \A y \in Everywhere : y \in Elsewhere(p) \/ \E x \in MmSlot : y = <<p, x>>
  BY DEF Elsewhere
<1>6. ASSUME NEW y \in Elsewhere(p), y[1] = p PROVE \E x \in KernelSlot : y = <<p, x>>
  <2>1. PICK q \in Proc, x \in MmSlot \cup KernelSlot : y = <<q, x>>
    BY DEF Elsewhere, Everywhere
  <2>2. y = <<p, x>>
    BY <1>6, <2>1
  <2>3. x \notin MmSlot
    BY <1>4, <2>2
  <2> QED BY <2>1, <2>2, <2>3
<1>7. DOMAIN MmView(M[p]) = MmSlot
  BY ViewFacts
<1>8. DOMAIN W = Everywhere
  BY <1>0 DEF Shows
<1>9. Splits(W, MmView(M[p]), Y)
  <2>1. PartsOf(W, MmView(M[p]), Y, p)
    BY <1>1, <1>3, <1>4, <1>5, <1>7, <1>8 DEF PartsOf
  <2> QED BY <2>1, TwoParts
<1> QED BY <1>1, <1>2, <1>6, <1>9

\* Pages for some slots that were empty.
LEMMA Filled ==
    ASSUME NEW V, NEW W, NEW T, DOMAIN W = DOMAIN V, T \subseteq DOMAIN V, Apart(V),
           \A x \in T : V[x] = NULL /\ W[x] # NULL /\ W[x] \notin Pages(V),
           \A x, y \in T : W[x] = W[y] => x = y,
           \A y \in DOMAIN V : y \notin T => W[y] = V[y]
    PROVE  Apart(W) /\ Pages(W) = Pages(V) \cup {W[x] : x \in T}
<1>1. PICK D : D = DOMAIN V
  OBVIOUS
<1>2. /\ DOMAIN W = D /\ T \subseteq D
      /\ \A x \in T : V[x] = NULL /\ W[x] # NULL /\ W[x] \notin Pages(V)
      /\ \A x, y \in T : W[x] = W[y] => x = y
      /\ \A y \in D : y \notin T => W[y] = V[y]
  BY <1>1
<1>3. \A y, z \in D : V[y] = V[z] /\ V[y] # NULL => y = z
  BY <1>1 DEF Apart
<1>4. \A p : p \in Pages(V) <=> p # NULL /\ \E y \in D : V[y] = p
  BY <1>1 DEF Pages
<1>5. \A p : p \in Pages(W) <=> p # NULL /\ \E y \in D : W[y] = p
  BY <1>2 DEF Pages
<1>6. ASSUME NEW y \in D, NEW z \in D, W[y] = W[z], W[y] # NULL PROVE y = z
  <2>1. CASE y \in T /\ z \in T
    BY <1>2, <1>6, <2>1
  <2>2. CASE y \in T /\ z \notin T
    <3>1. W[y] \in Pages(V)
      BY <1>2, <1>4, <1>6, <2>2
    <3> QED BY <1>2, <2>2, <3>1
  <2>3. CASE y \notin T /\ z \in T
    <3>1. W[z] \in Pages(V)
      BY <1>2, <1>4, <1>6, <2>3
    <3> QED BY <1>2, <2>3, <3>1
  <2>4. CASE y \notin T /\ z \notin T
    BY <1>2, <1>3, <1>6, <2>4
  <2> QED BY <2>1, <2>2, <2>3, <2>4
<1>7. ASSUME NEW p PROVE p \in Pages(W) <=> p \in Pages(V) \/ p \in {W[x] : x \in T}
  <2>1. ASSUME p \in Pages(W) PROVE p \in Pages(V) \/ p \in {W[x] : x \in T}
    <3>1. PICK y \in D : W[y] = p /\ p # NULL
      BY <1>5, <2>1
    <3>2. CASE y \in T
      BY <3>1, <3>2
    <3>3. CASE y \notin T
      BY <1>2, <1>4, <3>1, <3>3
    <3> QED BY <3>2, <3>3
  <2>2. ASSUME p \in Pages(V) PROVE p \in Pages(W)
    <3>1. PICK y \in D : V[y] = p /\ p # NULL
      BY <1>4, <2>2
    <3>2. y \notin T
      BY <1>2, <3>1
    <3> QED BY <1>2, <1>5, <3>1, <3>2
  <2>3. ASSUME p \in {W[x] : x \in T} PROVE p \in Pages(W)
    BY <1>2, <1>5, <2>3
  <2> QED BY <2>1, <2>2, <2>3
<1>8. Apart(W)
  BY <1>2, <1>6 DEF Apart
<1> QED BY <1>7, <1>8

\* Some slots are emptied.
LEMMA Emptied ==
    ASSUME NEW V, NEW W, NEW T, DOMAIN W = DOMAIN V, T \subseteq DOMAIN V, Apart(V),
           \A x \in T : W[x] = NULL,
           \A y \in DOMAIN V : y \notin T => W[y] = V[y]
    PROVE  Apart(W) /\ Pages(W) = Pages(V) \ {V[x] : x \in T}
<1>1. PICK D : D = DOMAIN V
  OBVIOUS
<1>2. /\ DOMAIN W = D /\ T \subseteq D
      /\ \A x \in T : W[x] = NULL
      /\ \A y \in D : y \notin T => W[y] = V[y]
  BY <1>1
<1>3. \A y, z \in D : V[y] = V[z] /\ V[y] # NULL => y = z
  BY <1>1 DEF Apart
<1>4. \A p : p \in Pages(V) <=> p # NULL /\ \E y \in D : V[y] = p
  BY <1>1 DEF Pages
<1>5. \A p : p \in Pages(W) <=> p # NULL /\ \E y \in D : W[y] = p
  BY <1>2 DEF Pages
<1>6. \A y, z \in D : W[y] = W[z] /\ W[y] # NULL => y = z
  BY <1>2, <1>3
<1>7. ASSUME NEW p PROVE p \in Pages(W) <=> p \in Pages(V) /\ p \notin {V[x] : x \in T}
  <2>1. ASSUME p \in Pages(W) PROVE p \in Pages(V) /\ p \notin {V[x] : x \in T}
    <3>1. PICK y \in D : W[y] = p /\ p # NULL
      BY <1>5, <2>1
    <3>2. y \notin T /\ V[y] = p
      BY <1>2, <3>1
    <3>3. ASSUME NEW x \in T, V[x] = p PROVE FALSE
      BY <1>2, <1>3, <3>1, <3>2, <3>3
    <3> QED BY <1>4, <3>1, <3>2, <3>3
  <2>2. ASSUME p \in Pages(V), p \notin {V[x] : x \in T} PROVE p \in Pages(W)
    <3>1. PICK y \in D : V[y] = p /\ p # NULL
      BY <1>4, <2>2
    <3>2. y \notin T
      BY <2>2, <3>1
    <3> QED BY <1>2, <1>5, <3>1, <3>2
  <2> QED BY <2>1, <2>2
<1>8. Apart(W)
  BY <1>2, <1>6 DEF Apart
<1> QED BY <1>7, <1>8

LEMMA OthersAre ==
    ASSUME NEW M, NEW p, NEW a
    PROVE  a \in Others(M, p) <=>
             a # NULL /\ \E q \in Proc : q # p /\ \E va \in Va : a = M[q].pte[va]
<1>1. ASSUME a \in Others(M, p)
      PROVE  a # NULL /\ \E q \in Proc : q # p /\ \E va \in Va : a = M[q].pte[va]
  <2>1. PICK q \in Proc \ {p} : a \in {M[q].pte[va] : va \in Va} \ {NULL}
    BY <1>1 DEF Others
  <2> QED BY <2>1
<1>2. ASSUME a # NULL, NEW q \in Proc, q # p, NEW va \in Va, a = M[q].pte[va]
      PROVE  a \in Others(M, p)
  <2>1. q \in Proc \ {p} /\ a \in {M[q].pte[x] : x \in Va} \ {NULL}
    BY <1>2
  <2> QED BY <2>1 DEF Others
<1> QED BY <1>1, <1>2

LEMMA RestPages ==
    ASSUME NEW K, NEW F, NEW M, Typed(K, F, M), Kernels(K, F, M), NEW p \in Proc
    PROVE  /\ Pages(Rest(K, F, M, p)) \subseteq Page
           /\ Others(M, p) \subseteq Pages(Rest(K, F, M, p))
<1>1. PICK Y, W : Y = Rest(K, F, M, p) /\ W = Whole(K, F, M)
  OBVIOUS
<1>2. DOMAIN Y = Elsewhere(p) /\ \A y \in Elsewhere(p) : y \in Everywhere /\ Y[y] = W[y]
  BY <1>1 DEF Rest, Elsewhere
<1>3. ASSUME NEW q \in Proc, NEW x \in MmSlot \cup KernelSlot
      PROVE  W[<<q, x>>] \in Page \cup {NULL}
  <2>1. Shows(W, K, F, M, q)
    BY <1>1, WholeFacts
  <2>2. CASE x \in MmSlot
    <3>1. W[<<q, x>>] = MmView(M[q])[x]
      BY <2>1, <2>2 DEF Shows
    <3>2. M[q] \in Space
      BY DEF Typed
    <3>3. PICK m \in Space : m = M[q]
      BY <3>2
    <3>4. /\ m.pgdir \in Page \cup {NULL} /\ m.pde \in [Pdxs -> Page \cup {NULL}]
          /\ m.pte \in [Va -> Page \cup {NULL}]
      BY DEF Space
    <3>5. CASE x = <<"pgdir", 0>>
      BY <3>1, <3>3, <3>4, <3>5, ViewFacts
    <3>6. CASE \E i \in Pdxs : x = <<"table", i>>
      <4>1. PICK i \in Pdxs : x = <<"table", i>>
        BY <3>6
      <4>2. MmView(m)[<<"table", i>>] = m.pde[i]
        BY ViewFacts
      <4> QED BY <3>1, <3>3, <3>4, <4>1, <4>2
    <3>7. CASE \E va \in Va : x = <<"user", va>>
      <4>1. PICK va \in Va : x = <<"user", va>>
        BY <3>7
      <4>2. MmView(m)[<<"user", va>>] = m.pte[va]
        BY ViewFacts
      <4> QED BY <3>1, <3>3, <3>4, <4>1, <4>2
    <3>8. \/ x = <<"pgdir", 0>>
          \/ \E i \in Pdxs : x = <<"table", i>>
          \/ \E va \in Va : x = <<"user", va>>
      BY <2>2, ViewFacts
    <3> QED BY <3>5, <3>6, <3>7, <3>8
  <2>3. CASE x \in KernelSlot
    <3>1. W[<<q, x>>] = KernelAt(K[q], F[q], x)
      BY <2>1, <2>3 DEF Shows
    <3>2. /\ K[q] \in Page \cup {NULL} /\ F[q] \in Page \cup {NULL}
          /\ K[q] # NULL => K[q] + 1 \in Page
      BY DEF Typed, Kernels
    <3>3. K[q] # NULL => K[q] + 0 \in Page
      BY <3>2, PagesAssumption DEF Page
    <3>4. KernelAt(K[q], F[q], x) \in {NULL, F[q], K[q] + 0, K[q] + 1}
            /\ (K[q] = NULL => KernelAt(K[q], F[q], x) \in {NULL, F[q]})
      BY <2>3 DEF KernelSlot, KernelAt
    <3> QED BY <3>1, <3>2, <3>3, <3>4
  <2> QED BY <2>2, <2>3
<1>4. ASSUME NEW a \in Pages(Y) PROVE a \in Page
  <2>1. PICK y \in Elsewhere(p) : Y[y] = a /\ a # NULL
    BY <1>2 DEF Pages
  <2>2. PICK q \in Proc, x \in MmSlot \cup KernelSlot : y = <<q, x>>
    BY DEF Elsewhere, Everywhere
  <2> QED BY <1>2, <1>3, <2>1, <2>2
<1>5. ASSUME NEW a \in Others(M, p) PROVE a \in Pages(Y)
  <2>1. PICK q \in Proc, va \in Va : q # p /\ a = M[q].pte[va] /\ a # NULL
    BY OthersAre
  <2>2. <<"user", va>> \in MmSlot /\ MmView(M[q])[<<"user", va>>] = M[q].pte[va]
    BY ViewFacts
  <2>3. Shows(W, K, F, M, q)
    BY <1>1, WholeFacts
  <2>4. PICK y : y = <<q, <<"user", va>>>>
    OBVIOUS
  <2>5. y \in Everywhere /\ W[y] = a
    BY <2>1, <2>2, <2>3, <2>4 DEF Shows
  <2>6. y \in Elsewhere(p)
    BY <2>1, <2>4, <2>5 DEF Elsewhere
  <2>7. Y[y] = a
    BY <1>2, <2>5, <2>6
  <2> QED BY <1>2, <2>1, <2>6, <2>7 DEF Pages
<1> QED BY <1>1, <1>4, <1>5

\* An operation on behalf of p has the address space of p to itself.
LEMMA Split ==
    ASSUME NEW K, NEW F, NEW M, Typed(K, F, M), NEW s \in State, WholeOk(s, K, F, M),
           NEW p \in Proc, s.mm = M[p], NEW Y, Y = Rest(K, F, M, p)
    PROVE  Sound(s, Pages(Y), Others(M, p)) /\ Apart(Y)
<1>1. PICK W : W = Whole(K, F, M)
  OBVIOUS
<1>2. /\ ListSound(s) /\ Apart(W) /\ FreePages(s) = Page \ Pages(W)
      /\ \A q \in FreePages(s) : s.ref[q] = 0
      /\ \A q \in Proc : MmOk(M[q], s.ref)
      /\ Kernels(K, F, M)
  BY <1>1 DEF WholeOk
<1>3. Splits(W, MmView(M[p]), Y)
  BY <1>1, RestFacts
<1>4. /\ Apart(MmView(s.mm)) /\ Apart(Y) /\ Pages(Y) \cap Held(s.mm) = {}
      /\ Pages(W) = Pages(Y) \cup Held(s.mm)
  BY <1>2, <1>3 DEF Splits, Held
<1>5. Pages(Y) \subseteq Page /\ Others(M, p) \subseteq Pages(Y)
  BY <1>2, RestPages
<1>6. ASSUME NEW a \in Others(M, p) PROVE s.ref[a] = 1
  <2>1. PICK q \in Proc, va \in Va : a = M[q].pte[va] /\ a # NULL
    BY OthersAre
  <2>2. MmOk(M[q], s.ref)
    BY <1>2
  <2> QED BY <2>1, <2>2 DEF MmOk
<1>7. MmOk(s.mm, s.ref)
  BY <1>2
<1> QED BY <1>2, <1>4, <1>5, <1>6, <1>7 DEF Sound

\* When it is over, it has left everybody else's pages alone.
LEMMA Join ==
    ASSUME NEW K, NEW F, NEW M, Kernels(K, F, M), NEW s, Ok(s), NEW p \in Proc, s.mm = M[p],
           NEW Y, Y = Rest(K, F, M, p), Sound(s, Pages(Y), Others(M, p)), Apart(Y),
           NEW r, \A q \in Proc : q # p => MmOk(M[q], r)
    PROVE  WholeOk(s, K, F, M)
<1>1. PICK W : W = Whole(K, F, M)
  OBVIOUS
<1>2. /\ ListSound(s) /\ FreePages(s) = Page \ (Pages(Y) \cup Held(s.mm))
      /\ Pages(Y) \cap Held(s.mm) = {} /\ Apart(MmView(s.mm))
      /\ \A q \in FreePages(s) : s.ref[q] = 0
      /\ \A q \in Others(M, p) : s.ref[q] = 1
      /\ MmOk(s.mm, s.ref)
  BY DEF Sound
<1>3. Splits(W, MmView(M[p]), Y)
  BY <1>1, RestFacts
<1>4. Apart(W) /\ FreePages(s) = Page \ Pages(W)
  BY <1>2, <1>3 DEF Splits, Held
<1>5. ASSUME NEW q \in Proc PROVE MmOk(M[q], s.ref)
  <2>1. CASE q = p
    BY <1>2, <2>1
  <2>2. CASE q # p
    <3>1. MmOk(M[q], r)
      BY <2>2
    <3>2. ASSUME NEW va \in Va, M[q].pte[va] # NULL PROVE s.ref[M[q].pte[va]] = 1
      <4>1. M[q].pte[va] \in Others(M, p)
        BY <2>2, <3>2, OthersAre
      <4> QED BY <1>2, <4>1
    <3> QED BY <3>1, <3>2 DEF MmOk
  <2> QED BY <2>1, <2>2
<1> QED BY <1>1, <1>2, <1>4, <1>5 DEF WholeOk

\* Of two views the second differs from the first in what p has, and Y and Z are what
\* they have in common, but for the stack and the files of p.
LEMMA RestStays ==
    ASSUME NEW K, NEW F, NEW M, NEW K2, NEW F2, NEW M2, NEW p \in Proc,
           \A q \in Proc : q # p => K2[q] = K[q] /\ F2[q] = F[q] /\ M2[q] = M[q],
           NEW Y, Y = Rest(K, F, M, p), NEW Z, Z = Rest(K2, F2, M2, p)
    PROVE  /\ DOMAIN Y = Elsewhere(p) /\ DOMAIN Z = Elsewhere(p)
           /\ \A x \in KernelSlot : /\ <<p, x>> \in Elsewhere(p)
                                    /\ Y[<<p, x>>] = KernelAt(K[p], F[p], x)
                                    /\ Z[<<p, x>>] = KernelAt(K2[p], F2[p], x)
           /\ \A y \in Elsewhere(p) : \/ \E x \in KernelSlot : y = <<p, x>>
                                      \/ Z[y] = Y[y]
           /\ Others(M2, p) = Others(M, p)
<1>1. PICK V, W : V = Whole(K, F, M) /\ W = Whole(K2, F2, M2)
  OBVIOUS
<1>2. /\ DOMAIN Y = Elsewhere(p)
      /\ \A y \in Elsewhere(p) : y \in Everywhere /\ Y[y] = V[y]
      /\ \A x \in KernelSlot : /\ <<p, x>> \in Elsewhere(p)
                               /\ Y[<<p, x>>] = KernelAt(K[p], F[p], x)
      /\ \A y \in Elsewhere(p) : y[1] = p => \E x \in KernelSlot : y = <<p, x>>
  BY <1>1, RestFacts
<1>3. /\ DOMAIN Z = Elsewhere(p)
      /\ \A y \in Elsewhere(p) : y \in Everywhere /\ Z[y] = W[y]
      /\ \A x \in KernelSlot : Z[<<p, x>>] = KernelAt(K2[p], F2[p], x)
  BY <1>1, RestFacts
<1>4. ASSUME NEW y \in Elsewhere(p), y[1] # p PROVE Z[y] = Y[y]
  <2>1. PICK q \in Proc, x \in MmSlot \cup KernelSlot : y = <<q, x>>
    BY DEF Elsewhere, Everywhere
  <2>2. q # p
    BY <1>4, <2>1
  <2>3. V[y] = IF x \in MmSlot THEN MmAt(M[q], x) ELSE KernelAt(K[q], F[q], x)
    BY <1>1, <1>2, <2>1 DEF Whole
  <2>4. W[y] = IF x \in MmSlot THEN MmAt(M2[q], x) ELSE KernelAt(K2[q], F2[q], x)
    BY <1>1, <1>2, <2>1 DEF Whole
  <2>5. V[y] = W[y]
    BY <2>2, <2>3, <2>4
  <2> QED BY <1>2, <1>3, <2>5
<1>5. ASSUME NEW a PROVE a \in Others(M2, p) <=> a \in Others(M, p)
  BY OthersAre
<1>6. Others(M2, p) = Others(M, p)
  BY <1>5
<1> QED BY <1>2, <1>3, <1>4, <1>6

LEMMA KernelValues ==
    ASSUME NEW k, NEW f
    PROVE  /\ KernelAt(k, f, <<"files", 0>>) = f
           /\ KernelAt(k, f, <<"kstack", 0>>) = IF k = NULL THEN NULL ELSE k + 0
           /\ KernelAt(k, f, <<"kstack", 1>>) = IF k = NULL THEN NULL ELSE k + 1
BY DEF KernelAt

\* The view of others when p gets a stack and a file table,
LEMMA ForkRest ==
    ASSUME NEW K, NEW F, NEW M, NEW p \in Proc, K[p] = NULL, F[p] = NULL,
           NEW K2, NEW F2, NEW M2, NEW b \in Page, NEW f \in Page, K2[p] = b, F2[p] = f,
           \A q \in Proc : q # p => K2[q] = K[q] /\ F2[q] = F[q] /\ M2[q] = M[q],
           NEW Y, Y = Rest(K, F, M, p), NEW Z, Z = Rest(K2, F2, M2, p), Apart(Y),
           b \notin Pages(Y), b + 1 \notin Pages(Y), f \notin Pages(Y), f \notin {b, b + 1}
    PROVE  Apart(Z) /\ Pages(Z) = Pages(Y) \cup {b, b + 1} \cup {f}
<1>1. /\ DOMAIN Y = Elsewhere(p) /\ DOMAIN Z = Elsewhere(p)
      /\ \A x \in KernelSlot : /\ <<p, x>> \in Elsewhere(p)
                               /\ Y[<<p, x>>] = KernelAt(K[p], F[p], x)
                               /\ Z[<<p, x>>] = KernelAt(K2[p], F2[p], x)
      /\ \A y \in Elsewhere(p) : (\E x \in KernelSlot : y = <<p, x>>) \/ Z[y] = Y[y]
  BY RestStays
<1>2. b # NULL /\ f # NULL /\ b + 0 = b /\ b + 1 # NULL /\ b # b + 1
  BY PagesAssumption DEF Page, NULL
<1>3. PICK x, y, z :
        x = <<p, <<"kstack", 0>>>> /\ y = <<p, <<"kstack", 1>>>> /\ z = <<p, <<"files", 0>>>>
  OBVIOUS
<1>4. {x, y, z} \subseteq Elsewhere(p) /\ Y[x] = NULL /\ Y[y] = NULL /\ Y[z] = NULL
  BY <1>1, <1>3, KernelValues DEF KernelSlot
<1>5. Z[x] = b /\ Z[y] = b + 1 /\ Z[z] = f
  BY <1>1, <1>2, <1>3, KernelValues DEF KernelSlot
<1>6. \A t \in Elsewhere(p) : t \notin {x, y, z} => Z[t] = Y[t]
  BY <1>1, <1>3 DEF KernelSlot
<1>7. PICK T : T = {x, y, z}
  OBVIOUS
<1>8. \A t \in T : Y[t] = NULL /\ Z[t] # NULL /\ Z[t] \notin Pages(Y)
  BY <1>2, <1>4, <1>5, <1>7
<1>9. \A t, u \in T : Z[t] = Z[u] => t = u
  BY <1>2, <1>5, <1>7
<1>10. DOMAIN Z = DOMAIN Y /\ T \subseteq DOMAIN Y
  BY <1>1, <1>4, <1>7
<1>11. \A t \in DOMAIN Y : t \notin T => Z[t] = Y[t]
  BY <1>1, <1>6, <1>7
<1>12. Apart(Z) /\ Pages(Z) = Pages(Y) \cup {Z[t] : t \in T}
  BY ONLY <1>8, <1>9, <1>10, <1>11, Apart(Y), Filled
<1>13. {Z[t] : t \in T} = {b, b + 1} \cup {f}
  BY <1>5, <1>7
<1> QED BY <1>12, <1>13

\* when it gives up its file table,
LEMMA ExitRest ==
    ASSUME NEW K, NEW F, NEW M, NEW p \in Proc, F[p] # NULL,
           NEW F2, NEW M2, F2[p] = NULL,
           \A q \in Proc : q # p => F2[q] = F[q] /\ M2[q] = M[q],
           NEW Y, Y = Rest(K, F, M, p), NEW Z, Z = Rest(K, F2, M2, p), Apart(Y)
    PROVE  Apart(Z) /\ Pages(Z) = Pages(Y) \ {F[p]} /\ F[p] \in Pages(Y)
<1>1. /\ DOMAIN Y = Elsewhere(p) /\ DOMAIN Z = Elsewhere(p)
      /\ \A x \in KernelSlot : /\ <<p, x>> \in Elsewhere(p)
                               /\ Y[<<p, x>>] = KernelAt(K[p], F[p], x)
                               /\ Z[<<p, x>>] = KernelAt(K[p], F2[p], x)
      /\ \A y \in Elsewhere(p) : (\E x \in KernelSlot : y = <<p, x>>) \/ Z[y] = Y[y]
  BY RestStays
<1>2. PICK z : z = <<p, <<"files", 0>>>>
  OBVIOUS
<1>3. z \in Elsewhere(p) /\ Y[z] = F[p] /\ Z[z] = NULL
  BY <1>1, <1>2, KernelValues DEF KernelSlot
<1>4. ASSUME NEW t \in Elsewhere(p), t # z PROVE Z[t] = Y[t]
  <2>1. CASE \E i \in {0, 1} : t = <<p, <<"kstack", i>>>>
    <3>1. PICK x \in KernelSlot : t = <<p, x>> /\ x # <<"files", 0>>
      BY <2>1 DEF KernelSlot
    <3>2. KernelAt(K[p], F[p], x) = KernelAt(K[p], F2[p], x)
      BY <3>1, KernelValues DEF KernelSlot
    <3> QED BY <1>1, <3>1, <3>2
  <2>2. CASE ~\E i \in {0, 1} : t = <<p, <<"kstack", i>>>>
    BY <1>1, <1>2, <1>4, <2>2 DEF KernelSlot
  <2> QED BY <2>1, <2>2
<1>5. PICK T : T = {z}
  OBVIOUS
<1>6. DOMAIN Z = DOMAIN Y /\ T \subseteq DOMAIN Y /\ \A t \in T : Z[t] = NULL
  BY <1>1, <1>3, <1>5
<1>7. \A t \in DOMAIN Y : t \notin T => Z[t] = Y[t]
  BY <1>1, <1>4, <1>5
<1>8. Apart(Z) /\ Pages(Z) = Pages(Y) \ {Y[t] : t \in T}
  BY ONLY <1>6, <1>7, Apart(Y), Emptied
<1>9. {Y[t] : t \in T} = {F[p]}
  BY <1>3, <1>5
<1>10. F[p] \in Pages(Y)
  BY <1>1, <1>3 DEF Pages
<1> QED BY <1>8, <1>9, <1>10

\* and when its parent takes the stack away.
LEMMA WaitRest ==
    ASSUME NEW K, NEW F, NEW M, NEW p \in Proc, K[p] \in Page,
           NEW K2, K2[p] = NULL, \A q \in Proc : q # p => K2[q] = K[q],
           NEW Y, Y = Rest(K, F, M, p), NEW Z, Z = Rest(K2, F, M, p), Apart(Y)
    PROVE  /\ Apart(Z) /\ Pages(Z) = Pages(Y) \ {K[p], K[p] + 1}
           /\ K[p] \in Pages(Y) /\ K[p] + 1 \in Pages(Y)
<1>1. /\ DOMAIN Y = Elsewhere(p) /\ DOMAIN Z = Elsewhere(p)
      /\ \A x \in KernelSlot : /\ <<p, x>> \in Elsewhere(p)
                               /\ Y[<<p, x>>] = KernelAt(K[p], F[p], x)
                               /\ Z[<<p, x>>] = KernelAt(K2[p], F[p], x)
      /\ \A y \in Elsewhere(p) : (\E x \in KernelSlot : y = <<p, x>>) \/ Z[y] = Y[y]
  BY RestStays
<1>2. PICK k \in Page : k = K[p]
  OBVIOUS
<1>3. k # NULL /\ k + 0 = k /\ k + 1 # NULL
  BY PagesAssumption DEF Page, NULL
<1>4. PICK x, y, z :
        x = <<p, <<"kstack", 0>>>> /\ y = <<p, <<"kstack", 1>>>> /\ z = <<p, <<"files", 0>>>>
  OBVIOUS
<1>5. {x, y, z} \subseteq Elsewhere(p) /\ Y[x] = k /\ Y[y] = k + 1 /\ Y[z] = F[p]
  BY <1>1, <1>2, <1>3, <1>4, KernelValues DEF KernelSlot
<1>6. Z[x] = NULL /\ Z[y] = NULL /\ Z[z] = F[p]
  BY <1>1, <1>4, KernelValues DEF KernelSlot
<1>7. \A t \in Elsewhere(p) : t \in {x, y, z} \/ Z[t] = Y[t]
  BY <1>1, <1>4 DEF KernelSlot
<1>8. PICK T : T = {x, y}
  OBVIOUS
<1>9. DOMAIN Z = DOMAIN Y /\ T \subseteq DOMAIN Y /\ \A t \in T : Z[t] = NULL
  BY <1>1, <1>5, <1>6, <1>8
<1>10. \A t \in DOMAIN Y : t \notin T => Z[t] = Y[t]
  BY <1>1, <1>5, <1>6, <1>7, <1>8
<1>11. Apart(Z) /\ Pages(Z) = Pages(Y) \ {Y[t] : t \in T}
  BY ONLY <1>9, <1>10, Apart(Y), Emptied
<1>12. {Y[t] : t \in T} = {k, k + 1}
  BY <1>5, <1>8
<1>13. k \in Pages(Y) /\ k + 1 \in Pages(Y)
  BY <1>1, <1>3, <1>5 DEF Pages
<1> QED BY <1>2, <1>11, <1>12, <1>13

\* An operation that changes the address space of p only.
LEMMA MmRest ==
    ASSUME NEW K, NEW F, NEW M, NEW p \in Proc, NEW M2, \A q \in Proc : q # p => M2[q] = M[q]
    PROVE  Rest(K, F, M2, p) = Rest(K, F, M, p) /\ Others(M2, p) = Others(M, p)
<1>1. PICK Y, Z : Y = Rest(K, F, M, p) /\ Z = Rest(K, F, M2, p)
  OBVIOUS
<1>2. /\ DOMAIN Y = Elsewhere(p) /\ DOMAIN Z = Elsewhere(p)
      /\ \A x \in KernelSlot : /\ <<p, x>> \in Elsewhere(p)
                               /\ Y[<<p, x>>] = KernelAt(K[p], F[p], x)
                               /\ Z[<<p, x>>] = KernelAt(K[p], F[p], x)
      /\ \A y \in Elsewhere(p) : (\E x \in KernelSlot : y = <<p, x>>) \/ Z[y] = Y[y]
      /\ Others(M2, p) = Others(M, p)
  BY <1>1, RestStays
<1>3. \A y \in Elsewhere(p) : Z[y] = Y[y]
  BY <1>2
<1>4. Y = [y \in Elsewhere(p) |-> Y[y]] /\ Z = [y \in Elsewhere(p) |-> Z[y]]
  BY <1>1 DEF Rest
<1> QED BY <1>1, <1>2, <1>3, <1>4

-----------------------------------------------------------------------------
(***************************************************************************)
(* The specification.                                                      *)
(***************************************************************************)
\* The inductive invariant.
IInv ==
    /\ Mem \in State
    /\ Typed(kstack, filesp, mm)
    /\ Running => WholeOk(Mem, kstack, filesp, mm)
    /\ halted # "-E_INVAL"

LEMMA SameWhole ==
    ASSUME NEW s, NEW t, NEW K, NEW F, NEW M, WholeOk(s, K, F, M),
           t.free_list = s.free_list, t.PageProperty = s.PageProperty,
           t.nr_free = s.nr_free, t.ref = s.ref
    PROVE  WholeOk(t, K, F, M)
<1>1. FreePages(t) = FreePages(s) /\ (ListSound(s) => ListSound(t))
  BY SameList
<1> QED BY <1>1 DEF WholeOk

LEMMA StartFacts ==
    ASSUME Mem \in State, NEW m \in Space, NEW s, s = Start(m)
    PROVE  /\ s \in State /\ s.mm = m /\ s.args = << >> /\ s.res = halted /\ s.page = NULL
           /\ s.free_list = free_list /\ s.PageProperty = PageProperty
           /\ s.nr_free = nr_free /\ s.ref = ref
<1>1. /\ Mem.free_list = free_list /\ Mem.PageProperty = PageProperty
      /\ Mem.nr_free = nr_free /\ Mem.ref = ref /\ Mem.res = halted
  BY DEF Mem, Start
<1>2. /\ free_list \in Seq(Blocks) /\ PageProperty \in SUBSET Page /\ nr_free \in 0 .. NPages
      /\ ref \in [Page -> Nat] /\ halted \in Results
  BY <1>1 DEF State
<1>3. << >> \in Seq(Page)
  OBVIOUS
<1> QED BY <1>2, <1>3 DEF Start, State

\* An operation begins,
LEMMA Begin ==
    ASSUME IInv, Running, NEW p \in Proc, NEW s, s = Start(mm[p]),
           NEW Y, Y = Rest(kstack, filesp, mm, p)
    PROVE  /\ s \in State /\ Ok(s) /\ s.mm = mm[p] /\ s.args = << >>
           /\ Sound(s, Pages(Y), Others(mm, p)) /\ Apart(Y)
           /\ Typed(kstack, filesp, mm) /\ Kernels(kstack, filesp, mm)
           /\ \A q \in Proc : MmOk(mm[q], ref)
<1>1. Mem \in State /\ Typed(kstack, filesp, mm) /\ WholeOk(Mem, kstack, filesp, mm)
  BY DEF IInv
<1>2. mm[p] \in Space
  BY <1>1 DEF Typed
<1>3. /\ s \in State /\ s.mm = mm[p] /\ s.args = << >> /\ s.res = halted
      /\ s.free_list = free_list /\ s.PageProperty = PageProperty
      /\ s.nr_free = nr_free /\ s.ref = ref
  BY <1>1, <1>2, StartFacts
<1>4. /\ Mem.free_list = free_list /\ Mem.PageProperty = PageProperty
      /\ Mem.nr_free = nr_free /\ Mem.ref = ref
  BY DEF Mem, Start
<1>5. WholeOk(s, kstack, filesp, mm)
  BY <1>1, <1>3, <1>4, SameWhole
<1>6. Sound(s, Pages(Y), Others(mm, p)) /\ Apart(Y)
  BY <1>1, <1>3, <1>5, Split
<1>7. Kernels(kstack, filesp, mm) /\ \A q \in Proc : MmOk(mm[q], ref)
  BY <1>3, <1>5 DEF WholeOk
<1> QED BY <1>1, <1>3, <1>6, <1>7 DEF Ok, Running

\* and it ends.
LEMMA Finish ==
    ASSUME NEW u \in State, Becomes(u), Typed(kstack', filesp', mm'),
           Ok(u) => WholeOk(u, kstack', filesp', mm'), u.res # "-E_INVAL"
    PROVE  IInv' /\ halted' = u.res
<1>1. PICK f, P, n, r, h :
        /\ f = free_list' /\ P = PageProperty' /\ n = nr_free' /\ r = ref' /\ h = halted'
  OBVIOUS
<1>2. f = u.free_list /\ P = u.PageProperty /\ n = u.nr_free /\ r = u.ref /\ h = u.res
  BY <1>1 DEF Becomes
<1>3. PICK t : t = [free_list |-> f, PageProperty |-> P, nr_free |-> n, ref |-> r,
                    page |-> NULL, res |-> h, mm |-> NoMM, args |-> << >>]
  OBVIOUS
<1>4. Mem' = t
  BY <1>1, <1>3 DEF Mem, Start
<1>5. t \in State
  <2>1. << >> \in Seq(Page) /\ NoMM \in Space
    BY NoMMFacts
  <2> QED BY <1>2, <1>3, <2>1 DEF State
<1>6. ASSUME Running' PROVE WholeOk(t, kstack', filesp', mm')
  <2>1. Ok(u)
    BY <1>1, <1>2, <1>6 DEF Running, Ok
  <2>2. t.free_list = u.free_list /\ t.PageProperty = u.PageProperty /\ t.nr_free = u.nr_free
        /\ t.ref = u.ref
    BY <1>2, <1>3
  <2>3. PICK K, F, M : K = kstack' /\ F = filesp' /\ M = mm'
    OBVIOUS
  <2>4. WholeOk(u, K, F, M)
    BY <2>1, <2>3
  <2>5. WholeOk(t, K, F, M)
    BY <2>2, <2>4, SameWhole
  <2> QED BY <2>3, <2>5
<1>7. halted' = u.res
  BY <1>1, <1>2
<1> QED BY <1>4, <1>5, <1>6, <1>7 DEF IInv

LEMMA InitWhole == Init => IInv
<1> SUFFICES ASSUME Init PROVE IInv
  OBVIOUS
<1>1. PICK L : L = <<Block(1, NPages)>>
  OBVIOUS
<1>2. /\ free_list = L /\ PageProperty = {1} /\ nr_free = NPages
      /\ ref = [p \in Page |-> 0] /\ halted = "ok"
      /\ kstack = [p \in Proc |-> NULL] /\ filesp = [p \in Proc |-> NULL]
      /\ mm = [p \in Proc |-> NoMM]
  BY <1>1 DEF Init, default_init_memmap
<1>3. PICK b : b = Block(1, NPages)
  OBVIOUS
<1>4. b.base = 1 /\ b.property = NPages /\ b \in Blocks
  BY <1>3, PagesAssumption DEF Block, Blocks, Page
<1>5. L \in Seq(Blocks) /\ Len(L) = 1 /\ DOMAIN L = {1} /\ L[1] = b
  BY <1>1, <1>3, <1>4
<1>6. NoMM \in Space
  BY NoMMFacts
<1>7. Mem \in State
  <2>1. ref \in [Page -> Nat] /\ nr_free \in 0 .. NPages /\ PageProperty \in SUBSET Page
    BY <1>2, PagesAssumption DEF Page
  <2>2. << >> \in Seq(Page)
    OBVIOUS
  <2>3. "ok" \in Results
    BY DEF Results
  <2> QED BY <1>2, <1>5, <1>6, <2>1, <2>2, <2>3 DEF Mem, Start, State
<1>8. Typed(kstack, filesp, mm)
  BY <1>2, <1>6 DEF Typed
<1>9. /\ Mem.free_list = L /\ Mem.PageProperty = {1} /\ Mem.nr_free = NPages
      /\ Mem.ref = [p \in Page |-> 0]
  BY <1>2 DEF Mem, Start
<1>10. FreePages(Mem) = Page
  <2>1. FreePages(Mem) = UNION {PagesOf(L[i]) : i \in {1}}
    BY <1>5, <1>9 DEF FreePages
  <2>2. PagesOf(b) = 1 .. 1 + NPages - 1
    BY <1>4 DEF PagesOf
  <2>3. 1 .. 1 + NPages - 1 = Page
    BY PagesAssumption DEF Page
  <2> QED BY <1>5, <2>1, <2>2, <2>3
<1>11. ListSound(Mem)
  <2>1. Cardinality(Page) = NPages
    <3>1. Cardinality(1 .. NPages) = IF 1 > NPages THEN 0 ELSE NPages - 1 + 1
      BY PagesAssumption, FS_Interval
    <3> QED BY <3>1, PagesAssumption DEF Page
  <2>2. 1 .. Len(L) - 1 = {}
    BY <1>5
  <2>3. {L[i].base : i \in DOMAIN L} = {1}
    BY <1>4, <1>5
  <2>4. \A i \in DOMAIN L : L[i].property > 0
    BY <1>4, <1>5, PagesAssumption
  <2>5. PICK s : s = Mem
    OBVIOUS
  <2>6. s.free_list = L /\ s.PageProperty = {1} /\ s.nr_free = NPages /\ FreePages(s) = Page
    BY ONLY <1>9, <1>10, <2>5
  <2>7. ListSound(s)
    BY ONLY <2>1, <2>2, <2>3, <2>4, <2>6 DEF ListSound
  <2> QED BY ONLY <2>5, <2>7
<1>12. PICK W : W = Whole(kstack, filesp, mm)
  OBVIOUS
<1>13. ASSUME NEW y \in Everywhere PROVE W[y] = NULL
  <2>1. PICK q \in Proc, x \in MmSlot \cup KernelSlot : y = <<q, x>>
    BY DEF Everywhere
  <2>2. Shows(W, kstack, filesp, mm, q)
    BY <1>12, WholeFacts
  <2>3. kstack[q] = NULL /\ filesp[q] = NULL /\ mm[q] = NoMM
    BY <1>2
  <2>4. CASE x \in MmSlot
    <3>1. W[y] = MmView(NoMM)[x]
      BY <2>1, <2>2, <2>3, <2>4 DEF Shows
    <3>2. MmView(NoMM)[x] = NULL \/ MmView(NoMM)[x] \in Held(NoMM)
      BY <2>4, ViewFacts DEF Held, Pages
    <3> QED BY <3>1, <3>2, NoMMFacts
  <2>5. CASE x \in KernelSlot
    <3>1. W[y] = KernelAt(NULL, NULL, x)
      BY <2>1, <2>2, <2>3, <2>5 DEF Shows
    <3> QED BY <3>1 DEF KernelAt
  <2> QED BY <2>1, <2>4, <2>5
<1>14. DOMAIN W = Everywhere
  BY <1>12 DEF Whole
<1>15. Apart(W) /\ Pages(W) = {}
  BY <1>13, <1>14 DEF Apart, Pages
<1>16. \A p \in Proc : MmOk(mm[p], Mem.ref)
  BY <1>2, NoMMFacts
<1>17. Kernels(kstack, filesp, mm)
  <2>1. Tidy(NoMM.vmas)
    BY NoMMFacts DEF Tidy
  <2> QED BY <1>2, <2>1 DEF Kernels
<1>18. \A q \in FreePages(Mem) : Mem.ref[q] = 0
  BY <1>9, <1>10
<1>19. FreePages(Mem) = Page \ Pages(W)
  BY <1>10, <1>15
<1>20. WholeOk(Mem, kstack, filesp, mm)
  BY <1>11, <1>12, <1>15, <1>16, <1>17, <1>18, <1>19 DEF WholeOk
<1> QED BY <1>2, <1>7, <1>8, <1>20 DEF IInv

\* do_fork: the stack,
LEMMA StackSound ==
    ASSUME NEW s, NEW R, NEW U, Sound(s, R, U), Ok(s), NEW t, t = alloc_pages(s, KSTACKPAGE),
           t.page # NULL
    PROVE  /\ Sound(t, R \cup {t.page, t.page + 1}, U) /\ Ok(t)
           /\ t.mm = s.mm /\ t.args = s.args
           /\ t.page \in Page /\ t.page + 1 \in Page
           /\ t.page \notin R /\ t.page + 1 \notin R
<1>1. /\ s \in State /\ ListSound(s) /\ R \subseteq Page /\ U \subseteq R
      /\ FreePages(s) = Page \ (R \cup Held(s.mm)) /\ R \cap Held(s.mm) = {}
      /\ Apart(MmView(s.mm)) /\ \A q \in FreePages(s) : s.ref[q] = 0
      /\ \A q \in U : s.ref[q] = 1
      /\ MmOk(s.mm, s.ref)
  BY DEF Sound
<1>2. PICK b \in Page : Takes(s, t, b, KSTACKPAGE)
  BY <1>1, AllocStack
<1>3. b .. b + KSTACKPAGE - 1 = {b, b + 1}
  BY PagesAssumption DEF KSTACKPAGE, Page
<1>4. /\ t \in State /\ ListSound(t) /\ {b, b + 1} \subseteq FreePages(s)
      /\ FreePages(t) = FreePages(s) \ {b, b + 1}
      /\ t.page = b /\ t.ref = s.ref /\ t.res = s.res /\ t.mm = s.mm /\ t.args = s.args
  BY <1>2, <1>3 DEF Takes
<1>5. /\ b \in Page /\ b + 1 \in Page /\ b \notin R /\ b + 1 \notin R
      /\ b \notin Held(s.mm) /\ b + 1 \notin Held(s.mm)
  BY <1>1, <1>4
<1>6. FreePages(t) = Page \ (R \cup {b, b + 1} \cup Held(t.mm))
  BY <1>1, <1>4
<1>7. (R \cup {b, b + 1}) \cap Held(t.mm) = {}
  BY <1>1, <1>4, <1>5
<1>8. Sound(t, R \cup {b, b + 1}, U)
  BY <1>1, <1>4, <1>5, <1>6, <1>7 DEF Sound
<1> QED BY <1>4, <1>5, <1>8 DEF Ok

\* and all of it.
LEMMA ForkKeeps ==
    ASSUME IInv, NEW m \in Space, Tidy(m.vmas), NEW q \in Proc, do_fork(m, q)
    PROVE  IInv' /\ halted' # "check_vma_overlap"
<1>1. PICK s0, Y : s0 = Start(NoMM) /\ Y = Rest(kstack, filesp, mm, q)
  OBVIOUS
<1>2. PICK s, t : s = alloc_pages(s0, KSTACKPAGE) /\ t = alloc_page(s)
  OBVIOUS
<1>3. PICK u : u = IF m = NoMM \/ ~Ok(t) THEN t ELSE dup_mmap(setup_pgdir(t), m)
  OBVIOUS
<1>4. /\ Running /\ kstack[q] = NULL /\ s.page # NULL
      /\ Becomes(u)
      /\ kstack' = [kstack EXCEPT ![q] = s.page]
      /\ filesp' = [filesp EXCEPT ![q] = t.page]
      /\ mm' = [mm EXCEPT ![q] = u.mm]
  BY <1>1, <1>2, <1>3, Zenon DEF do_fork, Unused
<1>5. Kernels(kstack, filesp, mm) /\ Typed(kstack, filesp, mm)
  BY <1>4, Begin
<1>6. filesp[q] = NULL /\ mm[q] = NoMM
  BY <1>4, <1>5 DEF Kernels
<1>7. PICK R, U : R = Pages(Y) /\ U = Others(mm, q)
  OBVIOUS
<1>8. /\ s0 \in State /\ Ok(s0) /\ s0.mm = NoMM
      /\ Sound(s0, R, U) /\ Apart(Y)
      /\ \A p \in Proc : MmOk(mm[p], ref)
  <2>1. s0 = Start(mm[q])
    BY <1>1, <1>6
  <2> QED BY <1>1, <1>4, <1>6, <1>7, <2>1, Begin
<1>9. PICK b : b = s.page
  OBVIOUS
<1>10. /\ Sound(s, R \cup {b, b + 1}, U) /\ Ok(s) /\ s.mm = NoMM
       /\ b \in Page /\ b + 1 \in Page /\ b \notin R /\ b + 1 \notin R
  BY <1>2, <1>4, <1>8, <1>9, StackSound
<1>11. PICK Q : Q = R \cup {b, b + 1}
  OBVIOUS
<1>12. Allocs(s, Q, U, t)
  BY <1>2, <1>10, <1>11, AllocSound
<1>13. PICK f : f = t.page
  OBVIOUS
<1>14. f \in Page \cup {NULL} /\ t \in State /\ t.mm = NoMM
  BY <1>10, <1>12, <1>13 DEF Allocs, State
<1>15. ASSUME Ok(t)
       PROVE  /\ Sound(u, Q \cup {f}, U) /\ f \in Page /\ f \notin Q
              /\ u.res \in {t.res, "swap_out(NULL)"} /\ (Ok(u) => Tidy(u.mm.vmas))
  <2>1. f \in Page /\ f \notin Q /\ Sound(t, Q \cup {f}, U)
    BY <1>12, <1>13, <1>15 DEF Allocs
  <2>2. CASE m = NoMM
    <3>1. Tidy(NoMM.vmas)
      BY NoMMFacts DEF Tidy
    <3> QED BY <1>3, <1>14, <2>1, <2>2, <3>1
  <2>3. CASE m # NoMM
    <3>1. PICK a : a = setup_pgdir(t)
      OBVIOUS
    <3>2. Sound(a, Q \cup {f}, U) /\ Same(t, a) /\ HasMm(a) /\ (Ok(a) => a.mm.vmas = << >>)
      BY <1>14, <2>1, <3>1, SetupSound DEF HasMm
    <3>3. u = dup_mmap(a, m)
      BY <1>3, <1>15, <2>3, <3>1
    <3>4. Sound(u, Q \cup {f}, U) /\ Same(a, u) /\ (Ok(u) => Tidy(u.mm.vmas))
      BY <3>2, <3>3, DupMmapSound
    <3> QED BY <2>1, <3>2, <3>4 DEF Same
  <2> QED BY <2>2, <2>3
<1>16. u \in State /\ (Ok(u) => Ok(t)) /\ u.res \in {"ok", "swap_out(NULL)"}
  <2>1. t.res \in {"ok", "swap_out(NULL)"}
    BY <1>10, <1>12 DEF Allocs, Same, Ok
  <2>2. CASE Ok(t)
    BY <1>15, <2>1, <2>2 DEF Sound
  <2>3. CASE ~Ok(t)
    BY <1>3, <1>14, <2>1, <2>3
  <2> QED BY <2>2, <2>3
<1>17. PICK K, F, M : K = kstack' /\ F = filesp' /\ M = mm'
  OBVIOUS
<1>18. /\ K = [kstack EXCEPT ![q] = b] /\ F = [filesp EXCEPT ![q] = f]
       /\ M = [mm EXCEPT ![q] = u.mm] /\ u.mm \in Space
  BY <1>4, <1>9, <1>13, <1>16, <1>17 DEF State
<1>19. /\ K[q] = b /\ F[q] = f /\ M[q] = u.mm
       /\ \A p \in Proc : p # q => K[p] = kstack[p] /\ F[p] = filesp[p] /\ M[p] = mm[p]
       /\ Typed(K, F, M)
  BY <1>5, <1>10, <1>14, <1>18 DEF Typed
<1>20. ASSUME Ok(u) PROVE WholeOk(u, K, F, M)
  <2>1. f \in Page /\ f \notin Q /\ Sound(u, Q \cup {f}, U)
    BY <1>15, <1>16, <1>20
  <2>2. PICK Z : Z = Rest(K, F, M, q)
    OBVIOUS
  <2>3. f \notin R /\ f \notin {b, b + 1}
    BY <1>11, <2>1
  <2>4. Apart(Z) /\ Pages(Z) = R \cup {b, b + 1} \cup {f}
    BY <1>1, <1>4, <1>6, <1>7, <1>8, <1>10, <1>19, <2>1, <2>2, <2>3, ForkRest
  <2>5. Others(M, q) = U
    BY <1>7, <1>19, MmRest
  <2>6. Sound(u, Pages(Z), Others(M, q))
    BY <1>11, <2>1, <2>4, <2>5
  <2>7. b # NULL /\ f # NULL
    BY <1>10, <2>1, VaFacts
  <2>8. Kernels(K, F, M)
    <3>1. Tidy(M[q].vmas)
      BY <1>15, <1>16, <1>19, <1>20
    <3> QED BY <1>5, <1>10, <1>19, <2>7, <3>1 DEF Kernels
  <2>9. \A p \in Proc : p # q => MmOk(M[p], ref)
    BY <1>8, <1>19
  <2> QED BY <1>19, <1>20, <2>2, <2>4, <2>6, <2>8, <2>9, Join
<1>21. u.res # "-E_INVAL" /\ u.res # "check_vma_overlap"
  BY <1>16
<1> QED BY <1>4, <1>16, <1>17, <1>19, <1>20, <1>21, Finish

\* An operation that changes nothing but the address space of a process that runs.
LEMMA MmKeeps ==
    ASSUME IInv, NEW p \in Proc, Ready(p), NEW u, Becomes(u), u.mm \in Space,
           Sound(u, Pages(Rest(kstack, filesp, mm, p)), Others(mm, p)),
           Ok(u) => Tidy(u.mm.vmas), u.res # "-E_INVAL",
           mm' = [mm EXCEPT ![p] = u.mm], UNCHANGED <<kstack, filesp>>
    PROVE  IInv' /\ halted' = u.res
<1>1. PICK Y : Y = Rest(kstack, filesp, mm, p)
  OBVIOUS
<1>2. Running /\ filesp[p] # NULL
  BY DEF Ready, Alive
<1>3. /\ Apart(Y) /\ Typed(kstack, filesp, mm) /\ Kernels(kstack, filesp, mm)
      /\ \A q \in Proc : MmOk(mm[q], ref)
  BY <1>1, <1>2, Begin
<1>4. PICK M : M = mm'
  OBVIOUS
<1>5. M = [mm EXCEPT ![p] = u.mm] /\ kstack' = kstack /\ filesp' = filesp
  BY <1>4
<1>6. /\ M[p] = u.mm /\ \A q \in Proc : q # p => M[q] = mm[q]
      /\ Typed(kstack, filesp, M)
  BY <1>3, <1>5 DEF Typed
<1>7. Rest(kstack, filesp, M, p) = Y /\ Others(M, p) = Others(mm, p)
  BY <1>1, <1>6, MmRest
<1>8. Ok(u) => Kernels(kstack, filesp, M)
  BY <1>2, <1>3, <1>6 DEF Kernels
<1>9. Sound(u, Pages(Y), Others(M, p)) /\ \A q \in Proc : q # p => MmOk(M[q], ref)
  BY <1>1, <1>3, <1>6, <1>7
<1>10. Ok(u) => WholeOk(u, kstack, filesp, M)
  BY <1>3, <1>6, <1>7, <1>8, <1>9, Join
<1>11. u \in State
  BY DEF Sound
<1> QED BY <1>4, <1>5, <1>6, <1>10, <1>11, Finish

\* The end of a process.
LEMMA ExitKeeps ==
    ASSUME IInv, NEW p \in Proc, Ready(p), NEW s,
           Sound(s, Pages(Rest(kstack, filesp, mm, p)), Others(mm, p)), s.res # "-E_INVAL",
           Exits(p, s)
    PROVE  IInv' /\ halted' \in {s.res, "swap_out(NULL)"}
<1>1. PICK Y, U : Y = Rest(kstack, filesp, mm, p) /\ U = Others(mm, p)
  OBVIOUS
<1>2. Running /\ filesp[p] # NULL
  BY DEF Ready, Alive
<1>3. /\ Apart(Y) /\ Typed(kstack, filesp, mm) /\ Kernels(kstack, filesp, mm)
      /\ \A q \in Proc : MmOk(mm[q], ref)
  BY <1>1, <1>2, Begin
<1>4. PICK f \in Page : f = filesp[p]
  BY <1>2, <1>3 DEF Typed
<1>5. PICK v, w : v = FreeMM(s) /\ w = free_page(v, f)
  OBVIOUS
<1>6. /\ Becomes(w) /\ mm' = [mm EXCEPT ![p] = NoMM] /\ filesp' = [filesp EXCEPT ![p] = NULL]
      /\ kstack' = kstack
  BY <1>4, <1>5 DEF Exits
<1>7. PICK F, M : F = filesp' /\ M = mm'
  OBVIOUS
<1>8. F = [filesp EXCEPT ![p] = NULL] /\ M = [mm EXCEPT ![p] = NoMM]
  BY <1>6, <1>7
<1>9. /\ F[p] = NULL /\ M[p] = NoMM
      /\ \A q \in Proc : q # p => F[q] = filesp[q] /\ M[q] = mm[q]
      /\ Typed(kstack, F, M)
  BY <1>3, <1>8, NoMMFacts DEF Typed
<1>10. Kernels(kstack, F, M)
  <2>1. Tidy(NoMM.vmas)
    BY NoMMFacts DEF Tidy
  <2> QED BY <1>3, <1>9, <2>1 DEF Kernels
<1>11. PICK Z : Z = Rest(kstack, F, M, p)
  OBVIOUS
<1>12. Apart(Z) /\ Pages(Z) = Pages(Y) \ {f} /\ f \in Pages(Y)
  BY <1>1, <1>2, <1>3, <1>4, <1>9, <1>11, ExitRest
<1>13. Others(M, p) = U
  BY <1>1, <1>9, MmRest
<1>14. U \subseteq Pages(Z)
  BY <1>9, <1>10, <1>11, <1>13, RestPages
<1>15. Sound(v, Pages(Y), U) /\ v.mm = NoMM /\ Same(s, v)
  BY <1>1, <1>5, FreeMMSound
<1>16. PICK R : R = Pages(Z)
  OBVIOUS
<1>17. Pages(Y) = R \cup {f} /\ f \notin R /\ U \subseteq R
  BY <1>12, <1>14, <1>16
<1>18. Sound(v, R \cup {f}, U)
  BY <1>15, <1>17
<1>19. Sound(w, R, U) /\ w.mm = v.mm /\ w.res = v.res
  BY <1>5, <1>17, <1>18, FreeSound
<1>20. Sound(w, Pages(Z), Others(M, p)) /\ w.mm = M[p]
  BY <1>9, <1>13, <1>15, <1>16, <1>19
<1>21. \A q \in Proc : q # p => MmOk(M[q], ref)
  BY <1>3, <1>9
<1>22. Ok(w) => WholeOk(w, kstack, F, M)
  BY <1>10, <1>11, <1>12, <1>20, <1>21, Join
<1>23. w \in State /\ w.res \in {s.res, "swap_out(NULL)"}
  BY <1>15, <1>19 DEF Sound, Same
<1>24. w.res # "-E_INVAL"
  BY <1>23
<1> QED BY <1>6, <1>7, <1>9, <1>22, <1>23, <1>24, Finish

LEMMA WaitKeeps ==
    ASSUME IInv, NEW p \in Proc, do_wait(p)
    PROVE  IInv' /\ halted' # "check_vma_overlap"
<1>1. PICK Y, U, s0 : Y = Rest(kstack, filesp, mm, p) /\ U = Others(mm, p) /\ s0 = Start(NoMM)
  OBVIOUS
<1>2. PICK k, w : k = kstack[p] /\ w = default_free_pages(s0, k, KSTACKPAGE)
  OBVIOUS
<1>3. /\ Running /\ k # NULL /\ filesp[p] = NULL /\ Becomes(w)
      /\ kstack' = [kstack EXCEPT ![p] = NULL] /\ filesp' = filesp /\ mm' = mm
  BY <1>1, <1>2 DEF do_wait, Zombie
<1>4. Typed(kstack, filesp, mm) /\ Kernels(kstack, filesp, mm)
  BY <1>3, Begin
<1>5. mm[p] = NoMM /\ k \in Page /\ k + 1 \in Page
  BY <1>2, <1>3, <1>4 DEF Typed, Kernels
<1>6. /\ s0 \in State /\ Ok(s0) /\ s0.mm = NoMM
      /\ Sound(s0, Pages(Y), U) /\ Apart(Y)
      /\ \A q \in Proc : MmOk(mm[q], ref)
  <2>1. s0 = Start(mm[p])
    BY <1>1, <1>5
  <2> QED BY <1>1, <1>3, <1>5, <2>1, Begin
<1>7. PICK K : K = kstack'
  OBVIOUS
<1>8. /\ K[p] = NULL /\ \A q \in Proc : q # p => K[q] = kstack[q]
      /\ Typed(K, filesp, mm)
  <2>1. K = [kstack EXCEPT ![p] = NULL]
    BY <1>3, <1>7
  <2> QED BY <1>4, <2>1 DEF Typed
<1>9. Kernels(K, filesp, mm)
  BY <1>3, <1>4, <1>8 DEF Kernels
<1>10. PICK Z, R : Z = Rest(K, filesp, mm, p) /\ R = Pages(Z)
  OBVIOUS
<1>11. /\ Apart(Z) /\ R = Pages(Y) \ {k, k + 1}
       /\ k \in Pages(Y) /\ k + 1 \in Pages(Y)
  BY <1>1, <1>2, <1>5, <1>6, <1>8, <1>10, WaitRest
<1>12. U \subseteq R
  BY <1>1, <1>8, <1>9, <1>10, RestPages
<1>13. /\ ListSound(s0) /\ FreePages(s0) = Page \ (Pages(Y) \cup Held(s0.mm))
       /\ Pages(Y) \cap Held(s0.mm) = {} /\ Apart(MmView(s0.mm))
       /\ \A q \in FreePages(s0) : s0.ref[q] = 0
       /\ \A q \in U : s0.ref[q] = 1
       /\ Pages(Y) \subseteq Page
  BY <1>6 DEF Sound
<1>14. k .. k + KSTACKPAGE - 1 = {k, k + 1} /\ k + KSTACKPAGE - 1 = k + 1
  BY <1>5, PagesAssumption DEF KSTACKPAGE, Page
<1>15. Gives(s0, w, k, KSTACKPAGE)
  <2>1. /\ s0.res = "ok" /\ KSTACKPAGE \in Nat \ {0} /\ k + KSTACKPAGE - 1 \in Page
        /\ FreePages(s0) \cap (k .. k + KSTACKPAGE - 1) = {}
    BY <1>5, <1>6, <1>11, <1>13, <1>14 DEF Ok, KSTACKPAGE
  <2> QED BY <1>2, <1>5, <1>6, <1>13, <2>1, GiveKeeps
<1>16. /\ w \in State /\ ListSound(w) /\ FreePages(w) = FreePages(s0) \cup {k, k + 1}
       /\ w.ref = [q \in Page |-> IF q \in {k, k + 1} THEN 0 ELSE s0.ref[q]]
       /\ w.res = s0.res /\ w.mm = NoMM
  BY <1>6, <1>14, <1>15 DEF Gives
<1>17. /\ w.ref[k] = 0 /\ w.ref[k + 1] = 0
       /\ \A q \in Page : q \notin {k, k + 1} => w.ref[q] = s0.ref[q]
  BY <1>5, <1>16
<1>18. Held(NoMM) = {}
  BY NoMMFacts
<1>19. FreePages(w) = Page \ (R \cup Held(w.mm))
  BY <1>5, <1>6, <1>11, <1>13, <1>16, <1>18
<1>20. \A q \in FreePages(w) : w.ref[q] = 0
  BY <1>13, <1>16, <1>17
<1>21. \A q \in U : w.ref[q] = 1
  BY <1>11, <1>12, <1>13, <1>17
<1>22. Sound(w, R, U)
  BY <1>11, <1>12, <1>13, <1>16, <1>18, <1>19, <1>20, <1>21, NoMMFacts DEF Sound
<1>23. WholeOk(w, K, filesp, mm)
  <2>1. Ok(w) /\ w.mm = mm[p]
    BY <1>5, <1>6, <1>16 DEF Ok
  <2>2. Sound(w, Pages(Z), Others(mm, p)) /\ Apart(Z)
    BY <1>1, <1>10, <1>11, <1>22
  <2> QED BY <1>6, <1>9, <1>10, <2>1, <2>2, Join
<1>24. w.res = "ok"
  BY <1>6, <1>16 DEF Ok
<1>25. w.res # "-E_INVAL" /\ w.res # "check_vma_overlap"
  BY <1>24
<1> QED BY <1>3, <1>7, <1>8, <1>16, <1>23, <1>25, Finish

\* do_execve and what it has done before it loads the program.
LEMMA ArgsSound ==
    ASSUME NEW s, NEW R, NEW U, Sound(s, R, U), s.args = << >>, NEW argc \in Nat,
           NEW t, t = Borrow(copy_kargv(s, argc))
    PROVE  Argued(t, R, U) /\ t.res \in {s.res, "swap_out(NULL)"}
<1>1. PICK a : a = copy_kargv(s, argc)
  OBVIOUS
<1>2. Argued(a, R, U) /\ a.res \in {s.res, "swap_out(NULL)"}
  BY <1>1, CopyKargvSound
<1>3. PICK Q : Q = R \cup ArgPages(a)
  OBVIOUS
<1>4. Sound(a, Q, U)
  BY <1>2, <1>3 DEF Argued
<1>5. Sound(t, Q, U) /\ Same(a, t)
  BY <1>1, <1>4, BorrowSound DEF SameMm
<1>6. t.args = a.args /\ t.res \in {a.res, "swap_out(NULL)"}
  BY <1>5 DEF Same
<1> QED BY <1>2, <1>3, <1>5, <1>6, StaysArgued

LEMMA ExecveKeeps ==
    ASSUME IInv, NEW p \in Proc, NEW argc \in Nat, NEW prog \in Programs,
           do_execve(p, argc, prog)
    PROVE  IInv' /\ (halted' = "check_vma_overlap" => Crosses(prog))
<1>1. PICK Y, R, U, s0 :
        /\ Y = Rest(kstack, filesp, mm, p) /\ R = Pages(Y) /\ U = Others(mm, p)
        /\ s0 = Start(mm[p])
  OBVIOUS
<1>2. Ready(p)
  BY Zenon DEF do_execve
<1>3. PICK s \in {FreeMM(Borrow(copy_kargv(Start(mm[p]), argc)))} :
        \/ \E t \in {put_kargv(load_icode(s, prog))} :
             /\ t.res # "-E_INVAL"
             /\ Becomes(t)
             /\ mm' = [mm EXCEPT ![p] = t.mm]
             /\ UNCHANGED <<kstack, filesp>>
        \/ \E stop \in Stops(prog) :
             Exits(p, put_kargv(load_icode_fails(s, prog, stop[1], stop[2])))
  BY Zenon DEF do_execve
<1>4. Running
  BY <1>2 DEF Ready
<1>5. Sound(s0, R, U) /\ s0.args = << >> /\ s0.res = "ok"
  BY <1>1, <1>4, Begin DEF Ok
<1>6. PICK b : b = Borrow(copy_kargv(s0, argc)) /\ s = FreeMM(b)
  BY <1>1
<1>7. Argued(b, R, U) /\ b.res \in {"ok", "swap_out(NULL)"}
  BY <1>5, <1>6, ArgsSound
<1>8. PICK P : P = R \cup ArgPages(b)
  OBVIOUS
<1>9. Sound(s, P, U) /\ Same(b, s) /\ s.mm = NoMM
  <2>1. Sound(b, P, U)
    BY <1>7, <1>8 DEF Argued
  <2> QED BY <1>6, <2>1, FreeMMSound
<1>10. s.args = b.args /\ s.res # "-E_INVAL" /\ s.res # "check_vma_overlap"
  BY <1>7, <1>9 DEF Same
<1>11. Argued(s, R, U)
  BY <1>7, <1>8, <1>9, <1>10, StaysArgued
<1>12. PICK Q : Q = R \cup ArgPages(s)
  OBVIOUS
<1>13. Sound(s, Q, U)
  BY <1>11, <1>12 DEF Argued
<1>14. PICK A : A = Append(prog, Stack)
  OBVIOUS
<1>15. CrossesIn(A) => Crosses(prog)
  BY <1>14 DEF CrossesIn, Crosses
<1>16. ASSUME NEW t \in {put_kargv(load_icode(s, prog))}, t.res # "-E_INVAL", Becomes(t),
              mm' = [mm EXCEPT ![p] = t.mm], UNCHANGED <<kstack, filesp>>
       PROVE  IInv' /\ (halted' = "check_vma_overlap" => Crosses(prog))
  <2>1. PICK l : l = load_icode(s, prog) /\ t = put_kargv(l)
    OBVIOUS
  <2>2. Loading(s, l, Q, U, A, Len(A))
    BY <1>9, <1>10, <1>13, <1>14, <2>1, LoadIcodeSound
  <2>3. /\ Sound(l, Q, U) /\ l.args = s.args
        /\ Ok(l) => Tidy(l.mm.vmas)
        /\ l.res = "check_vma_overlap" => CrossesIn(A)
    BY <1>10, <2>2 DEF Loading, Loaded
  <2>4. Argued(l, R, U)
    BY <1>11, <1>12, <2>3, StaysArgued
  <2>5. Sound(t, R, U) /\ t.mm = l.mm /\ t.res = l.res
    BY <2>1, <2>4, PutKargvSound
  <2>6. t.mm \in Space
    BY <2>5 DEF Sound, State
  <2>7. Ok(t) => Tidy(t.mm.vmas)
    BY <2>3, <2>5 DEF Ok
  <2>8. IInv' /\ halted' = t.res
    BY <1>1, <1>2, <1>16, <2>5, <2>6, <2>7, MmKeeps
  <2> QED BY <1>15, <2>3, <2>5, <2>8
<1>17. ASSUME NEW stop \in Stops(prog),
              Exits(p, put_kargv(load_icode_fails(s, prog, stop[1], stop[2])))
       PROVE  IInv' /\ (halted' = "check_vma_overlap" => Crosses(prog))
  <2>1. PICK l, t : l = load_icode_fails(s, prog, stop[1], stop[2]) /\ t = put_kargv(l)
    OBVIOUS
  <2>2. /\ Sound(l, Q, U) /\ l.args = s.args /\ l.res # "-E_INVAL"
        /\ l.res = "check_vma_overlap" => CrossesIn(A)
    <3>1. l = load_icode_fails(s, prog, stop[1], stop[2])
      BY <2>1
    <3>2. GaveUp(s, l, Q, U, A)
      BY <1>9, <1>10, <1>13, <1>14, <3>1, LoadFailsSound
    <3> QED BY <1>10, <3>2 DEF GaveUp
  <2>3. Argued(l, R, U)
    BY <1>11, <1>12, <2>2, StaysArgued
  <2>4. Sound(t, R, U) /\ t.res = l.res
    BY <2>1, <2>3, PutKargvSound
  <2>5. Exits(p, t)
    BY <1>17, <2>1
  <2>6. IInv' /\ halted' \in {t.res, "swap_out(NULL)"}
    BY <1>1, <1>2, <2>2, <2>4, <2>5, ExitKeeps
  <2> QED BY <1>15, <2>2, <2>4, <2>6
<1> QED BY <1>3, <1>16, <1>17

LEMMA ExecNothingKeeps ==
    ASSUME IInv, NEW p \in Proc, NEW argc \in Nat, ExecNothing(p, argc)
    PROVE  IInv' /\ halted' # "check_vma_overlap"
<1>1. PICK Y, R, U, s0 :
        /\ Y = Rest(kstack, filesp, mm, p) /\ R = Pages(Y) /\ U = Others(mm, p)
        /\ s0 = Start(mm[p])
  OBVIOUS
<1>2. PICK b, t : b = Borrow(copy_kargv(s0, argc)) /\ t = put_kargv(b)
  OBVIOUS
<1>3. Ready(p) /\ Exits(p, t)
  BY <1>1, <1>2, Zenon DEF ExecNothing
<1>4. Running
  BY <1>3 DEF Ready
<1>5. Sound(s0, R, U) /\ s0.args = << >> /\ s0.res = "ok"
  BY <1>1, <1>4, Begin DEF Ok
<1>6. Argued(b, R, U) /\ b.res \in {"ok", "swap_out(NULL)"}
  BY <1>2, <1>5, ArgsSound
<1>7. Sound(t, R, U) /\ t.res = b.res
  BY <1>2, <1>6, PutKargvSound
<1>8. IInv' /\ halted' \in {t.res, "swap_out(NULL)"}
  BY <1>1, <1>3, <1>6, <1>7, ExitKeeps
<1> QED BY <1>6, <1>7, <1>8

LEMMA PgfaultKeeps ==
    ASSUME IInv, NEW p \in Proc, NEW va \in Va, do_pgfault(p, va)
    PROVE  IInv' /\ halted' # "check_vma_overlap"
<1>1. PICK Y, R, U, s0 :
        /\ Y = Rest(kstack, filesp, mm, p) /\ R = Pages(Y) /\ U = Others(mm, p)
        /\ s0 = Start(mm[p])
  OBVIOUS
<1>2. PICK t, u : t = get_pte(s0, va) /\ u = pgdir_alloc_page(t, va)
  OBVIOUS
<1>3. /\ Ready(p)
      /\ find_vma(mm[p].vmas, va) # {}
      /\ Becomes(u) /\ mm' = [mm EXCEPT ![p] = u.mm] /\ UNCHANGED <<kstack, filesp>>
  BY <1>1, <1>2, Zenon DEF do_pgfault
<1>4. Running
  BY <1>3 DEF Ready
<1>5. /\ Sound(s0, R, U) /\ s0.mm = mm[p] /\ s0.res = "ok"
      /\ MmOk(mm[p], ref) /\ mm[p] \in Space /\ Kernels(kstack, filesp, mm)
  BY <1>1, <1>4, Begin DEF Typed, Ok
<1>6. PICK m \in Space : m = mm[p]
  BY <1>5
<1>7. PICK i \in DOMAIN m.vmas : m.vmas[i][1] <= va /\ va < m.vmas[i][2]
  BY <1>3, <1>6 DEF find_vma
<1>8. Mapped(m, va) /\ Tidy(m.vmas)
  BY <1>5, <1>6, <1>7 DEF Mapped, Kernels
<1>9. m.pgdir # NULL
  <2>1. m # NoMM
    <3>1. NoMM.vmas = << >>
      BY NoMMFacts
    <3>2. m.vmas # << >>
      OBVIOUS
    <3> QED BY <3>1, <3>2
  <2> QED BY <1>5, <1>6, <2>1 DEF MmOk
<1>10. Sound(t, R, U) /\ SameMm(s0, t)
  BY <1>2, <1>5, <1>6, <1>8, <1>9, GetPteSound
<1>11. Ok(t) => Mapped(t.mm, va) /\ t.mm.pgdir # NULL
  BY <1>5, <1>6, <1>8, <1>9, <1>10 DEF SameMm, Mapped
<1>12. Sound(u, R, U) /\ SameMm(t, u)
  BY <1>2, <1>10, <1>11, PgdirAllocSound
<1>13. u.mm \in Space
  BY <1>12 DEF Sound, State
<1>14. u.mm.vmas = m.vmas /\ u.res \in {"ok", "swap_out(NULL)"}
  BY <1>5, <1>6, <1>10, <1>12 DEF SameMm, Same
<1>15. Ok(u) => Tidy(u.mm.vmas)
  BY <1>8, <1>14
<1>16. u.res # "-E_INVAL" /\ u.res # "check_vma_overlap"
  BY <1>14
<1>17. IInv' /\ halted' = u.res
  BY <1>1, <1>3, <1>12, <1>13, <1>15, <1>16, MmKeeps
<1> QED BY <1>16, <1>17

\* Only an exec of areas that cross lets an assertion about areas fail.
CrossingStops ==
    Running /\ halted' = "check_vma_overlap" =>
      \E p \in Proc, argc \in 1 .. MaxArgs, prog \in Programs :
        Crosses(prog) /\ do_execve(p, argc, prog)

LEMMA NextKeeps == IInv /\ [Next]_vars => IInv' /\ [CrossingStops]_vars
<1> SUFFICES ASSUME IInv, [Next]_vars PROVE IInv' /\ [CrossingStops]_vars
  OBVIOUS
<1>1. ASSUME halted' # "check_vma_overlap" PROVE CrossingStops
  BY <1>1 DEF CrossingStops
<1>2. ASSUME NEW p \in Proc, do_fork(NoMM, p) PROVE IInv' /\ CrossingStops
  <2>1. NoMM \in Space /\ Tidy(NoMM.vmas)
    BY NoMMFacts DEF Tidy
  <2> QED BY <1>1, <1>2, <2>1, ForkKeeps
<1>3. ASSUME NEW p \in Proc, NEW q \in Proc, do_fork(mm[q], p) PROVE IInv' /\ CrossingStops
  <2>1. Running
    BY <1>3, Zenon DEF do_fork
  <2>2. mm[q] \in Space /\ Tidy(mm[q].vmas)
    BY <2>1 DEF IInv, WholeOk, Typed, Kernels
  <2> QED BY <1>1, <1>3, <2>2, ForkKeeps
<1>4. ASSUME NEW p \in Proc, do_exit(p) PROVE IInv' /\ CrossingStops
  <2>1. PICK s : s = Start(mm[p])
    OBVIOUS
  <2>2. Ready(p) /\ Running /\ Exits(p, s)
    BY <1>4, <2>1 DEF do_exit, Ready
  <2>3. Sound(s, Pages(Rest(kstack, filesp, mm, p)), Others(mm, p)) /\ s.res = "ok"
    BY <2>1, <2>2, Begin DEF Ok
  <2>4. IInv' /\ halted' \in {"ok", "swap_out(NULL)"}
    BY <2>2, <2>3, ExitKeeps
  <2> QED BY <1>1, <2>4
<1>5. ASSUME NEW p \in Proc, do_wait(p) PROVE IInv' /\ CrossingStops
  BY <1>1, <1>5, WaitKeeps
<1>6. ASSUME NEW p \in Proc, NEW argc \in 1 .. MaxArgs, ExecNothing(p, argc)
      PROVE  IInv' /\ CrossingStops
  BY <1>1, <1>6, ExecNothingKeeps
<1>7. ASSUME NEW p \in Proc, NEW argc \in 1 .. MaxArgs, NEW prog \in Programs,
             do_execve(p, argc, prog)
      PROVE  IInv' /\ CrossingStops
  <2>1. IInv' /\ (halted' = "check_vma_overlap" => Crosses(prog))
    BY <1>7, ExecveKeeps
  <2> QED BY <1>7, <2>1 DEF CrossingStops
<1>8. ASSUME NEW p \in Proc, NEW va \in Va, do_pgfault(p, va) PROVE IInv' /\ CrossingStops
  BY <1>1, <1>8, PgfaultKeeps
<1>9. CASE UNCHANGED vars
  BY <1>9 DEF vars, IInv, Mem, Start, Running
<1>10. CASE Next
  <2>1. IInv' /\ CrossingStops
    BY <1>2, <1>3, <1>4, <1>5, <1>6, <1>7, <1>8, <1>10 DEF Next
  <2> QED BY <2>1
<1> QED BY <1>9, <1>10

LEMMA Inv == Spec => []IInv
BY InitWhole, NextKeeps, PTL DEF Spec

\* The free list of default_pmm.c is sorted, merged and counted after any sequence of
\* forks, execs of any executables, page faults, exits and waits, and default_free_pages
\* has met no page with the flag of a free block: the invariant of the same name of
\* Memory.tla.
THEOREM FreeListIsSound == Spec => []FreeListSound
<1>1. IInv => FreeListSound
  <2> SUFFICES ASSUME IInv PROVE FreeListSound
    OBVIOUS
  <2>1. Mem \in State /\ Typed(kstack, filesp, mm)
    BY DEF IInv
  <2>2. /\ nr_free \in 0 .. NPages /\ PageProperty \subseteq Page /\ ref \in [Page -> Nat]
        /\ halted \in Results
    <3>1. /\ Mem.PageProperty = PageProperty /\ Mem.nr_free = nr_free /\ Mem.ref = ref
          /\ Mem.res = halted
      BY DEF Mem, Start
    <3> QED BY <2>1, <3>1 DEF State
  <2>3. ASSUME NEW p \in Proc
        PROVE  /\ mm[p].pgdir \in Page \cup {NULL}
               /\ mm[p].pde \in [Pdxs -> Page \cup {NULL}]
               /\ mm[p].pte \in [Va -> Page \cup {NULL}]
    <3>1. mm[p] \in Space
      BY <2>1 DEF Typed
    <3> QED BY <3>1 DEF Space
  <2>4. TypeOK
    BY <2>1, <2>2, <2>3 DEF TypeOK, Typed
  <2>5. Running => ListSound(Mem)
    BY DEF IInv, WholeOk
  <2>6. halted \in {"ok", "swap_out(NULL)", "check_vma_overlap"}
    BY <2>2 DEF IInv, Results
  <2> QED BY <2>4, <2>5, <2>6 DEF FreeListSound
<1> QED BY Inv, <1>1, PTL

\* No assertion of insert_vma_struct fails but in an exec of an executable whose segments,
\* or the stack, start in front of one mapped before and reach into it: dup_mmap gives the
\* child the areas of the parent, which are in order and apart, whatever was mapped.
THEOREM StopsAreCrossings == Spec => OnlyCrossingStops
<1>1. IInv /\ [Next]_vars => [CrossingStops]_vars
  BY NextKeeps
<1>2. Spec => [][CrossingStops]_vars
  BY Inv, <1>1, PTL DEF Spec
<1> QED BY <1>2 DEF OnlyCrossingStops, CrossingStops

\* setup_kstack fails only if there are no two free pages next to each other: no stack
\* is refused because two blocks that touch have not been merged.
THEOREM StacksAreFound == Spec => []StackIsFound
<1>1. IInv => StackIsFound
  <2> SUFFICES ASSUME IInv, Running PROVE StackIsFound
    BY DEF StackIsFound
  <2>1. Mem \in State /\ Ok(Mem) /\ ListSound(Mem)
    BY DEF IInv, WholeOk, Mem, Start, Ok, Running
  <2>2. PICK t : t = alloc_pages(Mem, KSTACKPAGE)
    OBVIOUS
  <2>3. t.page = NULL <=> ~\E p \in FreePages(Mem) : p + 1 \in FreePages(Mem)
    BY <2>1, <2>2, AllocStack
  <2> QED BY <2>2, <2>3 DEF StackIsFound
<1> QED BY Inv, <1>1, PTL

\* The pages that q has are those that Whole has for it.
LEMMA UsesAre ==
    ASSUME Typed(kstack, filesp, mm), NEW q \in Proc,
           NEW W, W = Whole(kstack, filesp, mm)
    PROVE  \A u : u \in Uses(q) <=>
             \E x \in MmSlot \cup KernelSlot :
               u = <<x[1], x[2], W[<<q, x>>]>> /\ W[<<q, x>>] # NULL
<1>1. Shows(W, kstack, filesp, mm, q)
  BY WholeFacts
<1>2. /\ \A x \in MmSlot : W[<<q, x>>] = MmView(mm[q])[x]
      /\ \A x \in KernelSlot : W[<<q, x>>] = KernelAt(kstack[q], filesp[q], x)
  BY <1>1 DEF Shows
<1>3. PICK k \in Page \cup {NULL}, f \in Page \cup {NULL} : k = kstack[q] /\ f = filesp[q]
  BY DEF Typed
<1>4. PICK m : m = mm[q]
  OBVIOUS
<1>5. /\ <<"pgdir", 0>> \in MmSlot /\ W[<<q, <<"pgdir", 0>>>>] = m.pgdir
      /\ \A i \in Pdxs : <<"table", i>> \in MmSlot /\ W[<<q, <<"table", i>>>>] = m.pde[i]
      /\ \A va \in Va : <<"user", va>> \in MmSlot /\ W[<<q, <<"user", va>>>>] = m.pte[va]
  <2>1. \A x \in MmSlot : W[<<q, x>>] = MmView(m)[x]
    BY ONLY <1>2, <1>4
  <2>2. /\ <<"pgdir", 0>> \in MmSlot /\ MmView(m)[<<"pgdir", 0>>] = m.pgdir
        /\ \A i \in Pdxs : <<"table", i>> \in MmSlot /\ MmView(m)[<<"table", i>>] = m.pde[i]
        /\ \A va \in Va : <<"user", va>> \in MmSlot /\ MmView(m)[<<"user", va>>] = m.pte[va]
    BY ONLY ViewFacts
  <2>3. <<"pgdir", 0>> \in MmSlot /\ W[<<q, <<"pgdir", 0>>>>] = m.pgdir
    BY ONLY <2>1, <2>2
  <2>4. ASSUME NEW i \in Pdxs
        PROVE  <<"table", i>> \in MmSlot /\ W[<<q, <<"table", i>>>>] = m.pde[i]
    BY ONLY <2>1, <2>2, i \in Pdxs
  <2>5. ASSUME NEW va \in Va
        PROVE  <<"user", va>> \in MmSlot /\ W[<<q, <<"user", va>>>>] = m.pte[va]
    BY ONLY <2>1, <2>2, va \in Va
  <2> QED BY ONLY <2>3, <2>4, <2>5
<1>6. /\ W[<<q, <<"files", 0>>>>] = f
      /\ W[<<q, <<"kstack", 0>>>>] = IF k = NULL THEN NULL ELSE k + 0
      /\ W[<<q, <<"kstack", 1>>>>] = IF k = NULL THEN NULL ELSE k + 1
  BY <1>2, <1>3, KernelValues DEF KernelSlot
<1>7. k # NULL => k + 0 # NULL /\ k + 1 # NULL
  BY PagesAssumption DEF Page, NULL
<1>8. 0 .. KSTACKPAGE - 1 = {0, 1}
  BY DEF KSTACKPAGE
<1>9. ASSUME NEW u
      PROVE  u \in Uses(q) <=>
               \/ u = <<"files", 0, f>> /\ f # NULL
               \/ u = <<"pgdir", 0, m.pgdir>> /\ m.pgdir # NULL
               \/ \E i \in Pdxs : u = <<"table", i, m.pde[i]>> /\ m.pde[i] # NULL
               \/ \E va \in Va : u = <<"user", va, m.pte[va]>> /\ m.pte[va] # NULL
               \/ k # NULL /\ \E i \in {0, 1} : u = <<"kstack", i, k + i>>
  <2>1. PICK A : A = {<<"files", 0, f>>, <<"pgdir", 0, m.pgdir>>}
                       \cup {<<"table", i, m.pde[i]>> : i \in Pdxs}
                       \cup {<<"user", va, m.pte[va]>> : va \in Va}
    OBVIOUS
  <2>2. PICK B : B = {<<"kstack", i, k + i>> : i \in {0, 1}}
    OBVIOUS
  <2>3. Uses(q) = {v \in A : v[3] # NULL} \cup IF k = NULL THEN {} ELSE B
    BY <1>3, <1>4, <1>8, <2>1, <2>2 DEF Uses
  <2>4. u \in A <=> \/ u = <<"files", 0, f>>
                    \/ u = <<"pgdir", 0, m.pgdir>>
                    \/ \E i \in Pdxs : u = <<"table", i, m.pde[i]>>
                    \/ \E va \in Va : u = <<"user", va, m.pte[va]>>
    BY <2>1
  <2>5. u \in B <=> \E i \in {0, 1} : u = <<"kstack", i, k + i>>
    BY <2>2
  <2>6. u \in Uses(q) <=> (u \in A /\ u[3] # NULL) \/ (k # NULL /\ u \in B)
    BY <2>3
  <2>7. u \in A /\ u[3] # NULL <=>
           \/ u = <<"files", 0, f>> /\ f # NULL
           \/ u = <<"pgdir", 0, m.pgdir>> /\ m.pgdir # NULL
           \/ \E i \in Pdxs : u = <<"table", i, m.pde[i]>> /\ m.pde[i] # NULL
           \/ \E va \in Va : u = <<"user", va, m.pte[va]>> /\ m.pte[va] # NULL
    BY <2>4
  <2> QED BY <2>5, <2>6, <2>7
<1>10. ASSUME NEW u, NEW x \in MmSlot \cup KernelSlot,
              u = <<x[1], x[2], W[<<q, x>>]>>, W[<<q, x>>] # NULL
       PROVE  u \in Uses(q)
  <2>1. CASE x = <<"pgdir", 0>>
    BY <1>5, <1>9, <1>10, <2>1
  <2>2. CASE \E i \in Pdxs : x = <<"table", i>>
    BY <1>5, <1>9, <1>10, <2>2
  <2>3. CASE \E va \in Va : x = <<"user", va>>
    BY <1>5, <1>9, <1>10, <2>3
  <2>4. CASE x \in KernelSlot
    BY <1>6, <1>9, <1>10, <2>4 DEF KernelSlot
  <2> QED BY <2>1, <2>2, <2>3, <2>4, ViewFacts
<1>11. ASSUME NEW u, u \in Uses(q)
       PROVE  \E x \in MmSlot \cup KernelSlot :
                u = <<x[1], x[2], W[<<q, x>>]>> /\ W[<<q, x>>] # NULL
  <2>1. CASE u = <<"files", 0, f>> /\ f # NULL
    BY <1>6, <2>1 DEF KernelSlot
  <2>2. CASE u = <<"pgdir", 0, m.pgdir>> /\ m.pgdir # NULL
    BY <1>5, <2>2
  <2>3. CASE \E i \in Pdxs : u = <<"table", i, m.pde[i]>> /\ m.pde[i] # NULL
    BY <1>5, <2>3
  <2>4. CASE \E va \in Va : u = <<"user", va, m.pte[va]>> /\ m.pte[va] # NULL
    BY <1>5, <2>4
  <2>5. CASE k # NULL /\ \E i \in {0, 1} : u = <<"kstack", i, k + i>>
    BY <1>6, <1>7, <2>5 DEF KernelSlot
  <2> QED BY <1>9, <1>11, <2>1, <2>2, <2>3, <2>4, <2>5
<1> QED BY <1>10, <1>11

\* A set that a function maps one to one to a finite set is as large.
LEMMA SameSize ==
    ASSUME NEW S, NEW T, IsFiniteSet(T), NEW g \in [T -> S],
           \A a, b \in T : g[a] = g[b] => a = b, \A u \in S : \E a \in T : g[a] = u
    PROVE  Cardinality(S) = Cardinality(T)
<1>1. g \in Bijection(T, S)
  <2>1. DOMAIN g = T
    OBVIOUS
  <2>2. IsInjective(g)
    BY <2>1 DEF IsInjective
  <2> QED BY <2>2 DEF Bijection, Injection, Surjection
<1>2. ExistsBijection(T, S)
  BY <1>1 DEF ExistsBijection
<1> QED BY <1>2, FS_Bijection

\* No page of the machine has two users and none has been lost, whatever processes do
\* and wherever exec fails; and user pages are mapped by tables, and by nobody else.
THEOREM PagesHaveOneUser == Spec => []EveryPageHasOneUser
<1>1. IInv => EveryPageHasOneUser
  <2> SUFFICES ASSUME IInv, Running PROVE EveryPageHasOneUser
    BY Zenon DEF EveryPageHasOneUser
  <2>1. PICK used : used = UNION {{p} \X Uses(p) : p \in Proc}
    OBVIOUS
  <2>2. PICK pages : pages = {u[2][3] : u \in used}
    OBVIOUS
  <2>3. PICK W : W = Whole(kstack, filesp, mm)
    OBVIOUS
  <2>4. Typed(kstack, filesp, mm) /\ WholeOk(Mem, kstack, filesp, mm)
    BY DEF IInv
  <2>5. /\ Apart(W) /\ FreePages(Mem) = Page \ Pages(W)
        /\ \A p \in Proc : MmOk(mm[p], Mem.ref)
        /\ DOMAIN W = Everywhere
    BY <2>3, <2>4 DEF WholeOk, Whole
  <2>6. ASSUME NEW u
        PROVE  u \in used <=> \E y \in Everywhere :
                 u = <<y[1], <<y[2][1], y[2][2], W[y]>>>> /\ W[y] # NULL
    <3>1. ASSUME u \in used
          PROVE  \E y \in Everywhere :
                   u = <<y[1], <<y[2][1], y[2][2], W[y]>>>> /\ W[y] # NULL
      <4>1. PICK p \in Proc : u \in {p} \X Uses(p)
        BY <2>1, <3>1
      <4>2. PICK v \in Uses(p) : u = <<p, v>>
        BY <4>1
      <4>3. PICK x \in MmSlot \cup KernelSlot :
              v = <<x[1], x[2], W[<<p, x>>]>> /\ W[<<p, x>>] # NULL
        BY <2>3, <2>4, UsesAre
      <4>4. PICK y : y = <<p, x>>
        OBVIOUS
      <4>5. y \in Everywhere /\ y[1] = p /\ y[2] = x
        BY <4>4 DEF Everywhere
      <4>6. u = <<y[1], <<y[2][1], y[2][2], W[y]>>>> /\ W[y] # NULL
        BY <4>2, <4>3, <4>4, <4>5
      <4> QED BY <4>5, <4>6
    <3>2. ASSUME NEW y \in Everywhere, u = <<y[1], <<y[2][1], y[2][2], W[y]>>>>, W[y] # NULL
          PROVE  u \in used
      <4>1. PICK p \in Proc, x \in MmSlot \cup KernelSlot : y = <<p, x>>
        BY DEF Everywhere
      <4>2. PICK v : v = <<x[1], x[2], W[<<p, x>>]>>
        OBVIOUS
      <4>3. v \in Uses(p)
        BY <2>3, <2>4, <3>2, <4>1, <4>2, UsesAre
      <4>4. u = <<p, v>>
        BY <3>2, <4>1, <4>2
      <4>5. u \in {p} \X Uses(p)
        BY <4>3, <4>4
      <4> QED BY <2>1, <4>5
    <3> QED BY <3>1, <3>2
  <2>7. pages = Pages(W)
    <3>1. ASSUME NEW a PROVE a \in Pages(W) <=> \E y \in Everywhere : W[y] = a /\ a # NULL
      BY <2>5 DEF Pages
    <3>2. ASSUME NEW a \in pages PROVE a \in Pages(W)
      <4>1. PICK u \in used : a = u[2][3]
        BY <2>2
      <4>2. PICK y \in Everywhere : u = <<y[1], <<y[2][1], y[2][2], W[y]>>>> /\ W[y] # NULL
        BY <2>6
      <4>3. a = W[y]
        BY <4>1, <4>2
      <4> QED BY <3>1, <4>2, <4>3
    <3>3. ASSUME NEW a \in Pages(W) PROVE a \in pages
      <4>1. PICK y \in Everywhere : W[y] = a /\ a # NULL
        BY <3>1
      <4>2. PICK u : u = <<y[1], <<y[2][1], y[2][2], W[y]>>>>
        OBVIOUS
      <4>3. u \in used /\ u[2][3] = a
        BY <2>6, <4>1, <4>2
      <4> QED BY <2>2, <4>3
    <3> QED BY <3>2, <3>3
  <2>8. Pages(W) \subseteq Page
    <3>1. ASSUME NEW a \in Pages(W) PROVE a \in Page
      <4>1. PICK y \in Everywhere : W[y] = a /\ a # NULL
        BY <2>5 DEF Pages
      <4>2. PICK p \in Proc, x \in MmSlot \cup KernelSlot : y = <<p, x>>
        BY DEF Everywhere
      <4>3. PICK Y : Y = Rest(kstack, filesp, mm, p)
        OBVIOUS
      <4>4. Pages(Y) \subseteq Page
        <5>1. Kernels(kstack, filesp, mm)
          BY <2>4 DEF WholeOk
        <5> QED BY <2>4, <4>3, <5>1, RestPages
      <4>5. Splits(W, MmView(mm[p]), Y)
        BY <2>3, <4>3, RestFacts
      <4>6. Held(mm[p]) \subseteq Page
        <5>1. mm[p] \in Space
          BY <2>4 DEF Typed
        <5> QED BY <5>1, HeldArePages
      <4> QED BY <4>4, <4>5, <4>6 DEF Splits, Held
    <3> QED BY <3>1
  <2>9. Cardinality(used) = Cardinality(pages)
    <3>1. IsFiniteSet(pages)
      <4>1. IsFiniteSet(Page)
        BY PagesAssumption, FS_Interval DEF Page
      <4> QED BY <2>7, <2>8, <4>1, FS_Subset
    <3>2. PICK at : at = [a \in pages |-> CHOOSE y \in Everywhere : W[y] = a]
      OBVIOUS
    <3>3. ASSUME NEW a \in pages PROVE at[a] \in Everywhere /\ W[at[a]] = a /\ a # NULL
      <4>1. a # NULL /\ \E y \in Everywhere : W[y] = a
        BY <2>5, <2>7 DEF Pages
      <4> QED BY <3>2, <4>1
    <3>4. PICK g : g = [a \in pages |-> <<at[a][1], <<at[a][2][1], at[a][2][2], a>>>>]
      OBVIOUS
    <3>5. ASSUME NEW a \in pages PROVE g[a] \in used /\ g[a][2][3] = a
      BY <2>6, <3>3, <3>4
    <3>6. g \in [pages -> used]
      BY <3>4, <3>5
    <3>7. ASSUME NEW u \in used PROVE \E a \in pages : g[a] = u
      <4>1. PICK y \in Everywhere : u = <<y[1], <<y[2][1], y[2][2], W[y]>>>> /\ W[y] # NULL
        BY <2>6
      <4>2. PICK a : a = W[y]
        OBVIOUS
      <4>3. a \in pages
        BY <2>5, <2>7, <4>1, <4>2 DEF Pages
      <4>4. at[a] = y
        BY <2>5, <3>3, <4>1, <4>2, <4>3 DEF Apart
      <4>5. g[a] = u
        BY <3>4, <4>1, <4>2, <4>3, <4>4
      <4> QED BY <4>3, <4>5
    <3>8. \A a, b \in pages : g[a] = g[b] => a = b
      BY <3>5
    <3> QED BY <3>1, <3>6, <3>7, <3>8, SameSize
  <2>10. pages = Page \ FreePages(Mem)
    BY <2>5, <2>7, <2>8
  <2>11. ASSUME NEW p \in Proc, NEW va \in Va, mm[p].pte[va] # NULL
         PROVE  mm[p].pde[Pdx(va)] # NULL /\ ref[mm[p].pte[va]] = 1
    <3>1. Mem.ref = ref
      BY DEF Mem, Start
    <3> QED BY <2>5, <2>11, <3>1 DEF MmOk
  <2> QED BY <2>1, <2>2, <2>9, <2>10, <2>11, Zenon DEF EveryPageHasOneUser
<1> QED BY Inv, <1>1, PTL
=============================================================================
