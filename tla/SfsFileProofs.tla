---------------------------- MODULE SfsFileProofs ----------------------------
(***************************************************************************)
(* BlocksOwnedOnce, NoHoles and BlocksStay for any files, descriptors,     *)
(* sizes and disks.  The operations on one inode are followed on their     *)
(* records: what a step of the loops in sfs_truncfile and sfs_io_nolock    *)
(* keeps, the loops keep.  In the last part, proofs about SemLock, the     *)
(* life of a semaphore as that of an inode: the two share no state.        *)
(***************************************************************************)
EXTENDS SfsFile, SemLock, FiniteSetTheorems, WellFoundedInduction, TLAPS

\* How the operations end.
Results ==
    {"ok", "full", "unused_blocks > 0", "index <= din->blocks", "index out of range",
     "tblks == din->blocks"}

\* What the operations work on.
Rec ==
    [free : SUBSET Blocks, unused : 0 .. NBlocks, changed : BOOLEAN, entry : Entries,
     din : DiskInode, dirty : BOOLEAN, res : Results]

\* The block at a place of such a record.
Place(s, i) ==
    IF i < SFS_NDIRECT THEN s.din.direct[i]
    ELSE IF i < Capacity THEN s.entry[i]
    ELSE s.din.indirect

\* The file has no block twice and no hole, and the blocks of U are those it has
\* and the free ones.
Good(s, U) ==
    /\ s \in Rec
    /\ s.free \subseteq U
    /\ \A i \in Places : Place(s, i) # 0 => Place(s, i) \in U \ s.free
    /\ \A i, j \in Places : Place(s, i) = Place(s, j) /\ Place(s, i) # 0 => i = j
    /\ \A b \in U \ s.free : \E i \in Places : Place(s, i) = b
    /\ s.unused = Cardinality(s.free)
    /\ \A i \in 0 .. s.din.blocks - 1 : Place(s, i) # 0

\* From s to t, what differs from the disk is marked.
Marks(s, t) ==
    /\ ~t.dirty => /\ ~s.dirty
                   /\ t.din.direct = s.din.direct /\ t.din.indirect = s.din.indirect
                   /\ s.din.blocks <= t.din.blocks
    /\ ~t.changed => ~s.changed /\ t.free = s.free /\ t.unused = s.unused

\* From s to t, the file gets blocks and loses none.
Grows(s, t) ==
    /\ Marks(s, t)
    /\ \A i \in Places : Place(s, i) # 0 => Place(t, i) = Place(s, i)
    /\ s.din.blocks <= t.din.blocks
    /\ s.din.size = t.din.size

\* From s to t, the file loses blocks from place n on, and gets none.
Shrinks(s, t, n) ==
    /\ Marks(s, t)
    /\ \A i \in Places : Place(t, i) # Place(s, i) =>
         Place(t, i) = 0 /\ n <= i /\ i < Capacity
    /\ s.din.size = t.din.size

\* Block b, which was free, is at place i.
Took(s, t, i, b) ==
    /\ t \in Rec
    /\ b \in s.free /\ t.free = s.free \ {b}
    /\ t.unused = s.unused - 1
    /\ t.changed
    /\ Place(t, i) = b
    /\ \A j \in Places : j # i => Place(t, j) = Place(s, j)
    /\ t.din.blocks = s.din.blocks /\ t.din.size = s.din.size
    /\ ~t.dirty => ~s.dirty /\ t.din = s.din
    /\ t.res = s.res

-----------------------------------------------------------------------------
LEMMA Constants ==
    /\ SFS_NDIRECT \in Nat /\ SFS_NDIRECT > 0
    /\ SFS_BLK_NENTRY \in Nat /\ SFS_BLK_NENTRY > 0
    /\ SFS_BLKSIZE \in Nat /\ SFS_BLKSIZE > 0
    /\ SFS_MAX_FILE_SIZE \in Nat /\ SFS_MAX_FILE_SIZE > 0
    /\ NBlocks \in Nat
    /\ Capacity \in Nat /\ SFS_NDIRECT < Capacity
    /\ Places = 0 .. Capacity /\ Blocks = 1 .. NBlocks /\ 0 \notin Blocks
BY SfsAssumption DEF Capacity, Places, Blocks

\* Every set of natural numbers that has a member has a least one.
LEMMA LeastNat ==
    ASSUME NEW T \in SUBSET Nat, T # {}
    PROVE  \E m \in T : \A n \in T : m <= n
<1> DEFINE Below(n) == 1 .. n
           Sets == {Below(n) : n \in T}
<1>1. Sets \subseteq FiniteSubsetsOf(Nat)
  <2>1. \A n \in T : IsFiniteSet(Below(n)) /\ Below(n) \subseteq Nat
    BY FS_Interval
  <2> QED BY <2>1 DEF FiniteSubsetsOf
<1>2. IsWellFoundedOn(StrictSubsetOrdering(Nat), FiniteSubsetsOf(Nat))
  BY FS_StrictSubsetOrderingWellFounded
<1>3. PICK x \in Sets : \A y \in Sets : ~(<<y, x>> \in StrictSubsetOrdering(Nat))
  <2>1. Sets # {}
    OBVIOUS
  <2> HIDE DEF Sets
  <2> QED BY <1>1, <1>2, <2>1, WFMin
<1>4. PICK m \in T : x = Below(m)
  OBVIOUS
<1>5. ASSUME NEW n \in T, n < m PROVE FALSE
  <2>1. Below(n) \subseteq Below(m) /\ Below(n) \subseteq Nat /\ Below(m) \subseteq Nat
    BY <1>5
  <2>2. m \in Below(m) /\ m \notin Below(n)
    BY <1>5
  <2>3. <<Below(n), Below(m)>> \in StrictSubsetOrdering(Nat)
    BY <2>1, <2>2 DEF StrictSubsetOrdering
  <2> QED BY <1>3, <1>4, <2>3
<1> QED BY <1>5

\* The first free block is free.
LEMMA MinIn ==
    ASSUME NEW T \in SUBSET Blocks, T # {}
    PROVE  Min(T) \in T
<1>1. T \in SUBSET Nat
  BY Constants
<1>2. PICK m \in T : \A n \in T : m <= n
  BY <1>1, LeastNat
<1> QED BY <1>2 DEF Min

\* How many blocks are free.
LEMMA FreeFacts ==
    ASSUME NEW T \in SUBSET Blocks
    PROVE  /\ IsFiniteSet(T)
           /\ Cardinality(T) \in 0 .. NBlocks
           /\ Cardinality(T) = 0 <=> T = {}
           /\ \A b \in T : Cardinality(T \ {b}) = Cardinality(T) - 1
           /\ \A b \in Blocks \ T : Cardinality(T \cup {b}) = Cardinality(T) + 1
<1>1. IsFiniteSet(Blocks) /\ Cardinality(Blocks) = NBlocks
  BY Constants, FS_Interval
<1>2. IsFiniteSet(T) /\ Cardinality(T) <= NBlocks
  BY <1>1, FS_Subset
<1>3. Cardinality(T) \in Nat
  BY <1>2, FS_CardinalityType
<1>4. Cardinality(T) = 0 <=> T = {}
  BY <1>2, FS_EmptySet
<1>5. \A b \in T : Cardinality(T \ {b}) = Cardinality(T) - 1
  BY <1>2, FS_RemoveElement
<1>6. \A b \in Blocks \ T : Cardinality(T \cup {b}) = Cardinality(T) + 1
  BY <1>2, FS_AddElement
<1> QED BY <1>2, <1>3, <1>4, <1>5, <1>6, Constants

\* The fields of a record.
LEMMA RecFacts ==
    ASSUME NEW s \in Rec
    PROVE  /\ s.free \in SUBSET Blocks /\ s.unused \in 0 .. NBlocks
           /\ s.changed \in BOOLEAN /\ s.dirty \in BOOLEAN
           /\ s.entry \in Entries /\ s.din \in DiskInode
           /\ s.din.size \in Sizes /\ s.din.blocks \in 0 .. Capacity
           /\ s.din.direct \in [0 .. SFS_NDIRECT - 1 -> Blocks \cup {0}]
           /\ s.din.indirect \in Blocks \cup {0}
           /\ \A i \in Places : Place(s, i) \in Blocks \cup {0}
<1>1. /\ s.free \in SUBSET Blocks /\ s.unused \in 0 .. NBlocks
      /\ s.changed \in BOOLEAN /\ s.dirty \in BOOLEAN
      /\ s.entry \in Entries /\ s.din \in DiskInode
  BY DEF Rec
<1>2. /\ s.din.size \in Sizes /\ s.din.blocks \in 0 .. Capacity
      /\ s.din.direct \in [0 .. SFS_NDIRECT - 1 -> Blocks \cup {0}]
      /\ s.din.indirect \in Blocks \cup {0}
  BY <1>1 DEF DiskInode
<1>3. \A i \in Places : Place(s, i) \in Blocks \cup {0}
  <2>1. ASSUME NEW i \in Places PROVE Place(s, i) \in Blocks \cup {0}
    <3>1. CASE i < SFS_NDIRECT
      <4>1. i \in 0 .. SFS_NDIRECT - 1
        BY <3>1, Constants
      <4>2. s.din.direct[i] \in Blocks \cup {0}
        BY <1>2, <4>1
      <4> QED BY <3>1, <4>2 DEF Place
    <3>2. CASE ~(i < SFS_NDIRECT) /\ i < Capacity
      <4>1. i \in SFS_NDIRECT .. Capacity - 1
        BY <3>2, Constants
      <4>2. s.entry[i] \in Blocks \cup {0}
        BY <1>1, <4>1 DEF Entries
      <4> QED BY <3>2, <4>2 DEF Place
    <3>3. CASE ~(i < SFS_NDIRECT) /\ ~(i < Capacity)
      BY <1>2, <3>3 DEF Place
    <3> QED BY <3>1, <3>2, <3>3
  <2> QED BY <2>1
<1> QED BY <1>1, <1>2, <1>3

-----------------------------------------------------------------------------
(***************************************************************************)
(* One block.                                                              *)
(***************************************************************************)
\* Only the pointer i and, perhaps, the mark change.
Pointed(s, t, i, b) ==
    /\ t \in Rec
    /\ Place(t, i) = b
    /\ \A j \in Places : j # i => Place(t, j) = Place(s, j)
    /\ t.free = s.free /\ t.unused = s.unused /\ t.changed = s.changed /\ t.res = s.res
    /\ t.din.blocks = s.din.blocks /\ t.din.size = s.din.size
    /\ ~t.dirty => ~s.dirty /\ t.din = s.din

LEMMA SetPointerFacts ==
    ASSUME NEW s \in Rec, NEW i \in 0 .. Capacity - 1, NEW b \in Blocks \cup {0}
    PROVE  Pointed(s, SetPointer(s, i, b), i, b)
<1>1. i \in Nat /\ i < Capacity /\ i \in Places
  BY Constants
<1>2. CASE i < SFS_NDIRECT
  <2>1. PICK t : t = [s EXCEPT !.din.direct[i] = b, !.dirty = TRUE]
    OBVIOUS
  <2>2. PICK d : d = [s.din EXCEPT !.direct[i] = b]
    OBVIOUS
  <2>3. /\ d \in DiskInode /\ d.size = s.din.size /\ d.blocks = s.din.blocks
        /\ d.indirect = s.din.indirect /\ d.direct = [s.din.direct EXCEPT ![i] = b]
    BY <2>2, RecFacts DEF DiskInode
  <2>4. t.din = d /\ t.dirty = TRUE /\ t.entry = s.entry /\ t.free = s.free /\ t.unused = s.unused
          /\ t.changed = s.changed /\ t.res = s.res /\ t \in Rec
    BY <2>1, <2>2, <2>3 DEF Rec
  <2>5. i \in DOMAIN s.din.direct
    BY <1>1, <1>2, Constants, RecFacts
  <2>6. Place(t, i) = b
    BY <1>2, <2>3, <2>4, <2>5 DEF Place
  <2>7. \A j \in Places : j # i => Place(t, j) = Place(s, j)
    <3>1. \A j : j # i => d.direct[j] = s.din.direct[j]
      BY <2>3
    <3> QED BY <2>3, <2>4, <3>1 DEF Place
  <2>8. SetPointer(s, i, b) = t
    BY <1>2, <2>1 DEF SetPointer
  <2> QED BY <2>3, <2>4, <2>6, <2>7, <2>8 DEF Pointed
<1>3. CASE ~(i < SFS_NDIRECT)
  <2>1. PICK t : t = [s EXCEPT !.entry[i] = b]
    OBVIOUS
  <2>2. PICK e : e = [s.entry EXCEPT ![i] = b]
    OBVIOUS
  <2>3. e \in Entries /\ i \in DOMAIN s.entry
    BY <1>1, <1>3, <2>2, Constants, RecFacts DEF Entries
  <2>4. t.din = s.din /\ t.dirty = s.dirty /\ t.entry = e /\ t.free = s.free /\ t.unused = s.unused
          /\ t.changed = s.changed /\ t.res = s.res /\ t \in Rec
    BY <2>1, <2>2, <2>3 DEF Rec
  <2>5. Place(t, i) = b
    BY <1>1, <1>3, <2>2, <2>3, <2>4 DEF Place
  <2>6. \A j \in Places : j # i => Place(t, j) = Place(s, j)
    BY <2>2, <2>3, <2>4 DEF Place
  <2>7. SetPointer(s, i, b) = t
    BY <1>3, <2>1 DEF SetPointer
  <2> QED BY <2>4, <2>5, <2>6, <2>7 DEF Pointed
<1> QED BY <1>2, <1>3

\* Another result alone changes nothing.
LEMMA OtherResult ==
    ASSUME NEW U, NEW s, Good(s, U), NEW x \in Results
    PROVE  /\ Good([s EXCEPT !.res = x], U) /\ Grows(s, [s EXCEPT !.res = x])
           /\ [s EXCEPT !.res = x].din = s.din /\ [s EXCEPT !.res = x].res = x
<1>1. PICK t : t = [s EXCEPT !.res = x]
  OBVIOUS
<1>2. /\ t \in Rec /\ t.free = s.free /\ t.unused = s.unused /\ t.changed = s.changed
      /\ t.entry = s.entry /\ t.din = s.din /\ t.dirty = s.dirty /\ t.res = x
  BY <1>1 DEF Good, Rec
<1>3. \A i : Place(t, i) = Place(s, i)
  BY <1>2 DEF Place
<1>4. s.din.blocks \in Int
  BY RecFacts, Constants DEF Good
<1>5. Good(t, U)
  BY <1>2, <1>3 DEF Good
<1>6. Grows(s, t)
  BY <1>2, <1>3, <1>4 DEF Grows, Marks
<1> QED BY <1>1, <1>2, <1>5, <1>6

LEMMA GrowsSame ==
    ASSUME NEW U, NEW s, Good(s, U)
    PROVE  Grows(s, s)
<1>1. s.din.blocks \in Int
  BY RecFacts, Constants DEF Good
<1> QED BY <1>1 DEF Grows, Marks

LEMMA GrowsOn ==
    ASSUME NEW r \in Rec, NEW s \in Rec, NEW t \in Rec, Grows(r, s), Grows(s, t)
    PROVE  Grows(r, t)
<1>1. r.din.blocks \in Int /\ s.din.blocks \in Int /\ t.din.blocks \in Int
  BY RecFacts, Constants
<1> QED BY <1>1 DEF Grows, Marks

\* A free block at a place that had none.
LEMMA TookGood ==
    ASSUME NEW U \in SUBSET Blocks, NEW s, Good(s, U), NEW t, NEW i \in Places, NEW b,
           Took(s, t, i, b), Place(s, i) = 0
    PROVE  Good(t, U) /\ Grows(s, t)
<1>1. /\ s \in Rec /\ t \in Rec /\ b \in s.free /\ t.free = s.free \ {b} /\ b # 0
      /\ s.free \in SUBSET Blocks
  BY RecFacts, Constants DEF Good, Took
<1>2. \A j \in Places : Place(t, j) = IF j = i THEN b ELSE Place(s, j)
  BY DEF Took
<1>3. \A j \in Places : Place(s, j) # b
  BY <1>1 DEF Good
<1>4. \A j \in Places : Place(t, j) # 0 => Place(t, j) \in U \ t.free
  BY <1>1, <1>2, <1>3 DEF Good
<1>5. \A j, k \in Places : Place(t, j) = Place(t, k) /\ Place(t, j) # 0 => j = k
  BY <1>2, <1>3 DEF Good
<1>6. ASSUME NEW c \in U \ t.free PROVE \E j \in Places : Place(t, j) = c
  <2>1. CASE c = b
    BY <1>2, <2>1
  <2>2. CASE c # b
    <3>1. c \in U \ s.free /\ c # 0
      BY <1>1, <2>2, Constants
    <3>2. PICK j \in Places : Place(s, j) = c
      BY <3>1 DEF Good
    <3>3. j # i
      BY <3>1, <3>2
    <3> QED BY <1>2, <3>2, <3>3
  <2> QED BY <2>1, <2>2
<1>7. t.unused = Cardinality(t.free)
  <2>1. Cardinality(s.free \ {b}) = Cardinality(s.free) - 1
    BY <1>1, FreeFacts
  <2> QED BY <1>1, <2>1 DEF Good, Took
<1>8. s.din.blocks \in 0 .. Capacity /\ t.din.blocks = s.din.blocks
  BY <1>1, RecFacts DEF Took
<1>9. \A j \in 0 .. t.din.blocks - 1 : Place(t, j) # 0
  <2>1. \A j \in 0 .. s.din.blocks - 1 : j \in Places /\ Place(s, j) # 0
    BY <1>8, Constants DEF Good
  <2> QED BY <1>1, <1>2, <1>8, <2>1
<1>10. t.free \subseteq U
  BY <1>1 DEF Good
<1>11. Good(t, U)
  BY <1>1, <1>4, <1>5, <1>6, <1>7, <1>9, <1>10 DEF Good
<1>12. Grows(s, t)
  <2>1. \A j \in Places : Place(s, j) # 0 => Place(t, j) = Place(s, j)
    BY <1>2
  <2>2. s.din.blocks <= t.din.blocks
    BY <1>8, Constants
  <2> QED BY <2>1, <2>2 DEF Grows, Marks, Took
<1> QED BY <1>11, <1>12

\* sfs_block_alloc.
Allocated(s, t) ==
    /\ t \in Rec
    /\ s.free # {} /\ Min(s.free) \in s.free
    /\ t.free = s.free \ {Min(s.free)} /\ t.unused = s.unused - 1 /\ t.changed
    /\ t.entry = s.entry /\ t.din = s.din /\ t.dirty = s.dirty /\ t.res = s.res

LEMMA AllocFacts ==
    ASSUME NEW U, NEW s, Good(s, U), s.res = "ok"
    PROVE  IF s.free = {} THEN Alloc(s) = [s EXCEPT !.res = "full"]
                          ELSE Allocated(s, Alloc(s))
<1>1. CASE s.free = {}
  BY <1>1 DEF Alloc
<1>2. CASE s.free # {}
  <2>1. s \in Rec /\ s.free \in SUBSET Blocks /\ s.unused = Cardinality(s.free)
    BY RecFacts DEF Good
  <2>2. Min(s.free) \in s.free
    BY <1>2, <2>1, MinIn
  <2>3. /\ s.unused \in 0 .. NBlocks /\ s.unused # 0 /\ s.unused - 1 \in 0 .. NBlocks
    BY <1>2, <2>1, FreeFacts, Constants
  <2>4. PICK m \in s.free : m = Min(s.free)
    BY <2>2
  <2>5. Alloc(s) = [s EXCEPT !.free = s.free \ {m}, !.unused = s.unused - 1, !.changed = TRUE]
    BY <1>2, <2>3, <2>4 DEF Alloc
  <2>6. PICK t : t = [s EXCEPT !.free = s.free \ {m}, !.unused = s.unused - 1, !.changed = TRUE]
    OBVIOUS
  <2>7. /\ t \in Rec /\ t.free = s.free \ {m} /\ t.unused = s.unused - 1 /\ t.changed
        /\ t.entry = s.entry /\ t.din = s.din /\ t.dirty = s.dirty /\ t.res = s.res
    BY <2>1, <2>3, <2>6 DEF Rec
  <2> QED BY <1>2, <2>2, <2>4, <2>5, <2>6, <2>7 DEF Allocated
<1> QED BY <1>1, <1>2

\* sfs_block_alloc for a place.
LEMMA TakeBlock ==
    ASSUME NEW U, NEW s, Good(s, U), s.res = "ok", s.free # {}, NEW i \in 0 .. Capacity - 1
    PROVE  Took(s, SetPointer(Alloc(s), i, Min(s.free)), i, Min(s.free))
<1>1. PICK u : u = Alloc(s)
  OBVIOUS
<1>2. Allocated(s, u)
  BY <1>1, AllocFacts
<1>3. PICK m \in s.free : m = Min(s.free)
  BY <1>2 DEF Allocated
<1>4. u \in Rec /\ m \in Blocks \cup {0}
  BY <1>2, RecFacts DEF Allocated, Good
<1>5. PICK t : t = SetPointer(u, i, m)
  OBVIOUS
<1>6. Pointed(u, t, i, m)
  BY <1>4, <1>5, SetPointerFacts
<1>7. \A j : Place(u, j) = Place(s, j)
  BY <1>2 DEF Allocated, Place
<1>8. Took(s, t, i, m)
  BY <1>2, <1>3, <1>6, <1>7 DEF Took, Pointed, Allocated
<1> QED BY <1>1, <1>3, <1>5, <1>8

\* sfs_bmap_get_nolock, the indirect block.
LEMMA IndirectFacts ==
    ASSUME NEW U \in SUBSET Blocks, NEW s, Good(s, U), s.res = "ok"
    PROVE  \/ AllocIndirect(s) = [s EXCEPT !.res = "full"]
           \/ /\ Good(AllocIndirect(s), U) /\ Grows(s, AllocIndirect(s))
              /\ AllocIndirect(s).res = "ok"
              /\ AllocIndirect(s).din.blocks = s.din.blocks
              /\ \A j \in 0 .. Capacity - 1 : Place(AllocIndirect(s), j) = Place(s, j)
<1>1. CASE s.din.indirect # 0
  BY <1>1, GrowsSame DEF AllocIndirect
<1>2. CASE s.din.indirect = 0 /\ s.free = {}
  <2>1. Alloc(s) = [s EXCEPT !.res = "full"]
    BY <1>2, AllocFacts
  <2>2. Alloc(s).res # "ok"
    BY <2>1, OtherResult DEF Results
  <2> QED BY <1>2, <2>1, <2>2 DEF AllocIndirect
<1>3. CASE s.din.indirect = 0 /\ s.free # {}
  <2>1. PICK u : u = Alloc(s)
    OBVIOUS
  <2>2. Allocated(s, u) /\ u.res = "ok"
    BY <1>3, <2>1, AllocFacts DEF Allocated
  <2>3. CASE u.free = {}
    BY <1>3, <2>1, <2>2, <2>3 DEF AllocIndirect
  <2>4. CASE u.free # {}
    <3>1. PICK m \in s.free : m = Min(s.free)
      BY <2>2 DEF Allocated
    <3>2. PICK d : d = [u.din EXCEPT !.indirect = m]
      OBVIOUS
    <3>3. PICK t : t = [u EXCEPT !.din.indirect = m, !.dirty = TRUE]
      OBVIOUS
    <3>4. AllocIndirect(s) = t
      BY <1>3, <2>1, <2>2, <2>4, <3>1, <3>3 DEF AllocIndirect
    <3>5. /\ u \in Rec /\ m \in Blocks
      BY <2>2, RecFacts DEF Allocated, Good
    <3>6. /\ d \in DiskInode /\ d.direct = u.din.direct /\ d.indirect = m
          /\ d.blocks = u.din.blocks /\ d.size = u.din.size
      BY <3>2, <3>5, RecFacts DEF DiskInode
    <3>7. /\ t \in Rec /\ t.din = d /\ t.dirty = TRUE /\ t.free = u.free /\ t.unused = u.unused
          /\ t.changed = u.changed /\ t.entry = u.entry /\ t.res = u.res
      BY <3>2, <3>3, <3>5, <3>6 DEF Rec
    <3>8. Capacity \in Places /\ Place(t, Capacity) = m /\ Place(s, Capacity) = 0
      BY <1>3, <3>6, <3>7, Constants DEF Place
    <3>9. \A j \in 0 .. Capacity - 1 : Place(t, j) = Place(s, j)
      <4>1. u.din = s.din /\ u.entry = s.entry
        BY <2>2 DEF Allocated
      <4> QED BY <3>6, <3>7, <4>1, Constants DEF Place
    <3>10. \A j \in Places : j # Capacity => j \in 0 .. Capacity - 1
      BY Constants
    <3>11. Took(s, t, Capacity, m)
      BY <2>2, <3>1, <3>6, <3>7, <3>8, <3>9, <3>10 DEF Took, Allocated
    <3>12. Good(t, U) /\ Grows(s, t)
      BY <3>8, <3>11, TookGood
    <3>13. t.din.blocks = s.din.blocks /\ t.res = "ok"
      BY <3>11 DEF Took
    <3> QED BY <3>4, <3>9, <3>12, <3>13
  <2> QED BY <2>3, <2>4
<1> QED BY <1>1, <1>2, <1>3

\* sfs_bmap_get_nolock, the block itself.
Got(s, r, i, U) ==
    /\ Good(r, U) /\ Grows(s, r)
    /\ r.din.blocks = s.din.blocks
    /\ r.res = "ok" => Place(r, i) # 0

LEMMA GetFacts ==
    ASSUME NEW U \in SUBSET Blocks, NEW t, Good(t, U), t.res = "ok",
           NEW i \in 0 .. Capacity - 1, Place(t, i) = 0
    PROVE  Got(t, IF Alloc(t).res = "ok" THEN SetPointer(Alloc(t), i, Min(t.free)) ELSE Alloc(t),
               i, U)
<1>1. i \in Places
  BY Constants
<1>2. CASE t.free = {}
  <2>1. Alloc(t) = [t EXCEPT !.res = "full"]
    BY <1>2, AllocFacts
  <2>2. PICK u : u = [t EXCEPT !.res = "full"]
    OBVIOUS
  <2>3. /\ Good([t EXCEPT !.res = "full"], U) /\ Grows(t, [t EXCEPT !.res = "full"])
        /\ [t EXCEPT !.res = "full"].din = t.din /\ [t EXCEPT !.res = "full"].res = "full"
    <3>1. "full" \in Results
      BY DEF Results
    <3> QED BY <3>1, OtherResult
  <2> QED BY <2>1, <2>2, <2>3 DEF Got
<1>3. CASE t.free # {}
  <2>1. Alloc(t).res = "ok"
    BY <1>3, AllocFacts DEF Allocated
  <2>2. PICK r : r = SetPointer(Alloc(t), i, Min(t.free))
    OBVIOUS
  <2>3. PICK b : b = Min(t.free)
    OBVIOUS
  <2>4. Took(t, r, i, b)
    BY <1>3, <2>2, <2>3, TakeBlock
  <2>5. Good(r, U) /\ Grows(t, r)
    BY <1>1, <2>4, TookGood
  <2>6. b \in Blocks /\ Place(r, i) = b /\ r.din.blocks = t.din.blocks
    BY <2>4, RecFacts DEF Took, Good
  <2> QED BY <2>1, <2>2, <2>5, <2>6, Constants DEF Got
<1> QED BY <1>2, <1>3

LEMMA NewBlockFacts ==
    ASSUME NEW U \in SUBSET Blocks, NEW s, Good(s, U), s.res = "ok",
           NEW i \in 0 .. Capacity - 1, Place(s, i) = 0
    PROVE  Got(s, NewBlock(s, i), i, U)
<1>1. CASE i < SFS_NDIRECT
  BY <1>1, GetFacts DEF NewBlock
<1>2. CASE ~(i < SFS_NDIRECT)
  <2>1. PICK t : t = AllocIndirect(s)
    OBVIOUS
  <2>2. CASE t = [s EXCEPT !.res = "full"]
    <3>1. Good(t, U) /\ Grows(s, t) /\ t.din = s.din /\ t.res = "full"
      <4>1. /\ Good([s EXCEPT !.res = "full"], U) /\ Grows(s, [s EXCEPT !.res = "full"])
            /\ [s EXCEPT !.res = "full"].din = s.din /\ [s EXCEPT !.res = "full"].res = "full"
        <5>1. "full" \in Results
          BY DEF Results
        <5> QED BY <5>1, OtherResult
      <4> QED BY <2>2, <4>1
    <3>2. NewBlock(s, i) = t
      BY <1>2, <2>1, <3>1 DEF NewBlock
    <3> QED BY <3>1, <3>2 DEF Got
  <2>3. CASE /\ Good(t, U) /\ Grows(s, t)
             /\ t.res = "ok"
             /\ t.din.blocks = s.din.blocks
             /\ \A j \in 0 .. Capacity - 1 : Place(t, j) = Place(s, j)
    <3>1. PICK r : r = IF Alloc(t).res = "ok" THEN SetPointer(Alloc(t), i, Min(t.free))
                                              ELSE Alloc(t)
      OBVIOUS
    <3>2. NewBlock(s, i) = r
      BY <1>2, <2>1, <2>3, <3>1 DEF NewBlock
    <3>3. Got(t, r, i, U)
      BY <2>3, <3>1, GetFacts
    <3>4. s \in Rec /\ t \in Rec /\ r \in Rec
      BY <2>3, <3>3 DEF Got, Good
    <3>5. Grows(s, r)
      BY <2>3, <3>3, <3>4, GrowsOn DEF Got
    <3> QED BY <2>3, <3>2, <3>3, <3>5 DEF Got
  <2> QED BY <2>1, <2>2, <2>3, IndirectFacts
<1> QED BY <1>1, <1>2

\* The file is one block longer.
LEMMA CountBlock ==
    ASSUME NEW U, NEW s, Good(s, U), s.din.blocks < Capacity, Place(s, s.din.blocks) # 0
    PROVE  /\ Good([s EXCEPT !.din.blocks = @ + 1], U)
           /\ Grows(s, [s EXCEPT !.din.blocks = @ + 1])
<1>1. s \in Rec /\ s.din \in DiskInode /\ s.din.blocks \in Nat
  BY RecFacts, Constants DEF Good
<1>2. PICK n : n = s.din.blocks + 1
  OBVIOUS
<1>3. n \in 1 .. Capacity /\ n \in 0 .. Capacity
  BY <1>1, <1>2, Constants
<1>4. PICK d : d = [s.din EXCEPT !.blocks = n]
  OBVIOUS
<1>5. /\ d \in DiskInode /\ d.direct = s.din.direct /\ d.indirect = s.din.indirect
      /\ d.blocks = n /\ d.size = s.din.size
  BY <1>1, <1>3, <1>4 DEF DiskInode
<1>6. PICK t : t = [s EXCEPT !.din.blocks = @ + 1]
  OBVIOUS
<1>7. /\ t \in Rec /\ t.din = d /\ t.free = s.free /\ t.unused = s.unused
      /\ t.changed = s.changed /\ t.entry = s.entry /\ t.dirty = s.dirty
  BY <1>1, <1>2, <1>4, <1>5, <1>6 DEF Rec
<1>8. \A j : Place(t, j) = Place(s, j)
  BY <1>5, <1>7 DEF Place
<1>9. \A j \in 0 .. n - 1 : Place(t, j) # 0
  <2>1. \A j \in 0 .. n - 1 : j \in 0 .. s.din.blocks - 1 \/ j = s.din.blocks
    BY <1>1, <1>2
  <2> QED BY <1>8, <2>1 DEF Good
<1>10. Good(t, U)
  BY <1>5, <1>7, <1>8, <1>9 DEF Good
<1>11. Grows(s, t)
  BY <1>1, <1>2, <1>5, <1>7, <1>8 DEF Grows, Marks
<1> QED BY <1>6, <1>10, <1>11

\* sfs_bmap_load_nolock keeps the file good, and gives it blocks only.
LEMMA LoadFacts ==
    ASSUME NEW U \in SUBSET Blocks, NEW s, Good(s, U), NEW i \in Nat
    PROVE  Good(sfs_bmap_load_nolock(s, i), U) /\ Grows(s, sfs_bmap_load_nolock(s, i))
<1>1. s \in Rec /\ s.din.blocks \in Nat /\ s.din.blocks <= Capacity
  BY RecFacts, Constants DEF Good
<1>2. CASE s.res # "ok"
  BY <1>2, GrowsSame DEF sfs_bmap_load_nolock
<1>3. CASE s.res = "ok" /\ i > s.din.blocks
  <2>1. PICK x \in Results : x = "index <= din->blocks"
    BY DEF Results
  <2>2. Good([s EXCEPT !.res = x], U) /\ Grows(s, [s EXCEPT !.res = x])
    BY OtherResult
  <2>3. sfs_bmap_load_nolock(s, i) = [s EXCEPT !.res = x]
    BY <1>3, <2>1 DEF sfs_bmap_load_nolock
  <2> QED BY <2>2, <2>3
<1>4. CASE s.res = "ok" /\ ~(i > s.din.blocks) /\ i >= Capacity
  <2>1. PICK x \in Results : x = "index out of range"
    BY DEF Results
  <2>2. Good([s EXCEPT !.res = x], U) /\ Grows(s, [s EXCEPT !.res = x])
    BY OtherResult
  <2>3. sfs_bmap_load_nolock(s, i) = [s EXCEPT !.res = x]
    BY <1>4, <2>1 DEF sfs_bmap_load_nolock
  <2> QED BY <2>2, <2>3
<1>5. CASE s.res = "ok" /\ i < s.din.blocks
  <2>1. ~(i > s.din.blocks) /\ ~(i >= Capacity) /\ i # s.din.blocks
    BY <1>1, <1>5, Constants
  <2>2. sfs_bmap_load_nolock(s, i) = s
    BY <1>5, <2>1 DEF sfs_bmap_load_nolock
  <2> QED BY <2>2, GrowsSame
<1>6. CASE s.res = "ok" /\ i = s.din.blocks /\ ~(i >= Capacity)
  <2>1. i \in 0 .. Capacity - 1 /\ ~(i > s.din.blocks) /\ i < Capacity
    BY <1>1, <1>6, Constants
  <2>2. Pointer(s, i) = Place(s, i)
    BY <2>1 DEF Pointer, Place
  <2>3. PICK t : t = IF Pointer(s, i) = 0 /\ i = s.din.blocks THEN NewBlock(s, i) ELSE s
    OBVIOUS
  <2>4. Got(s, t, i, U)
    <3>1. CASE Place(s, i) = 0
      BY <1>6, <2>1, <2>2, <2>3, <3>1, NewBlockFacts
    <3>2. CASE Place(s, i) # 0
      BY <2>2, <2>3, <3>2, GrowsSame DEF Got
    <3> QED BY <3>1, <3>2
  <2>5. CASE t.res = "ok"
    <3>1. PICK r : r = [t EXCEPT !.din.blocks = @ + 1]
      OBVIOUS
    <3>2. sfs_bmap_load_nolock(s, i) = r
      BY <1>6, <2>1, <2>3, <2>5, <3>1 DEF sfs_bmap_load_nolock
    <3>3. Good(t, U) /\ t.din.blocks = i /\ Place(t, i) # 0
      BY <1>6, <2>4, <2>5 DEF Got
    <3>4. Good(r, U) /\ Grows(t, r)
      BY <2>1, <3>1, <3>3, CountBlock
    <3>5. s \in Rec /\ t \in Rec /\ r \in Rec
      BY <3>3, <3>4, <1>1 DEF Good
    <3> QED BY <2>4, <3>2, <3>4, <3>5, GrowsOn DEF Got
  <2>6. CASE t.res # "ok"
    <3>1. sfs_bmap_load_nolock(s, i) = t
      BY <1>6, <2>1, <2>3, <2>6 DEF sfs_bmap_load_nolock
    <3> QED BY <2>4, <3>1 DEF Got
  <2> QED BY <2>5, <2>6
<1> QED BY <1>1, <1>2, <1>3, <1>4, <1>5, <1>6

\* sfs_bmap_truncate_nolock keeps the file good, and takes its last block.
LEMMA TruncateFacts ==
    ASSUME NEW U \in SUBSET Blocks, NEW s, Good(s, U), s.din.blocks > 0
    PROVE  /\ Good(sfs_bmap_truncate_nolock(s), U)
           /\ Shrinks(s, sfs_bmap_truncate_nolock(s), s.din.blocks - 1)
           /\ sfs_bmap_truncate_nolock(s).din.blocks = s.din.blocks - 1
           /\ sfs_bmap_truncate_nolock(s).res = s.res
<1>1. s \in Rec /\ s.din.blocks \in Nat /\ s.din.blocks <= Capacity /\ s.free \in SUBSET Blocks
  BY RecFacts, Constants DEF Good
<1>2. PICK i : i = s.din.blocks - 1
  OBVIOUS
<1>3. /\ i \in 0 .. Capacity - 1 /\ i \in Places /\ i < Capacity /\ i \in 0 .. Capacity
      /\ i \in 0 .. s.din.blocks - 1
  BY <1>1, <1>2, Constants
<1>4. Pointer(s, i) = Place(s, i)
  BY <1>3 DEF Pointer, Place
<1>5. PICK b : b = Place(s, i)
  OBVIOUS
<1>6. b # 0 /\ b \in U \ s.free /\ b \in Blocks
  BY <1>3, <1>5 DEF Good
<1>7. PICK v : v = sfs_block_free(s, b)
  OBVIOUS
<1>8. /\ v \in Rec /\ v.free = s.free \cup {b} /\ v.unused = Cardinality(v.free) /\ v.changed
      /\ v.entry = s.entry /\ v.din = s.din /\ v.dirty = s.dirty /\ v.res = s.res
  <2>1. PICK F : F = s.free \cup {b}
    OBVIOUS
  <2>2. F \in SUBSET Blocks /\ Cardinality(F) = s.unused + 1 /\ Cardinality(F) \in 0 .. NBlocks
    <3>1. F \in SUBSET Blocks
      BY <1>1, <1>6, <2>1
    <3>2. Cardinality(F) \in 0 .. NBlocks
      BY <3>1, FreeFacts
    <3>3. Cardinality(F) = Cardinality(s.free) + 1
      BY <1>1, <1>6, <2>1, FreeFacts
    <3> QED BY <3>1, <3>2, <3>3 DEF Good
  <2>3. v = [s EXCEPT !.free = F, !.unused = Cardinality(F), !.changed = TRUE]
    BY <1>7, <2>1, <2>2 DEF sfs_block_free
  <2> QED BY <1>1, <2>1, <2>2, <2>3 DEF Rec
<1>9. PICK u : u = SetPointer(v, i, 0)
  OBVIOUS
<1>10. Pointed(v, u, i, 0)
  BY <1>3, <1>8, <1>9, SetPointerFacts
<1>11. \A j : Place(v, j) = Place(s, j)
  BY <1>8 DEF Place
<1>12. /\ u \in Rec /\ u.free = s.free \cup {b} /\ u.unused = Cardinality(u.free) /\ u.changed
       /\ u.din.size = s.din.size /\ u.res = s.res
       /\ \A j \in Places : Place(u, j) = IF j = i THEN 0 ELSE Place(s, j)
  BY <1>8, <1>10, <1>11 DEF Pointed
<1>13. PICK t : t = [u EXCEPT !.din.blocks = i, !.dirty = TRUE]
  OBVIOUS
<1>14. PICK d : d = [u.din EXCEPT !.blocks = i]
  OBVIOUS
<1>15. /\ d \in DiskInode /\ d.direct = u.din.direct /\ d.indirect = u.din.indirect
       /\ d.blocks = i /\ d.size = u.din.size
  BY <1>3, <1>12, <1>14, RecFacts DEF DiskInode
<1>16. /\ t \in Rec /\ t.din = d /\ t.dirty = TRUE /\ t.free = u.free /\ t.unused = u.unused
       /\ t.changed = u.changed /\ t.entry = u.entry /\ t.res = u.res
  BY <1>12, <1>13, <1>14, <1>15 DEF Rec
<1>17. \A j \in Places : Place(t, j) = IF j = i THEN 0 ELSE Place(s, j)
  <2>1. \A j : Place(t, j) = Place(u, j)
    BY <1>15, <1>16 DEF Place
  <2> QED BY <1>12, <2>1
<1>18. sfs_bmap_truncate_nolock(s) = t
  BY <1>2, <1>4, <1>5, <1>6, <1>7, <1>9, <1>13 DEF sfs_bmap_truncate_nolock
<1>19. Good(t, U)
  <2>1. t.free = s.free \cup {b} /\ t.unused = Cardinality(t.free)
    BY <1>12, <1>16
  <2>2. t.free \subseteq U
    BY <1>6, <2>1 DEF Good
  <2>3. \A j \in Places : Place(t, j) # 0 => Place(t, j) \in U \ t.free
    <3>1. \A j \in Places : j # i => Place(s, j) # b
      BY <1>3, <1>5, <1>6 DEF Good
    <3> QED BY <1>17, <2>1, <3>1 DEF Good
  <2>4. \A j, k \in Places : Place(t, j) = Place(t, k) /\ Place(t, j) # 0 => j = k
    BY <1>17 DEF Good
  <2>5. ASSUME NEW c \in U \ t.free PROVE \E j \in Places : Place(t, j) = c
    <3>1. c \in U \ s.free /\ c # b
      BY <2>1
    <3>2. PICK j \in Places : Place(s, j) = c
      BY <3>1 DEF Good
    <3>3. j # i
      BY <1>5, <3>1, <3>2
    <3> QED BY <1>17, <3>2, <3>3
  <2>6. \A j \in 0 .. t.din.blocks - 1 : Place(t, j) # 0
    <3>1. t.din.blocks = i
      BY <1>15, <1>16
    <3>2. \A j \in 0 .. i - 1 : j \in Places /\ j # i /\ j \in 0 .. s.din.blocks - 1
      <4>1. i \in Nat /\ i + 1 = s.din.blocks /\ i < Capacity
        BY <1>1, <1>2, <1>3
      <4> QED BY <4>1, Constants
    <3> QED BY <1>17, <3>1, <3>2 DEF Good
  <2> QED BY <1>16, <2>1, <2>2, <2>3, <2>4, <2>5, <2>6 DEF Good
<1>20. Shrinks(s, t, i)
  <2>1. Marks(s, t)
    BY <1>12, <1>16 DEF Marks
  <2>2. s.din.size = t.din.size
    BY <1>12, <1>15, <1>16
  <2>3. i <= i
    BY <1>3
  <2> QED BY <1>3, <1>17, <2>1, <2>2, <2>3 DEF Shrinks
<1> QED BY <1>2, <1>12, <1>15, <1>16, <1>18, <1>19, <1>20

-----------------------------------------------------------------------------
(***************************************************************************)
(* The loops: what is true after none of the turns, and kept by each.      *)
(***************************************************************************)
LoadsTo(h, s, a, n) ==
    h = [k \in 0 .. n |-> IF k = 0 THEN s ELSE sfs_bmap_load_nolock(h[k - 1], a + k - 1)]

LEMMA LoadsExist ==
    ASSUME NEW s, NEW a \in Nat, NEW n \in Nat
    PROVE  \E h : LoadsTo(h, s, a, n)
<1> DEFINE T == {m \in Nat : ~ \E h : LoadsTo(h, s, a, m)}
<1>1. SUFFICES T = {}
  OBVIOUS
<1>2. SUFFICES ASSUME T # {} PROVE FALSE
  OBVIOUS
<1>3. PICK m \in T : \A x \in T : m <= x
  <2>1. T \in SUBSET Nat
    OBVIOUS
  <2> HIDE DEF T
  <2> QED BY <1>2, <2>1, LeastNat
<1>4. m # 0
  <2>1. PICK h : h = [k \in 0 .. 0 |-> s]
    OBVIOUS
  <2>2. \A k \in 0 .. 0 : k = 0
    OBVIOUS
  <2>3. LoadsTo(h, s, a, 0)
    BY <2>1, <2>2 DEF LoadsTo
  <2> QED BY <1>3, <2>3
<1>5. m - 1 \in Nat /\ m - 1 \notin T
  BY <1>3, <1>4
<1>6. PICK h : LoadsTo(h, s, a, m - 1)
  BY <1>5
<1>7. PICK g : g = [k \in 0 .. m |-> IF k = m THEN sfs_bmap_load_nolock(h[m - 1], a + m - 1)
                                     ELSE h[k]]
  OBVIOUS
<1>8. \A k \in 0 .. m - 1 : g[k] = h[k]
  BY <1>3, <1>7
<1>9. \A k \in 0 .. m : g[k] = IF k = 0 THEN s ELSE sfs_bmap_load_nolock(g[k - 1], a + k - 1)
  <2>1. ASSUME NEW k \in 0 .. m PROVE k = m \/ k \in 0 .. m - 1
    BY <1>3
  <2>2. ASSUME NEW k \in 0 .. m - 1
        PROVE  g[k] = IF k = 0 THEN s ELSE sfs_bmap_load_nolock(g[k - 1], a + k - 1)
    <3>1. h[k] = IF k = 0 THEN s ELSE sfs_bmap_load_nolock(h[k - 1], a + k - 1)
      BY <1>6 DEF LoadsTo
    <3>2. k # 0 => k - 1 \in 0 .. m - 1
      OBVIOUS
    <3> QED BY <1>8, <3>1, <3>2
  <2>3. m \in 0 .. m /\ m - 1 \in 0 .. m - 1
    BY <1>5, <1>3
  <2>4. g[m] = sfs_bmap_load_nolock(g[m - 1], a + m - 1)
    BY <1>7, <1>8, <2>3
  <2> QED BY <1>4, <2>1, <2>2, <2>4
<1>10. LoadsTo(g, s, a, m)
  BY <1>7, <1>9 DEF LoadsTo
<1> QED BY <1>3, <1>10

LEMMA LoadAllFacts ==
    ASSUME NEW U \in SUBSET Blocks, NEW s, Good(s, U), NEW a \in Nat, NEW n \in Nat
    PROVE  Good(LoadAll(s, a, n), U) /\ Grows(s, LoadAll(s, a, n))
<1>1. PICK h : LoadsTo(h, s, a, n) /\ LoadAll(s, a, n) = h[n]
  <2>1. PICK h : h = CHOOSE c : LoadsTo(c, s, a, n)
    OBVIOUS
  <2>2. LoadsTo(h, s, a, n)
    BY <2>1, LoadsExist
  <2>3. LoadAll(s, a, n) = (CHOOSE c : LoadsTo(c, s, a, n))[n]
    BY Zenon DEF LoadAll, LoadsTo
  <2> QED BY <2>1, <2>2, <2>3
<1>2. \A k \in 0 .. n : h[k] = IF k = 0 THEN s ELSE sfs_bmap_load_nolock(h[k - 1], a + k - 1)
  BY <1>1 DEF LoadsTo
<1> DEFINE T == {k \in 0 .. n : ~(Good(h[k], U) /\ Grows(s, h[k]))}
<1>3. T = {}
  <2>1. SUFFICES ASSUME T # {} PROVE FALSE
    OBVIOUS
  <2>2. PICK m \in T : \A x \in T : m <= x
    <3>1. T \in SUBSET Nat
      OBVIOUS
    <3> HIDE DEF T
    <3> QED BY <2>1, <3>1, LeastNat
  <2>3. m # 0
    <3>1. h[0] = s
      BY <1>2
    <3> QED BY <2>2, <3>1, GrowsSame
  <2>4. m \in 0 .. n /\ m - 1 \in 0 .. n /\ m - 1 \notin T /\ a + m - 1 \in Nat
    BY <2>2, <2>3
  <2>5. Good(h[m - 1], U) /\ Grows(s, h[m - 1])
    BY <2>4
  <2>6. h[m] = sfs_bmap_load_nolock(h[m - 1], a + m - 1)
    BY <1>2, <2>3, <2>4
  <2>7. PICK u : u = h[m - 1]
    OBVIOUS
  <2>8. PICK i \in Nat : i = a + m - 1
    BY <2>4
  <2>9. PICK t : t = sfs_bmap_load_nolock(u, i)
    OBVIOUS
  <2>10. Good(u, U) /\ Grows(s, u)
    BY <2>5, <2>7
  <2>11. Good(t, U) /\ Grows(u, t)
    BY <2>9, <2>10, LoadFacts
  <2>12. Grows(s, t)
    BY <2>10, <2>11, GrowsOn DEF Good
  <2> QED BY <2>2, <2>6, <2>7, <2>8, <2>9, <2>11, <2>12
<1>4. n \in 0 .. n /\ n \notin T
  BY <1>3
<1> QED BY <1>1, <1>4

TruncatesTo(h, s, n) ==
    h = [k \in 0 .. n |-> IF k = 0 THEN s ELSE sfs_bmap_truncate_nolock(h[k - 1])]

LEMMA TruncatesExist ==
    ASSUME NEW s, NEW n \in Nat
    PROVE  \E h : TruncatesTo(h, s, n)
<1> DEFINE T == {m \in Nat : ~ \E h : TruncatesTo(h, s, m)}
<1>1. SUFFICES ASSUME T # {} PROVE FALSE
  OBVIOUS
<1>2. PICK m \in T : \A x \in T : m <= x
  <2>1. T \in SUBSET Nat
    OBVIOUS
  <2> HIDE DEF T
  <2> QED BY <1>1, <2>1, LeastNat
<1>3. m # 0
  <2>1. PICK h : h = [k \in 0 .. 0 |-> s]
    OBVIOUS
  <2>2. \A k \in 0 .. 0 : k = 0
    OBVIOUS
  <2>3. TruncatesTo(h, s, 0)
    BY <2>1, <2>2 DEF TruncatesTo
  <2> QED BY <1>2, <2>3
<1>4. m - 1 \in Nat /\ m - 1 \notin T
  BY <1>2, <1>3
<1>5. PICK h : TruncatesTo(h, s, m - 1)
  BY <1>4
<1>6. PICK g : g = [k \in 0 .. m |-> IF k = m THEN sfs_bmap_truncate_nolock(h[m - 1]) ELSE h[k]]
  OBVIOUS
<1>7. \A k \in 0 .. m - 1 : g[k] = h[k]
  BY <1>2, <1>6
<1>8. \A k \in 0 .. m : g[k] = IF k = 0 THEN s ELSE sfs_bmap_truncate_nolock(g[k - 1])
  <2>1. ASSUME NEW k \in 0 .. m PROVE k = m \/ k \in 0 .. m - 1
    BY <1>2
  <2>2. ASSUME NEW k \in 0 .. m - 1
        PROVE  g[k] = IF k = 0 THEN s ELSE sfs_bmap_truncate_nolock(g[k - 1])
    <3>1. h[k] = IF k = 0 THEN s ELSE sfs_bmap_truncate_nolock(h[k - 1])
      BY <1>5 DEF TruncatesTo
    <3>2. k # 0 => k - 1 \in 0 .. m - 1
      OBVIOUS
    <3> QED BY <1>7, <3>1, <3>2
  <2>3. m \in 0 .. m /\ m - 1 \in 0 .. m - 1
    BY <1>4, <1>2
  <2>4. g[m] = sfs_bmap_truncate_nolock(g[m - 1])
    BY <1>6, <1>7, <2>3
  <2> QED BY <1>3, <2>1, <2>2, <2>4
<1>9. TruncatesTo(g, s, m)
  BY <1>6, <1>8 DEF TruncatesTo
<1> QED BY <1>2, <1>9

LEMMA ShrinksOn ==
    ASSUME NEW r \in Rec, NEW s \in Rec, NEW t \in Rec, NEW n \in Int, NEW m \in Int, m <= n,
           Shrinks(r, s, n), Shrinks(s, t, m)
    PROVE  Shrinks(r, t, m)
<1>1. r.din.blocks \in Int /\ s.din.blocks \in Int /\ t.din.blocks \in Int
  BY RecFacts, Constants
<1>2. Marks(r, t) /\ r.din.size = t.din.size
  BY <1>1 DEF Shrinks, Marks
<1>3. \A i \in Places : Place(t, i) # Place(r, i) => Place(t, i) = 0 /\ m <= i /\ i < Capacity
  BY Constants DEF Shrinks
<1> QED BY <1>2, <1>3 DEF Shrinks

\* The last n blocks are gone.
Cut(s, t, n, U) ==
    /\ Good(t, U) /\ Shrinks(s, t, s.din.blocks - n)
    /\ t.din.blocks = s.din.blocks - n
    /\ t.res = s.res

LEMMA TruncateAllFacts ==
    ASSUME NEW U \in SUBSET Blocks, NEW s, Good(s, U), NEW n \in 0 .. s.din.blocks
    PROVE  Cut(s, TruncateAll(s, n), n, U)
<1>1. s \in Rec /\ s.din.blocks \in Nat /\ n \in Nat /\ n <= s.din.blocks
  BY RecFacts, Constants DEF Good
<1>2. PICK h : TruncatesTo(h, s, n) /\ TruncateAll(s, n) = h[n]
  <2>1. PICK h : h = CHOOSE c : TruncatesTo(c, s, n)
    OBVIOUS
  <2>2. TruncatesTo(h, s, n)
    BY <1>1, <2>1, TruncatesExist
  <2>3. TruncateAll(s, n) = (CHOOSE c : TruncatesTo(c, s, n))[n]
    BY Zenon DEF TruncateAll, TruncatesTo
  <2> QED BY <2>1, <2>2, <2>3
<1>3. \A k \in 0 .. n : h[k] = IF k = 0 THEN s ELSE sfs_bmap_truncate_nolock(h[k - 1])
  BY <1>2 DEF TruncatesTo
<1> DEFINE T == {k \in 0 .. n : ~Cut(s, h[k], k, U)}
<1>4. T = {}
  <2>1. SUFFICES ASSUME T # {} PROVE FALSE
    OBVIOUS
  <2>2. PICK m \in T : \A x \in T : m <= x
    <3>1. T \in SUBSET Nat
      OBVIOUS
    <3> HIDE DEF T
    <3> QED BY <2>1, <3>1, LeastNat
  <2>3. m # 0
    <3>1. h[0] = s
      BY <1>1, <1>3
    <3>2. Marks(s, s)
      BY <1>1 DEF Marks
    <3>3. Cut(s, s, 0, U)
      BY <1>1, <3>2 DEF Cut, Shrinks
    <3> QED BY <2>2, <3>1, <3>3
  <2>4. m \in 0 .. n /\ m - 1 \in 0 .. n /\ m - 1 \notin T
    BY <1>1, <2>2, <2>3
  <2>5. h[m] = sfs_bmap_truncate_nolock(h[m - 1])
    BY <1>3, <2>3, <2>4
  <2>6. PICK u : u = h[m - 1]
    OBVIOUS
  <2>7. PICK t : t = sfs_bmap_truncate_nolock(u)
    OBVIOUS
  <2>8. Cut(s, u, m - 1, U)
    BY <2>4, <2>6
  <2>9. Good(u, U) /\ u.din.blocks = s.din.blocks - (m - 1) /\ u.din.blocks > 0
    BY <1>1, <2>4, <2>8 DEF Cut
  <2>10. /\ Good(t, U) /\ Shrinks(u, t, u.din.blocks - 1)
         /\ t.din.blocks = u.din.blocks - 1 /\ t.res = u.res
    BY <2>7, <2>9, TruncateFacts
  <2>11. u.din.blocks - 1 = s.din.blocks - m
    BY <1>1, <2>4, <2>9
  <2>12. Shrinks(u, t, s.din.blocks - m)
    BY <2>10, <2>11
  <2>13. Shrinks(s, t, s.din.blocks - m)
    <3>1. /\ s.din.blocks - m \in Int /\ s.din.blocks - (m - 1) \in Int
          /\ s.din.blocks - m <= s.din.blocks - (m - 1)
      BY <1>1, <2>4
    <3>2. Shrinks(s, u, s.din.blocks - (m - 1)) /\ u \in Rec /\ t \in Rec
      BY <2>8, <2>10 DEF Cut, Good
    <3> QED BY <1>1, <2>12, <3>1, <3>2, ShrinksOn
  <2>14. Cut(s, t, m, U)
    BY <2>8, <2>10, <2>11, <2>13 DEF Cut
  <2> QED BY <2>2, <2>5, <2>6, <2>7, <2>14
<1>5. n \in 0 .. n /\ n \notin T
  BY <1>1, <1>4
<1> QED BY <1>2, <1>5

-----------------------------------------------------------------------------
(***************************************************************************)
(* sfs_truncfile and sfs_io_nolock.                                        *)
(***************************************************************************)
\* From s to t, a block that the file has stays at its place, or it is freed and
\* at place n or behind it.
Stays(s, t, n) ==
    \A i \in Places : Place(s, i) # 0 /\ Place(t, i) # Place(s, i) =>
      Place(t, i) = 0 /\ n <= i /\ i < Capacity

Works(s, t, n, U) == Good(t, U) /\ Marks(s, t) /\ Stays(s, t, n)

LEMMA GrowsWorks ==
    ASSUME NEW U, NEW s, NEW t, NEW n, Good(t, U), Grows(s, t)
    PROVE  Works(s, t, n, U)
BY DEF Works, Grows, Stays

LEMMA ShrinksWorks ==
    ASSUME NEW U, NEW s, NEW t, NEW n, Good(t, U), Shrinks(s, t, n)
    PROVE  Works(s, t, n, U)
BY DEF Works, Shrinks, Stays

LEMMA SizeWorks ==
    ASSUME NEW U, NEW s \in Rec, NEW t, NEW n, NEW size \in Sizes, Works(s, t, n, U)
    PROVE  Works(s, [t EXCEPT !.din.size = size, !.dirty = TRUE], n, U)
<1>1. t \in Rec
  BY DEF Works, Good
<1>2. PICK d : d = [t.din EXCEPT !.size = size]
  OBVIOUS
<1>3. /\ d \in DiskInode /\ d.direct = t.din.direct /\ d.indirect = t.din.indirect
      /\ d.blocks = t.din.blocks
  BY <1>1, <1>2, RecFacts DEF DiskInode
<1>4. PICK r : r = [t EXCEPT !.din.size = size, !.dirty = TRUE]
  OBVIOUS
<1>5. /\ r \in Rec /\ r.din = d /\ r.dirty = TRUE /\ r.free = t.free /\ r.unused = t.unused
      /\ r.changed = t.changed /\ r.entry = t.entry
  BY <1>1, <1>2, <1>3, <1>4 DEF Rec
<1>6. \A i : Place(r, i) = Place(t, i)
  BY <1>3, <1>5 DEF Place
<1>7. Good(r, U)
  BY <1>3, <1>5, <1>6 DEF Works, Good
<1>8. Marks(s, r) /\ Stays(s, r, n)
  BY <1>5, <1>6 DEF Works, Marks, Stays
<1> QED BY <1>4, <1>7, <1>8 DEF Works

LEMMA DivFacts ==
    ASSUME NEW a \in Nat, NEW b \in Nat, b > 0
    PROVE  a \div b \in Nat /\ \A c \in Nat : c <= a => c \div b <= a \div b
OBVIOUS

LEMMA BlocksForFacts ==
    /\ \A n \in Nat : BlocksFor(n) \in Nat
    /\ \A m, n \in Nat : m <= n => BlocksFor(m) <= BlocksFor(n)
<1>1. SFS_BLKSIZE \in Nat /\ SFS_BLKSIZE > 0
  BY Constants
<1>2. \A n \in Nat : n + SFS_BLKSIZE - 1 \in Nat
  BY <1>1
<1>3. ASSUME NEW n \in Nat PROVE BlocksFor(n) \in Nat
  <2>1. PICK a \in Nat : a = n + SFS_BLKSIZE - 1
    BY <1>2
  <2>2. a \div SFS_BLKSIZE \in Nat
    BY <1>1, DivFacts
  <2> QED BY <2>1, <2>2 DEF BlocksFor
<1>4. ASSUME NEW m \in Nat, NEW n \in Nat, m <= n PROVE BlocksFor(m) <= BlocksFor(n)
  <2>1. PICK a \in Nat : a = n + SFS_BLKSIZE - 1
    BY <1>2
  <2>2. PICK c \in Nat : c = m + SFS_BLKSIZE - 1
    BY <1>2
  <2>3. c <= a
    BY <1>1, <1>4, <2>1, <2>2
  <2>4. c \div SFS_BLKSIZE <= a \div SFS_BLKSIZE
    BY <1>1, <2>3, DivFacts
  <2> QED BY <2>1, <2>2, <2>4 DEF BlocksFor
<1> QED BY <1>3, <1>4

LEMMA TruncfileWorks ==
    ASSUME NEW U \in SUBSET Blocks, NEW s, Good(s, U), s.res = "ok", NEW len \in Sizes
    PROVE  Works(s, sfs_truncfile(s, len), BlocksFor(len), U)
<1>1. PICK n \in Nat : n = BlocksFor(len)
  BY BlocksForFacts, Constants DEF Sizes
<1>2. s \in Rec /\ s.din.blocks \in Nat
  BY RecFacts, Constants DEF Good
<1>3. PICK t : t = IF s.din.blocks <= n THEN LoadAll(s, s.din.blocks, n - s.din.blocks)
                                        ELSE TruncateAll(s, s.din.blocks - n)
  OBVIOUS
<1>4. Works(s, t, n, U)
  <2>1. CASE s.din.blocks <= n
    <3>1. PICK k \in Nat : k = n - s.din.blocks
      BY <1>1, <1>2, <2>1
    <3>2. Good(LoadAll(s, s.din.blocks, k), U) /\ Grows(s, LoadAll(s, s.din.blocks, k))
      BY <1>2, LoadAllFacts
    <3> QED BY <1>3, <2>1, <3>1, <3>2, GrowsWorks
  <2>2. CASE ~(s.din.blocks <= n)
    <3>1. PICK k \in 0 .. s.din.blocks : k = s.din.blocks - n
      <4>1. s.din.blocks - n \in 0 .. s.din.blocks
        BY <1>1, <1>2, <2>2
      <4> QED BY <4>1
    <3>2. Cut(s, TruncateAll(s, k), k, U)
      BY TruncateAllFacts
    <3>3. t = TruncateAll(s, k)
      BY <1>3, <2>2, <3>1
    <3>4. s.din.blocks - k = n
      BY <1>1, <1>2, <3>1
    <3>5. Good(t, U) /\ Shrinks(s, t, n)
      BY <3>2, <3>3, <3>4 DEF Cut
    <3> QED BY <3>5, ShrinksWorks
  <2> QED BY <2>1, <2>2
<1>5. sfs_truncfile(s, len) =
        IF s.din.size = len
        THEN IF s.din.blocks = n THEN s ELSE [s EXCEPT !.res = "tblks == din->blocks"]
        ELSE IF t.res = "ok" THEN [t EXCEPT !.din.size = len, !.dirty = TRUE] ELSE t
  BY <1>1, <1>3 DEF sfs_truncfile
<1>6. Works(s, s, n, U)
  BY GrowsSame, GrowsWorks
<1>7. Works(s, [s EXCEPT !.res = "tblks == din->blocks"], n, U)
  <2>1. PICK x \in Results : x = "tblks == din->blocks"
    BY DEF Results
  <2>2. Good([s EXCEPT !.res = x], U) /\ Grows(s, [s EXCEPT !.res = x])
    BY OtherResult
  <2>3. Works(s, [s EXCEPT !.res = x], n, U)
    BY <2>2, GrowsWorks
  <2> QED BY <2>1, <2>3
<1>8. Works(s, [t EXCEPT !.din.size = len, !.dirty = TRUE], n, U)
  BY <1>2, <1>4, SizeWorks
<1> QED BY <1>1, <1>4, <1>5, <1>6, <1>7, <1>8

LEMMA MaxIn ==
    ASSUME NEW a \in Nat, NEW b \in Nat, NEW T \in SUBSET (a .. b), T # {}
    PROVE  Max(T) \in T
<1> DEFINE Above == {x \in Nat : \A y \in T : y <= x}
<1>1. b \in Above
  OBVIOUS
<1>2. PICK m \in Above : \A x \in Above : m <= x
  <2>1. Above \in SUBSET Nat /\ Above # {}
    BY <1>1
  <2> HIDE DEF Above
  <2> QED BY <2>1, LeastNat
<1>3. m \in T
  <2>1. SUFFICES ASSUME m \notin T PROVE FALSE
    OBVIOUS
  <2>2. PICK y \in T : y <= m
    OBVIOUS
  <2>3. m - 1 \in Nat
    BY <2>1, <2>2
  <2>4. \A x \in T : x <= m - 1
    BY <2>1, <2>3
  <2>5. m - 1 \in Above
    BY <2>3, <2>4
  <2>6. m <= m - 1
    BY <1>2, <2>5
  <2> QED BY <2>6
<1>4. \A y \in T : y <= m
  OBVIOUS
<1> QED BY <1>3, <1>4 DEF Max

LEMMA MinOfTwo ==
    ASSUME NEW a \in Int, NEW b \in Int
    PROVE  Min({a, b}) = IF a <= b THEN a ELSE b
BY DEF Min

\* sfs_io_nolock makes no block change its place and no file too long.
LEMMA IoWorks ==
    ASSUME NEW U \in SUBSET Blocks, NEW s, Good(s, U), s.res = "ok",
           NEW offset \in Sizes, NEW n \in Nat, NEW write \in BOOLEAN, NEW m
    PROVE  LET io == sfs_io_nolock(s, offset, n, write)
           IN  Works(s, io.s, m, U) /\ offset + io.alen \in Sizes
<1>1. PICK end : end = IoEnd(s, offset, n, write)
  OBVIOUS
<1>2. PICK first : first = offset \div SFS_BLKSIZE
  OBVIOUS
<1>3. PICK last : last = (end - 1) \div SFS_BLKSIZE
  OBVIOUS
<1>4. PICK done : done = {k \in first .. last : LoadAll(s, first, k - first + 1).res = "ok"}
  OBVIOUS
<1>5. PICK alen : alen = IF done = {} THEN 0
                         ELSE Min({end, (Max(done) + 1) * SFS_BLKSIZE}) - offset
  OBVIOUS
<1>6. PICK t : t = LoadAll(s, first, last - first + 1)
  OBVIOUS
<1>7. sfs_io_nolock(s, offset, n, write) =
        IF offset >= SFS_MAX_FILE_SIZE \/ n = 0 \/ (~write /\ offset >= s.din.size)
        THEN [s |-> s, alen |-> 0]
        ELSE [s |-> IF offset + alen > t.din.size /\ t.res \in {"ok", "full"}
                    THEN [t EXCEPT !.din.size = offset + alen, !.dirty = TRUE] ELSE t,
              alen |-> alen]
  BY <1>1, <1>2, <1>3, <1>4, <1>5, <1>6 DEF sfs_io_nolock
<1>8. s \in Rec /\ s.din.size \in Nat /\ offset \in Nat /\ SFS_MAX_FILE_SIZE \in Nat
        /\ s.din.size <= SFS_MAX_FILE_SIZE /\ offset <= SFS_MAX_FILE_SIZE
  BY RecFacts, Constants DEF Good, Sizes
<1>9. CASE offset >= SFS_MAX_FILE_SIZE \/ n = 0 \/ (~write /\ offset >= s.din.size)
  <2>1. Works(s, s, m, U)
    BY GrowsSame, GrowsWorks
  <2>2. sfs_io_nolock(s, offset, n, write) = [s |-> s, alen |-> 0]
    BY <1>7, <1>9
  <2>3. offset + 0 \in Sizes
    BY <1>8
  <2> QED BY <2>1, <2>2, <2>3
<1>10. CASE ~(offset >= SFS_MAX_FILE_SIZE \/ n = 0 \/ (~write /\ offset >= s.din.size))
  <2>1. end \in Nat /\ offset < end /\ end <= SFS_MAX_FILE_SIZE
    <3>1. PICK e : e = Min({offset + n, SFS_MAX_FILE_SIZE})
      OBVIOUS
    <3>2. offset + n \in Int /\ SFS_MAX_FILE_SIZE \in Int
      BY <1>8
    <3>3. e = IF offset + n <= SFS_MAX_FILE_SIZE THEN offset + n ELSE SFS_MAX_FILE_SIZE
      BY <3>1, <3>2, MinOfTwo
    <3>4. e \in Nat /\ offset < e /\ e <= SFS_MAX_FILE_SIZE
      BY <1>8, <1>10, <3>3
    <3>5. CASE write
      <4>1. end = e
        BY <1>1, <3>1, <3>5 DEF IoEnd
      <4> QED BY <3>4, <4>1
    <3>6. CASE ~write
      <4>1. end = Min({e, s.din.size})
        BY <1>1, <3>1, <3>6 DEF IoEnd
      <4>2. e \in Int /\ s.din.size \in Int
        BY <1>8, <3>4
      <4>3. Min({e, s.din.size}) = IF e <= s.din.size THEN e ELSE s.din.size
        BY <4>2, MinOfTwo
      <4> QED BY <1>8, <1>10, <3>4, <3>6, <4>1, <4>3
    <3> QED BY <3>5, <3>6
  <2>2. first \in Nat /\ last \in Nat /\ last - first + 1 \in Nat
    <3>1. PICK x \in Nat : x = end - 1
      BY <1>8, <2>1
    <3>2. offset <= x
      BY <1>8, <2>1, <3>1
    <3>3. /\ offset \div SFS_BLKSIZE \in Nat /\ x \div SFS_BLKSIZE \in Nat
          /\ offset \div SFS_BLKSIZE <= x \div SFS_BLKSIZE
      BY <1>8, <3>2, DivFacts, Constants
    <3>4. first \in Nat /\ last \in Nat /\ first <= last
      BY <1>2, <1>3, <3>1, <3>3
    <3> QED BY <3>4
  <2>3. offset + alen \in Sizes
    <3>1. CASE done = {}
      BY <1>5, <1>8, <3>1
    <3>2. CASE done # {}
      <4>1. done \in SUBSET (first .. last)
        BY <1>4
      <4>2. Max(done) \in first .. last
        BY <2>2, <3>2, <4>1, MaxIn
      <4>3. PICK k \in Nat : k = Max(done) + 1
        BY <2>2, <4>2
      <4>4. PICK y \in Nat : y = k * SFS_BLKSIZE
        BY Constants
      <4>5. Min({end, y}) = IF end <= y THEN end ELSE y
        BY <2>1, MinOfTwo
      <4>6. alen = Min({end, y}) - offset
        BY <1>5, <3>2, <4>3, <4>4
      <4>7. PICK z \in 0 .. SFS_MAX_FILE_SIZE : z = Min({end, y})
        BY <1>8, <2>1, <4>5
      <4> QED BY <1>8, <4>6, <4>7 DEF Sizes
    <3> QED BY <3>1, <3>2
  <2>4. Works(s, t, m, U)
    BY <1>6, <2>2, LoadAllFacts, GrowsWorks
  <2>5. Works(s, [t EXCEPT !.din.size = offset + alen, !.dirty = TRUE], m, U)
    BY <1>8, <2>3, <2>4, SizeWorks
  <2>6. /\ sfs_io_nolock(s, offset, n, write).alen = alen
        /\ sfs_io_nolock(s, offset, n, write).s =
             IF offset + alen > t.din.size /\ t.res \in {"ok", "full"}
             THEN [t EXCEPT !.din.size = offset + alen, !.dirty = TRUE] ELSE t
    BY <1>7, <1>10
  <2> QED BY <2>3, <2>4, <2>5, <2>6
<1> QED BY <1>9, <1>10

-----------------------------------------------------------------------------
(***************************************************************************)
(* The inductive invariant: that of BlocksOwnedOnce and NoHoles, and what  *)
(* an inode that is not marked, and a super block that is not, say of the  *)
(* disk.                                                                   *)
(***************************************************************************)
Apart ==
    \A f, g \in File : \A i, j \in Places :
      At(f, i) = At(g, j) /\ At(f, i) # 0 => f = g /\ i = j

NotFree == \A f \in File : \A i \in Places : At(f, i) \notin freemap

Covered == \A b \in Blocks \ freemap : \E f \in File : \E i \in Places : At(f, i) = b

Tracks ==
    \A f \in File : InMemory(f) /\ ~sin[f].dirty =>
      /\ sin[f].din.direct = disk[f].direct /\ sin[f].din.indirect = disk[f].indirect
      /\ disk[f].blocks <= sin[f].din.blocks

Saved == ~super_dirty => on_disk = [free |-> freemap, unused |-> unused_blocks]

Off == ~mounted => ~super_dirty /\ \A d \in Fd : node[d] = NoFile

Inv ==
    /\ TypeOK /\ Apart /\ NotFree /\ Covered /\ NoHoles
    /\ unused_blocks = Cardinality(freemap)
    /\ Tracks /\ Saved /\ Off

\* The record of a file, in memory or not, and the blocks that no other file has.
Cur(f) ==
    IF InMemory(f) THEN State(f) ELSE [State(f) EXCEPT !.din = disk[f], !.dirty = FALSE]

Mine(f) == {b \in Blocks : \A g \in File \ {f} : \A i \in Places : At(g, i) # b}

LEMMA InodeType ==
    ASSUME TypeOK, NEW f \in File
    PROVE  /\ Inode(f) \in DiskInode /\ entry[f] \in Entries
           /\ Inode(f).blocks \in 0 .. Capacity /\ Inode(f).size \in Sizes
           /\ \A i \in Places : At(f, i) \in Blocks \cup {0}
<1>1. Inode(f) \in DiskInode /\ entry[f] \in Entries
  BY DEF TypeOK, Inode
<1>2. PICK d : d = Inode(f)
  OBVIOUS
<1>3. PICK e : e = entry[f]
  OBVIOUS
<1>4. /\ d.direct \in [0 .. SFS_NDIRECT - 1 -> Blocks \cup {0}]
      /\ d.indirect \in Blocks \cup {0} /\ d.blocks \in 0 .. Capacity /\ d.size \in Sizes
      /\ e \in [SFS_NDIRECT .. Capacity - 1 -> Blocks \cup {0}]
  BY <1>1, <1>2, <1>3 DEF DiskInode, Entries
<1>5. \A i \in Places : At(f, i) \in Blocks \cup {0}
  BY <1>2, <1>3, <1>4, Constants DEF At
<1> QED BY <1>1, <1>2, <1>4, <1>5

LEMMA CurFacts ==
    ASSUME TypeOK, NEW f \in File
    PROVE  /\ Cur(f) \in Rec
           /\ Cur(f).free = freemap /\ Cur(f).unused = unused_blocks
           /\ Cur(f).changed = super_dirty /\ Cur(f).entry = entry[f]
           /\ Cur(f).din = Inode(f) /\ Cur(f).res = "ok"
           /\ Cur(f).dirty = IF InMemory(f) THEN sin[f].dirty ELSE FALSE
           /\ \A i : Place(Cur(f), i) = At(f, i)
<1>1. /\ freemap \in SUBSET Blocks /\ unused_blocks \in 0 .. NBlocks /\ super_dirty \in BOOLEAN
      /\ entry[f] \in Entries /\ disk[f] \in DiskInode /\ sin[f].din \in DiskInode
      /\ sin[f].dirty \in BOOLEAN
  BY DEF TypeOK
<1>2. PICK s : s = State(f)
  OBVIOUS
<1>3. /\ s \in Rec /\ s.free = freemap /\ s.unused = unused_blocks /\ s.changed = super_dirty
      /\ s.entry = entry[f] /\ s.din = sin[f].din /\ s.dirty = sin[f].dirty /\ s.res = "ok"
  BY <1>1, <1>2 DEF State, Rec, Results
<1>4. PICK t : t = [s EXCEPT !.din = disk[f], !.dirty = FALSE]
  OBVIOUS
<1>5. /\ t \in Rec /\ t.free = freemap /\ t.unused = unused_blocks /\ t.changed = super_dirty
      /\ t.entry = entry[f] /\ t.din = disk[f] /\ t.dirty = FALSE /\ t.res = "ok"
  BY <1>1, <1>3, <1>4 DEF Rec
<1>6. Cur(f) = IF InMemory(f) THEN s ELSE t
  BY <1>2, <1>4 DEF Cur
<1>7. PICK c : c = Cur(f)
  OBVIOUS
<1>8. /\ c \in Rec /\ c.free = freemap /\ c.unused = unused_blocks /\ c.changed = super_dirty
      /\ c.entry = entry[f] /\ c.din = Inode(f) /\ c.res = "ok"
      /\ c.dirty = IF InMemory(f) THEN sin[f].dirty ELSE FALSE
  BY <1>3, <1>5, <1>6, <1>7 DEF Inode
<1>9. \A i : Place(c, i) = At(f, i)
  BY <1>8 DEF Place, At
<1> QED BY <1>7, <1>8, <1>9

LEMMA CurGood ==
    ASSUME Inv, NEW f \in File
    PROVE  Mine(f) \in SUBSET Blocks /\ Good(Cur(f), Mine(f))
<1>1. PICK c : c = Cur(f)
  OBVIOUS
<1>2. PICK U : U = Mine(f)
  OBVIOUS
<1>3. TypeOK
  BY DEF Inv
<1>4. /\ c \in Rec /\ c.free = freemap /\ c.unused = unused_blocks /\ c.din = Inode(f)
      /\ \A i : Place(c, i) = At(f, i)
  BY <1>1, <1>3, CurFacts
<1>5. freemap \subseteq U
  BY <1>2, <1>3 DEF Inv, NotFree, Mine, TypeOK
<1>6. ASSUME NEW i \in Places, At(f, i) # 0 PROVE At(f, i) \in U \ freemap
  <2>1. At(f, i) \in Blocks
    BY <1>3, <1>6, InodeType
  <2>2. \A g \in File \ {f} : \A j \in Places : At(g, j) # At(f, i)
    BY <1>6 DEF Inv, Apart
  <2> QED BY <1>2, <2>1, <2>2 DEF Inv, NotFree, Mine
<1>7. \A i, j \in Places : At(f, i) = At(f, j) /\ At(f, i) # 0 => i = j
  BY DEF Inv, Apart
<1>8. ASSUME NEW b \in U \ freemap PROVE \E i \in Places : At(f, i) = b
  <2>1. b \in Blocks \ freemap
    BY <1>2 DEF Mine
  <2>2. PICK g \in File, i \in Places : At(g, i) = b
    BY <2>1 DEF Inv, Covered
  <2>3. g = f
    BY <1>2, <2>2 DEF Mine
  <2> QED BY <2>2, <2>3
<1>9. \A i \in 0 .. Inode(f).blocks - 1 : At(f, i) # 0
  BY DEF Inv, NoHoles
<1>10. Good(c, U)
  BY <1>4, <1>5, <1>6, <1>7, <1>8, <1>9 DEF Good, Inv
<1>11. U \in SUBSET Blocks
  BY <1>2 DEF Mine
<1> QED BY <1>1, <1>2, <1>10, <1>11

-----------------------------------------------------------------------------
(***************************************************************************)
(* The steps.                                                              *)
(***************************************************************************)
\* The inode of f goes to s, and f is open then.
Goes(f, s) ==
    /\ freemap' = s.free /\ unused_blocks' = s.unused /\ super_dirty' = s.changed
    /\ entry' = [entry EXCEPT ![f] = s.entry]
    /\ sin' = [sin EXCEPT ![f] = [din |-> s.din, dirty |-> s.dirty]]
    /\ UNCHANGED <<disk, on_disk, mounted>>
    /\ node' \in [Fd -> File \cup {NoFile}] /\ pos' \in [Fd -> Sizes]
    /\ InMemory(f)'
    /\ \A g \in File \ {f} : InMemory(g)' <=> InMemory(g)

LEMMA GoesAt ==
    ASSUME TypeOK, NEW f \in File, NEW s, s \in Rec, Goes(f, s)
    PROVE  /\ Inode(f)' = s.din /\ entry'[f] = s.entry
           /\ \A i : At(f, i)' = Place(s, i)
           /\ \A g \in File \ {f} : Inode(g)' = Inode(g) /\ \A i : At(g, i)' = At(g, i)
           /\ \A g \in File \ {f} : sin'[g] = sin[g] /\ disk'[g] = disk[g]
           /\ sin'[f] = [din |-> s.din, dirty |-> s.dirty]
<1>1. /\ entry' = [entry EXCEPT ![f] = s.entry] /\ f \in DOMAIN entry
      /\ sin' = [sin EXCEPT ![f] = [din |-> s.din, dirty |-> s.dirty]] /\ f \in DOMAIN sin
      /\ disk' = disk
  BY DEF Goes, TypeOK
<1>2. sin'[f] = [din |-> s.din, dirty |-> s.dirty] /\ entry'[f] = s.entry
  BY <1>1
<1>3. \A g \in File \ {f} : sin'[g] = sin[g] /\ entry'[g] = entry[g] /\ disk'[g] = disk[g]
  BY <1>1
<1>4. Inode(f)' = s.din
  BY <1>2 DEF Goes, Inode
<1>5. \A i : At(f, i)' = Place(s, i)
  BY <1>2, <1>4 DEF At, Place
<1>6. ASSUME NEW g \in File \ {f} PROVE Inode(g)' = Inode(g) /\ \A i : At(g, i)' = At(g, i)
  <2>1. Inode(g)' = Inode(g)
    BY <1>3 DEF Goes, Inode
  <2> QED BY <1>3, <2>1 DEF At
<1> QED BY <1>2, <1>3, <1>4, <1>5, <1>6

LEMMA GoesInv ==
    ASSUME Inv, mounted, NEW f \in File, NEW s, NEW n, Works(Cur(f), s, n, Mine(f)), Goes(f, s)
    PROVE  Inv'
<1>1. PICK U \in SUBSET Blocks : U = Mine(f)
  BY CurGood
<1>2. PICK c : c = Cur(f)
  OBVIOUS
<1>3. TypeOK /\ Works(c, s, n, U)
  BY <1>1, <1>2 DEF Inv
<1>4. /\ c \in Rec /\ c.free = freemap /\ c.unused = unused_blocks /\ c.changed = super_dirty
      /\ c.din = Inode(f) /\ c.dirty = IF InMemory(f) THEN sin[f].dirty ELSE FALSE
  BY <1>2, <1>3, CurFacts
<1>5. /\ s \in Rec /\ Good(s, U) /\ Marks(c, s)
      /\ s.free \in SUBSET Blocks /\ s.unused \in 0 .. NBlocks /\ s.changed \in BOOLEAN
      /\ s.dirty \in BOOLEAN /\ s.entry \in Entries /\ s.din \in DiskInode
  BY <1>3, RecFacts DEF Works, Good
<1>6. /\ Inode(f)' = s.din
      /\ \A i : At(f, i)' = Place(s, i)
      /\ \A g \in File \ {f} : Inode(g)' = Inode(g) /\ \A i : At(g, i)' = At(g, i)
      /\ \A g \in File \ {f} : sin'[g] = sin[g] /\ disk'[g] = disk[g]
      /\ sin'[f] = [din |-> s.din, dirty |-> s.dirty]
  BY <1>3, <1>5, GoesAt
<1>7. TypeOK'
  BY <1>3, <1>5 DEF TypeOK, Goes
<1>8. \A g \in File \ {f} : \A i \in Places : At(g, i) \notin U
  BY <1>1 DEF Mine
<1>9. \A i \in Places : Place(s, i) # 0 => Place(s, i) \in U \ s.free
  BY <1>5 DEF Good
<1>10. Apart'
  <2>1. \A i, j \in Places : At(f, i)' = At(f, j)' /\ At(f, i)' # 0 => i = j
    BY <1>5, <1>6 DEF Good
  <2>2. ASSUME NEW g \in File \ {f}, NEW i \in Places, NEW j \in Places, At(g, i)' = At(f, j)'
        PROVE  At(g, i)' = 0 /\ At(f, j)' = 0
    BY <1>6, <1>8, <1>9, <2>2
  <2>3. \A g, h \in File \ {f} : \A i, j \in Places :
          At(g, i)' = At(h, j)' /\ At(g, i)' # 0 => g = h /\ i = j
    BY <1>6 DEF Inv, Apart
  <2> QED BY <2>1, <2>2, <2>3 DEF Apart
<1>11. freemap' = s.free /\ s.free \subseteq U
  BY <1>5 DEF Goes, Good
<1>12. NotFree'
  <2>1. 0 \notin s.free
    BY <1>5, Constants
  <2> QED BY <1>6, <1>8, <1>9, <1>11, <2>1 DEF NotFree
<1>13. Covered'
  <2>1. SUFFICES ASSUME NEW b \in Blocks, b \notin s.free
                 PROVE  \E g \in File : \E i \in Places : At(g, i)' = b
    BY <1>11 DEF Covered, Blocks
  <2>2. CASE b \in U
    <3>1. PICK i \in Places : Place(s, i) = b
      BY <1>5, <2>1, <2>2 DEF Good
    <3> QED BY <1>6, <3>1
  <2>3. CASE b \notin U
    <3>1. PICK g \in File \ {f}, i \in Places : At(g, i) = b
      BY <1>1, <2>3 DEF Mine
    <3> QED BY <1>6, <3>1
  <2> QED BY <2>2, <2>3
<1>14. NoHoles'
  <2>1. \A i \in 0 .. Inode(f)'.blocks - 1 : At(f, i)' # 0
    BY <1>5, <1>6 DEF Good
  <2>2. \A g \in File \ {f} : \A i \in 0 .. Inode(g)'.blocks - 1 : At(g, i)' # 0
    BY <1>6 DEF Inv, NoHoles
  <2> QED BY <2>1, <2>2 DEF NoHoles
<1>15. (unused_blocks = Cardinality(freemap))'
  BY <1>5, <1>11 DEF Goes, Good
<1>16. Tracks'
  <2>1. ASSUME ~s.dirty
        PROVE  /\ s.din.direct = disk[f].direct /\ s.din.indirect = disk[f].indirect
               /\ disk[f].blocks <= s.din.blocks
    <3>1. /\ ~c.dirty /\ s.din.direct = c.din.direct /\ s.din.indirect = c.din.indirect
          /\ c.din.blocks <= s.din.blocks
      BY <1>5, <2>1 DEF Marks
    <3>2. c.din.direct = disk[f].direct /\ c.din.indirect = disk[f].indirect
            /\ disk[f].blocks <= c.din.blocks
      <4>1. CASE InMemory(f)
        BY <1>4, <3>1, <4>1 DEF Inv, Tracks, Inode
      <4>2. CASE ~InMemory(f)
        <5>1. c.din = disk[f] /\ c.din.blocks \in Int
          BY <1>4, <4>2, RecFacts, Constants DEF Inode
        <5> QED BY <5>1
      <4> QED BY <4>1, <4>2
    <3>3. c.din.blocks \in Int /\ s.din.blocks \in Int /\ disk[f].blocks \in Int
      <4>1. disk[f] \in DiskInode
        BY <1>3 DEF TypeOK
      <4>2. c.din \in DiskInode
        BY <1>4, RecFacts
      <4> QED BY <1>5, <4>1, <4>2, Constants DEF DiskInode
    <3> QED BY <3>1, <3>2, <3>3
  <2>2. disk'[f] = disk[f]
    BY DEF Goes
  <2>3. \A g \in File \ {f} : InMemory(g)' <=> InMemory(g)
    BY DEF Goes
  <2>4. ASSUME NEW g \in File, InMemory(g)', ~sin'[g].dirty
        PROVE  /\ sin'[g].din.direct = disk'[g].direct /\ sin'[g].din.indirect = disk'[g].indirect
               /\ disk'[g].blocks <= sin'[g].din.blocks
    <3>1. CASE g = f
      BY <1>6, <2>1, <2>2, <2>4, <3>1
    <3>2. CASE g # f
      BY <1>6, <2>3, <2>4, <3>2 DEF Inv, Tracks
    <3> QED BY <3>1, <3>2
  <2> QED BY <2>4 DEF Tracks
<1>17. Saved'
  <2>1. ASSUME ~s.changed PROVE s.free = freemap /\ s.unused = unused_blocks /\ ~super_dirty
    BY <1>4, <1>5, <2>1 DEF Marks
  <2> QED BY <2>1 DEF Saved, Goes, Inv
<1>18. Off'
  BY DEF Goes, Off
<1> QED BY <1>7, <1>10, <1>12, <1>13, <1>14, <1>15, <1>16, <1>17, <1>18 DEF Inv

\* What a step of f leaves where it was.
LEMMA GoesStay ==
    ASSUME Inv, NEW f \in File, NEW s, NEW n, Works(Cur(f), s, n, Mine(f)), Goes(f, s),
           NEW g \in File, NEW i \in Nat, At(g, i) # 0, At(g, i)' # At(g, i)
    PROVE  g = f /\ At(g, i)' = 0 /\ n <= i
<1>1. TypeOK /\ s \in Rec
  BY DEF Inv, Works, Good
<1>2. g = f
  BY <1>1, GoesAt
<1>3. \A j : At(f, j)' = Place(s, j) /\ Place(Cur(f), j) = At(f, j)
  BY <1>1, GoesAt, CurFacts
<1>4. PICK c : c = Cur(f)
  OBVIOUS
<1>5. Stays(c, s, n) /\ Place(c, i) # 0 /\ Place(s, i) # Place(c, i)
  BY <1>2, <1>3, <1>4 DEF Works
<1>6. CASE i \in Places
  BY <1>2, <1>3, <1>5, <1>6 DEF Stays
<1>7. CASE i \notin Places
  <2>1. i > Capacity /\ Capacity \in Places /\ ~(i < SFS_NDIRECT) /\ ~(i < Capacity)
          /\ ~(Capacity < SFS_NDIRECT) /\ ~(Capacity < Capacity)
    BY <1>7, Constants
  <2>2. Place(c, i) = Place(c, Capacity) /\ Place(s, i) = Place(s, Capacity)
    BY <2>1 DEF Place
  <2> QED BY <1>5, <2>1, <2>2 DEF Stays
<1> QED BY <1>6, <1>7

\* What BlocksStay says of a step.
Kept ==
    \A f \in File : \A i \in 0 .. BlocksFor(Inode(f).size) - 1 :
      At(f, i) # 0 /\ At(f, i)' # At(f, i) =>
          At(f, i)' = 0 /\ \E d \in Fd : node[d] = NoFile /\ node'[d] = f

LEMMA SizeBlocks ==
    ASSUME TypeOK, NEW f \in File
    PROVE  BlocksFor(Inode(f).size) \in Nat
<1>1. Inode(f).size \in Nat
  BY InodeType, Constants DEF Sizes
<1> QED BY <1>1, BlocksForFacts

\* What becomes of a file without a new descriptor, or with one.
LEMMA SameNode ==
    ASSUME TypeOK, NEW d \in Fd, NEW f \in File, node[d] = f, node' = node, NEW s,
           Becomes(f, s), UNCHANGED <<disk, on_disk, mounted>>, pos' \in [Fd -> Sizes]
    PROVE  Goes(f, s) /\ Cur(f) = State(f)
<1>1. InMemory(f) /\ InMemory(f)' /\ \A g : InMemory(g)' <=> InMemory(g)
  BY DEF InMemory, Opens
<1>2. node' \in [Fd -> File \cup {NoFile}]
  BY DEF TypeOK
<1> QED BY <1>1, <1>2 DEF Goes, Cur, Becomes

LEMMA NewNode ==
    ASSUME TypeOK, NEW d \in Fd, NEW f \in File, node[d] = NoFile,
           node' = [node EXCEPT ![d] = f], NEW s,
           Becomes(f, s), UNCHANGED <<disk, on_disk, mounted>>, pos' \in [Fd -> Sizes]
    PROVE  Goes(f, s) /\ node'[d] = f
<1>1. node' \in [Fd -> File \cup {NoFile}] /\ node'[d] = f
  BY DEF TypeOK
<1>2. \A e \in Fd : e # d => node'[e] = node[e]
  BY DEF TypeOK
<1>3. InMemory(f)'
  BY <1>1 DEF InMemory, Opens
<1>4. ASSUME NEW g \in File \ {f} PROVE InMemory(g)' <=> InMemory(g)
  <2>1. g # NoFile /\ g # f
    BY <1>4, SfsAssumption
  <2>2. \A e \in Fd : node'[e] = g <=> node[e] = g
    BY <1>1, <1>2, <2>1
  <2> QED BY <2>2 DEF InMemory, Opens
<1> QED BY <1>1, <1>3, <1>4 DEF Goes, Becomes

LEMMA OpenStep ==
    ASSUME Inv, NEW d \in Fd, NEW f \in File, NEW trunc \in BOOLEAN, NEW append \in BOOLEAN,
           file_open(d, f, trunc, append), UNCHANGED <<on_disk, mounted>>
    PROVE  Inv' /\ Kept
<1>1. TypeOK /\ mounted /\ node[d] = NoFile /\ disk' = disk
  BY DEF Inv, file_open, Running
<1>2. PICK U \in SUBSET Blocks : U = Mine(f) /\ Good(Cur(f), U)
  BY CurGood
<1>3. PICK c : c = Cur(f)
  OBVIOUS
<1>4. PICK s : s = IF trunc THEN sfs_truncfile(c, 0) ELSE c
  OBVIOUS
<1>5. /\ Becomes(f, s)
      /\ node' = [node EXCEPT ![d] = f]
      /\ pos' = [pos EXCEPT ![d] = IF append THEN s.din.size ELSE 0]
  BY <1>3, <1>4 DEF file_open, Cur
<1>6. PICK n : n = BlocksFor(0)
  OBVIOUS
<1>7. Works(c, s, n, U)
  <2>1. c.res = "ok" /\ Good(c, U)
    BY <1>1, <1>2, <1>3, CurFacts
  <2>2. 0 \in Sizes
    BY Constants DEF Sizes
  <2>3. Works(c, sfs_truncfile(c, 0), n, U)
    BY <1>6, <2>1, <2>2, TruncfileWorks
  <2>4. Works(c, c, n, U)
    BY <2>1, GrowsSame, GrowsWorks
  <2> QED BY <1>4, <2>3, <2>4
<1>8. pos' \in [Fd -> Sizes]
  <2>1. s.din.size \in Sizes /\ 0 \in Sizes
    BY <1>7, RecFacts, Constants DEF Works, Good, Sizes
  <2> QED BY <1>1, <1>5, <2>1 DEF TypeOK
<1>9. Goes(f, s) /\ node'[d] = f
  BY <1>1, <1>5, <1>8, NewNode
<1>10. Works(Cur(f), s, n, Mine(f))
  BY <1>2, <1>3, <1>7
<1>11. Inv'
  BY <1>1, <1>9, <1>10, GoesInv
<1>12. Kept
  <2>1. SUFFICES ASSUME NEW g \in File, NEW i \in 0 .. BlocksFor(Inode(g).size) - 1,
                        At(g, i) # 0, At(g, i)' # At(g, i)
                 PROVE  At(g, i)' = 0 /\ \E e \in Fd : node[e] = NoFile /\ node'[e] = g
    BY DEF Kept
  <2>2. i \in Nat
    BY <1>1, SizeBlocks
  <2>3. g = f /\ At(g, i)' = 0
    BY <1>9, <1>10, <2>1, <2>2, GoesStay
  <2> QED BY <1>1, <1>9, <2>3
<1> QED BY <1>11, <1>12

\* A step that frees blocks only behind the end.
LEMMA NoneLost ==
    ASSUME Inv, NEW f \in File, NEW s, NEW n \in Nat, Works(Cur(f), s, n, Mine(f)), Goes(f, s),
           BlocksFor(Inode(f).size) <= n
    PROVE  Kept
<1>1. SUFFICES ASSUME NEW g \in File, NEW i \in 0 .. BlocksFor(Inode(g).size) - 1,
                      At(g, i) # 0, At(g, i)' # At(g, i)
               PROVE  FALSE
  BY DEF Kept
<1>2. TypeOK
  BY DEF Inv
<1>3. BlocksFor(Inode(g).size) \in Nat /\ i \in Nat
  BY <1>2, SizeBlocks
<1>4. g = f /\ n <= i
  BY <1>1, <1>3, GoesStay
<1> QED BY <1>3, <1>4

LEMMA IoStep ==
    ASSUME Inv, NEW d \in Fd, NEW n \in IOSizes, NEW write \in BOOLEAN, Io(d, n, write),
           UNCHANGED <<on_disk, mounted>>
    PROVE  Inv' /\ Kept
<1>1. TypeOK /\ mounted /\ node[d] # NoFile /\ disk' = disk /\ node' = node
  BY DEF Inv, Io, Running
<1>2. PICK f \in File : f = node[d]
  BY <1>1 DEF TypeOK
<1>3. PICK U \in SUBSET Blocks : U = Mine(f) /\ Good(Cur(f), U)
  BY CurGood
<1>4. PICK c : c = Cur(f)
  OBVIOUS
<1>5. PICK io : io = sfs_io_nolock(c, pos[d], n, write)
  OBVIOUS
<1>6. c = State(f)
  BY <1>1, <1>2, <1>4 DEF Cur, InMemory, Opens
<1>7. Becomes(f, io.s) /\ pos' = [pos EXCEPT ![d] = @ + io.alen]
  BY <1>2, <1>5, <1>6 DEF Io
<1>8. PICK m \in Nat : m = BlocksFor(Inode(f).size)
  BY <1>1, SizeBlocks
<1>9. Works(c, io.s, m, U) /\ pos[d] + io.alen \in Sizes
  <2>1. c.res = "ok" /\ Good(c, U)
    BY <1>1, <1>3, <1>4, CurFacts
  <2>2. PICK offset \in Sizes : offset = pos[d]
    BY <1>1 DEF TypeOK
  <2>3. n \in Nat
    BY SfsAssumption
  <2>4. LET x == sfs_io_nolock(c, offset, n, write)
        IN  Works(c, x.s, m, U) /\ offset + x.alen \in Sizes
    BY <2>1, <2>3, IoWorks
  <2> QED BY <1>5, <2>2, <2>4
<1>10. pos' \in [Fd -> Sizes]
  BY <1>1, <1>7, <1>9 DEF TypeOK
<1>11. Works(Cur(f), io.s, m, Mine(f))
  BY <1>3, <1>4, <1>9
<1>12. PICK s : s = io.s
  OBVIOUS
<1>13. Works(Cur(f), s, m, Mine(f)) /\ Becomes(f, s)
  BY <1>7, <1>11, <1>12
<1>14. Goes(f, s)
  BY <1>1, <1>2, <1>10, <1>13, SameNode
<1>15. Inv'
  BY <1>1, <1>13, <1>14, GoesInv
<1>16. Kept
  BY <1>8, <1>13, <1>14, NoneLost
<1> QED BY <1>15, <1>16

LEMMA SeekStep ==
    ASSUME Inv, NEW d \in Fd, NEW to \in Seeks, file_seek(d, to), UNCHANGED <<on_disk, mounted>>
    PROVE  Inv' /\ Kept
<1>1. TypeOK /\ mounted /\ node[d] # NoFile /\ disk' = disk /\ node' = node
  BY DEF Inv, file_seek, Running
<1>2. PICK f \in File : f = node[d]
  BY <1>1 DEF TypeOK
<1>3. PICK U \in SUBSET Blocks : U = Mine(f) /\ Good(Cur(f), U)
  BY CurGood
<1>4. PICK c : c = Cur(f)
  OBVIOUS
<1>5. c = State(f)
  BY <1>1, <1>2, <1>4 DEF Cur, InMemory, Opens
<1>6. PICK s : s = IF to > c.din.size THEN sfs_truncfile(c, to) ELSE c
  OBVIOUS
<1>7. Becomes(f, s) /\ pos' = [pos EXCEPT ![d] = IF s.res = "ok" THEN to ELSE @]
  BY <1>2, <1>5, <1>6 DEF file_seek
<1>8. to \in Sizes /\ to \in Nat
  BY SfsAssumption, Constants DEF Sizes
<1>9. c.res = "ok" /\ Good(c, U) /\ c.din = Inode(f)
  BY <1>1, <1>3, <1>4, CurFacts
<1>10. PICK n \in Nat : n = BlocksFor(Inode(f).size)
  BY <1>1, SizeBlocks
<1>11. \E m \in Nat : n <= m /\ Works(c, s, m, U)
  <2>1. CASE to > c.din.size
    <3>1. Works(c, sfs_truncfile(c, to), BlocksFor(to), U)
      BY <1>8, <1>9, TruncfileWorks
    <3>2. Inode(f).size \in Nat /\ Inode(f).size <= to
      BY <1>1, <1>8, <1>9, <2>1, InodeType, Constants DEF Sizes
    <3>3. BlocksFor(to) \in Nat /\ n <= BlocksFor(to)
      BY <1>8, <1>10, <3>2, BlocksForFacts
    <3> QED BY <1>6, <2>1, <3>1, <3>3
  <2>2. CASE ~(to > c.din.size)
    <3>1. Works(c, c, n, U)
      BY <1>9, GrowsSame, GrowsWorks
    <3>2. n <= n
      BY <1>10
    <3> QED BY <1>6, <2>2, <3>1, <3>2
  <2> QED BY <2>1, <2>2
<1>12. PICK m \in Nat : n <= m /\ Works(c, s, m, U)
  BY <1>11
<1>13. pos' \in [Fd -> Sizes]
  BY <1>1, <1>7, <1>8 DEF TypeOK
<1>14. Goes(f, s)
  BY <1>1, <1>2, <1>7, <1>13, SameNode
<1>15. Works(Cur(f), s, m, Mine(f))
  BY <1>3, <1>4, <1>12
<1>16. Inv'
  BY <1>1, <1>14, <1>15, GoesInv
<1>17. BlocksFor(Inode(f).size) <= m
  BY <1>10, <1>12
<1>18. Kept
  BY <1>14, <1>15, <1>17, NoneLost
<1> QED BY <1>16, <1>18

\* A step that leaves every block where it is.
AllStay ==
    /\ \A f \in File : \A i : At(f, i)' = At(f, i)
    /\ UNCHANGED <<freemap, unused_blocks>>

LEMMA StayStep ==
    ASSUME Inv, AllStay, TypeOK', Tracks', Saved', Off',
           \A f \in File : Inode(f)'.blocks <= Inode(f).blocks
    PROVE  Inv' /\ Kept
<1>1. TypeOK
  BY DEF Inv
<1>2. Apart'
  BY DEF Inv, Apart, AllStay
<1>3. NotFree'
  BY DEF Inv, NotFree, AllStay
<1>4. Covered'
  BY DEF Inv, Covered, AllStay, Blocks
<1>5. NoHoles'
  <2>1. ASSUME NEW f \in File, NEW i \in 0 .. Inode(f)'.blocks - 1 PROVE At(f, i)' # 0
    <3>1. Inode(f).blocks \in Int
      BY <1>1, InodeType, Constants
    <3>2. Inode(f)'.blocks \in Int
      <4>1. (Inode(f) \in DiskInode)'
        BY DEF TypeOK, Inode
      <4>2. Inode(f)' \in DiskInode
        BY <4>1 DEF DiskInode, Sizes, Blocks, Capacity
      <4>3. PICK x \in DiskInode : x = Inode(f)'
        BY <4>2
      <4>4. x.blocks \in Int
        BY Constants DEF DiskInode
      <4> QED BY <4>3, <4>4
    <3>3. i \in 0 .. Inode(f).blocks - 1
      BY <3>1, <3>2
    <3>4. At(f, i) # 0
      BY <3>3 DEF Inv, NoHoles
    <3> QED BY <3>4 DEF AllStay
  <2> QED BY <2>1 DEF NoHoles
<1>6. Kept
  BY DEF Kept, AllStay
<1> QED BY <1>2, <1>3, <1>4, <1>5, <1>6 DEF Inv, AllStay

LEMMA BlocksInt ==
    ASSUME TypeOK, NEW f \in File
    PROVE  sin[f].din.blocks \in Int /\ disk[f].blocks \in Int /\ Inode(f).blocks \in Int
<1>1. sin[f].din \in DiskInode /\ disk[f] \in DiskInode
  BY DEF TypeOK
<1> QED BY <1>1, Constants DEF DiskInode, Inode

LEMMA FsyncStep ==
    ASSUME Inv, NEW d \in Fd, file_fsync(d), UNCHANGED <<on_disk, mounted>>
    PROVE  Inv' /\ Kept
<1>1. /\ TypeOK /\ node[d] # NoFile /\ sfs_fsync(node[d])
      /\ sin' = [sin EXCEPT ![node[d]].dirty = FALSE]
      /\ UNCHANGED <<freemap, unused_blocks, super_dirty, entry, node, pos>>
  BY DEF Inv, file_fsync, super
<1>2. PICK f \in File : f = node[d]
  BY <1>1 DEF TypeOK
<1>3. disk' = IF sin[f].dirty THEN [disk EXCEPT ![f] = sin[f].din] ELSE disk
  BY <1>1, <1>2 DEF sfs_fsync
<1>4. \A g : InMemory(g)' <=> InMemory(g)
  BY <1>1 DEF InMemory, Opens
<1>5. InMemory(f)
  BY <1>2 DEF InMemory, Opens
<1>6. /\ \A g \in File : sin'[g].din = sin[g].din
      /\ \A g \in File : g # f => sin'[g] = sin[g] /\ disk'[g] = disk[g]
      /\ sin'[f].dirty = FALSE
  BY <1>1, <1>2, <1>3 DEF TypeOK
<1>7. \A g \in File : Inode(g)' = Inode(g)
  BY <1>4, <1>5, <1>6 DEF Inode
<1>8. AllStay
  BY <1>1, <1>7 DEF AllStay, At
<1>9. TypeOK'
  <2>1. disk' \in [File -> DiskInode]
    BY <1>1, <1>3 DEF TypeOK
  <2>2. sin' \in [File -> [din : DiskInode, dirty : BOOLEAN]]
    BY <1>1, <1>2 DEF TypeOK
  <2> QED BY <1>1, <2>1, <2>2 DEF TypeOK, DiskInode, Entries, Sizes, Blocks, Capacity
<1>10. Tracks'
  <2>1. disk'[f].direct = sin[f].din.direct /\ disk'[f].indirect = sin[f].din.indirect
          /\ disk'[f].blocks <= sin[f].din.blocks
    <3>1. CASE sin[f].dirty
      <4>1. disk'[f] = sin[f].din /\ sin[f].din.blocks \in Int
        BY <1>1, <1>3, <3>1, BlocksInt DEF TypeOK
      <4> QED BY <4>1
    <3>2. CASE ~sin[f].dirty
      BY <1>3, <1>5, <3>2 DEF Inv, Tracks
    <3> QED BY <3>1, <3>2
  <2>2. \A g \in File : g # f => (InMemory(g)' /\ ~sin'[g].dirty =>
           /\ sin'[g].din.direct = disk'[g].direct /\ sin'[g].din.indirect = disk'[g].indirect
           /\ disk'[g].blocks <= sin'[g].din.blocks)
    BY <1>4, <1>6 DEF Inv, Tracks
  <2> QED BY <1>6, <2>1, <2>2 DEF Tracks
<1>11. Saved' /\ Off'
  BY <1>1 DEF Inv, Saved, Off
<1>12. \A g \in File : Inode(g)'.blocks <= Inode(g).blocks
  BY <1>1, <1>7, BlocksInt
<1> QED BY <1>8, <1>9, <1>10, <1>11, <1>12, StayStep

LEMMA CloseStep ==
    ASSUME Inv, NEW d \in Fd, file_close(d), UNCHANGED <<on_disk, mounted>>
    PROVE  Inv' /\ Kept
<1>1. /\ TypeOK /\ mounted /\ node[d] # NoFile
      /\ node' = [node EXCEPT ![d] = NoFile] /\ pos' = [pos EXCEPT ![d] = 0]
      /\ UNCHANGED <<freemap, unused_blocks, super_dirty, entry>>
  BY DEF Inv, file_close, super, Running
<1>2. PICK f \in File : f = node[d]
  BY <1>1 DEF TypeOK
<1>3. InMemory(f)
  BY <1>2 DEF InMemory, Opens
<1>4. node' \in [Fd -> File \cup {NoFile}] /\ pos' \in [Fd -> Sizes]
  BY <1>1, Constants DEF TypeOK, Sizes
<1>5. \A g \in File : g # f => (InMemory(g)' <=> InMemory(g))
  <2>1. \A g \in File : g # f => \A e \in Fd : node'[e] = g <=> node[e] = g
    BY <1>1, <1>2, SfsAssumption DEF TypeOK
  <2> QED BY <2>1 DEF InMemory, Opens
<1>6. Saved' /\ Off'
  BY <1>1 DEF Inv, Saved, Off
<1>7. CASE Opens(f) = {d}
  <2>1. /\ disk' = IF sin[f].dirty THEN [disk EXCEPT ![f] = sin[f].din] ELSE disk
        /\ sin' = [sin EXCEPT ![f] = Freed]
    BY <1>2, <1>7 DEF file_close, sfs_fsync
  <2>2. ~InMemory(f)'
    <3>1. \A e \in Fd : node'[e] # f
      BY <1>1, <1>2, <1>7, SfsAssumption DEF TypeOK, Opens
    <3> QED BY <3>1 DEF InMemory, Opens
  <2>3. \A g \in File : g # f => sin'[g] = sin[g] /\ disk'[g] = disk[g]
    BY <2>1 DEF TypeOK
  <2>4. disk'[f].direct = sin[f].din.direct /\ disk'[f].indirect = sin[f].din.indirect
          /\ disk'[f].blocks <= sin[f].din.blocks
    <3>1. CASE sin[f].dirty
      <4>1. disk'[f] = sin[f].din /\ sin[f].din.blocks \in Int
        BY <1>1, <2>1, <3>1, BlocksInt DEF TypeOK
      <4> QED BY <4>1
    <3>2. CASE ~sin[f].dirty
      BY <1>3, <2>1, <3>2 DEF Inv, Tracks
    <3> QED BY <3>1, <3>2
  <2>5. Inode(f)' = disk'[f] /\ Inode(f) = sin[f].din
    BY <1>3, <2>2 DEF Inode
  <2>6. \A g \in File : g # f => Inode(g)' = Inode(g)
    BY <1>5, <2>3 DEF Inode
  <2>7. \A g \in File : \A i : At(g, i)' = At(g, i)
    <3>1. \A i : At(f, i)' = At(f, i)
      BY <1>1, <2>4, <2>5 DEF At
    <3>2. \A g \in File : g # f => \A i : At(g, i)' = At(g, i)
      BY <1>1, <2>6 DEF At
    <3> QED BY <3>1, <3>2
  <2>8. AllStay
    BY <1>1, <2>7 DEF AllStay
  <2>9. TypeOK'
    <3>1. disk' \in [File -> DiskInode]
      BY <1>1, <2>1 DEF TypeOK
    <3>2. Freed \in [din : DiskInode, dirty : BOOLEAN]
      BY Constants DEF Freed, EmptyInode, DiskInode, Sizes
    <3>3. sin' \in [File -> [din : DiskInode, dirty : BOOLEAN]]
      BY <1>1, <2>1, <3>2 DEF TypeOK
    <3> QED BY <1>1, <1>4, <3>1, <3>3
        DEF TypeOK, DiskInode, Entries, Sizes, Blocks, Capacity
  <2>10. Tracks'
    BY <1>5, <2>2, <2>3 DEF Inv, Tracks
  <2>11. \A g \in File : Inode(g)'.blocks <= Inode(g).blocks
    <3>1. \A g \in File : Inode(g).blocks \in Int
      BY <1>1, BlocksInt
    <3> QED BY <2>4, <2>5, <2>6, <3>1
  <2> QED BY <1>6, <2>8, <2>9, <2>10, <2>11, StayStep
<1>8. CASE Opens(f) # {d}
  <2>1. UNCHANGED <<disk, sin>>
    BY <1>2, <1>8 DEF file_close
  <2>2. InMemory(f)'
    <3>1. PICK e \in Fd : e # d /\ node[e] = f
      BY <1>2, <1>8 DEF Opens
    <3>2. node'[e] = f
      BY <1>1, <3>1 DEF TypeOK
    <3> QED BY <3>2 DEF InMemory, Opens
  <2>3. \A g \in File : InMemory(g)' <=> InMemory(g)
    BY <1>3, <1>5, <2>2
  <2>4. \A g \in File : Inode(g)' = Inode(g)
    BY <2>1, <2>3 DEF Inode
  <2>5. AllStay
    BY <1>1, <2>4 DEF AllStay, At
  <2>6. TypeOK'
    BY <1>1, <1>4, <2>1 DEF TypeOK, DiskInode, Entries, Sizes, Blocks, Capacity
  <2>7. Tracks'
    BY <2>1, <2>3 DEF Inv, Tracks
  <2>8. \A g \in File : Inode(g)'.blocks <= Inode(g).blocks
    BY <1>1, <2>4, BlocksInt
  <2> QED BY <1>6, <2>5, <2>6, <2>7, <2>8, StayStep
<1> QED BY <1>7, <1>8

LEMMA CleanupStep ==
    ASSUME Inv, fs_cleanup
    PROVE  Inv' /\ Kept
<1>1. /\ TypeOK /\ \A d \in Fd : node[d] = NoFile
      /\ on_disk' = IF super_dirty THEN [free |-> freemap, unused |-> unused_blocks] ELSE on_disk
      /\ super_dirty' = FALSE /\ mounted' = FALSE
      /\ UNCHANGED <<freemap, unused_blocks, entry, disk, sin, node, pos>>
  BY DEF Inv, fs_cleanup
<1>2. on_disk' = [free |-> freemap, unused |-> unused_blocks]
  BY <1>1 DEF Inv, Saved
<1>3. \A f : InMemory(f)' <=> InMemory(f)
  BY <1>1 DEF InMemory, Opens
<1>4. \A f \in File : Inode(f)' = Inode(f)
  BY <1>1, <1>3 DEF Inode
<1>5. AllStay
  BY <1>1, <1>4 DEF AllStay, At
<1>6. TypeOK'
  <2>1. on_disk' \in [free : SUBSET Blocks, unused : 0 .. NBlocks]
    BY <1>1, <1>2 DEF TypeOK
  <2> QED BY <1>1, <2>1 DEF TypeOK, DiskInode, Entries, Sizes, Blocks, Capacity
<1>7. Tracks'
  BY <1>1, <1>3 DEF Inv, Tracks
<1>8. Saved' /\ Off'
  BY <1>1, <1>2 DEF Saved, Off
<1>9. \A f \in File : Inode(f)'.blocks <= Inode(f).blocks
  BY <1>1, <1>4, BlocksInt
<1> QED BY <1>5, <1>6, <1>7, <1>8, <1>9, StayStep

LEMMA MountStep ==
    ASSUME Inv, sfs_do_mount
    PROVE  Inv' /\ Kept /\ halted' = "no"
<1>1. /\ TypeOK /\ ~mounted
      /\ freemap' = on_disk.free /\ unused_blocks' = on_disk.unused
      /\ super_dirty' = FALSE /\ mounted' = TRUE
      /\ UNCHANGED <<on_disk, entry, disk, sin, node, pos>>
  BY DEF Inv, sfs_do_mount
<1>2. on_disk = [free |-> freemap, unused |-> unused_blocks]
  BY <1>1 DEF Inv, Saved, Off
<1>3. UNCHANGED <<freemap, unused_blocks>>
  BY <1>1, <1>2
<1>4. \A f : InMemory(f)' <=> InMemory(f)
  BY <1>1 DEF InMemory, Opens
<1>5. \A f \in File : Inode(f)' = Inode(f)
  BY <1>1, <1>4 DEF Inode
<1>6. AllStay
  BY <1>1, <1>3, <1>5 DEF AllStay, At
<1>7. TypeOK'
  BY <1>1, <1>3 DEF TypeOK, DiskInode, Entries, Sizes, Blocks, Capacity
<1>8. Tracks'
  BY <1>1, <1>4 DEF Inv, Tracks
<1>9. Saved' /\ Off'
  BY <1>1, <1>2, <1>3 DEF Saved, Off
<1>10. \A f \in File : Inode(f)'.blocks <= Inode(f).blocks
  BY <1>1, <1>5, BlocksInt
<1>11. halted' = "no"
  BY <1>2 DEF Inv, sfs_do_mount
<1> QED BY <1>6, <1>7, <1>8, <1>9, <1>10, <1>11, StayStep

LEMMA NextStep ==
    ASSUME Inv, [Next]_vars
    PROVE  Inv' /\ Kept /\ (sfs_do_mount => halted' = "no")
<1>1. Inv' /\ Kept
  <2>1. CASE UNCHANGED vars
    <3>1. UNCHANGED <<freemap, unused_blocks, super_dirty, on_disk, mounted, entry, disk, sin,
                      node, pos>>
      BY <2>1 DEF vars, super
    <3>2. \A f : InMemory(f)' <=> InMemory(f)
      BY <3>1 DEF InMemory, Opens
    <3>3. \A f \in File : Inode(f)' = Inode(f)
      BY <3>1, <3>2 DEF Inode
    <3>4. AllStay
      BY <3>1, <3>3 DEF AllStay, At
    <3>5. TypeOK'
      BY <3>1 DEF Inv, TypeOK, DiskInode, Entries, Sizes, Blocks, Capacity
    <3>6. Tracks'
      BY <3>1, <3>2 DEF Inv, Tracks
    <3>7. Saved' /\ Off'
      BY <3>1 DEF Inv, Saved, Off
    <3>8. \A f \in File : Inode(f)'.blocks <= Inode(f).blocks
      BY <3>3, BlocksInt DEF Inv
    <3> QED BY <3>4, <3>5, <3>6, <3>7, <3>8, StayStep
  <2>2. CASE fs_cleanup
    BY <2>2, CleanupStep
  <2>3. CASE sfs_do_mount
    BY <2>3, MountStep
  <2>4. ASSUME NEW d \in Fd, Calls(d), UNCHANGED <<on_disk, mounted>>
        PROVE  Inv' /\ Kept
    <3>1. CASE \E f \in File : \E trunc, append \in BOOLEAN : file_open(d, f, trunc, append)
      BY <2>4, <3>1, OpenStep
    <3>2. CASE \E n \in IOSizes : \E write \in BOOLEAN : Io(d, n, write)
      BY <2>4, <3>2, IoStep
    <3>3. CASE \E to \in Seeks : file_seek(d, to)
      BY <2>4, <3>3, SeekStep
    <3>4. CASE file_fsync(d)
      BY <2>4, <3>4, FsyncStep
    <3>5. CASE file_close(d)
      BY <2>4, <3>5, CloseStep
    <3> QED BY <2>4, <3>1, <3>2, <3>3, <3>4, <3>5 DEF Calls
  <2> QED BY <2>1, <2>2, <2>3, <2>4 DEF Next
<1>2. sfs_do_mount => halted' = "no"
  BY MountStep
<1> QED BY <1>1, <1>2

LEMMA InitInv ==
    ASSUME Init
    PROVE  Inv
<1>1. EmptyInode \in DiskInode
  BY Constants DEF EmptyInode, DiskInode, Sizes
<1>2. Freed \in [din : DiskInode, dirty : BOOLEAN]
  BY <1>1 DEF Freed
<1>3. [i \in SFS_NDIRECT .. Capacity - 1 |-> 0] \in Entries
  BY DEF Entries
<1>4. TypeOK
  <2>1. NBlocks \in 0 .. NBlocks /\ 0 \in Sizes
    BY Constants DEF Sizes
  <2> QED BY <1>1, <1>2, <1>3, <2>1 DEF Init, TypeOK
<1>5. \A f : ~InMemory(f) \/ f = NoFile
  BY DEF Init, InMemory, Opens
<1>6. \A f \in File : ~InMemory(f) /\ Inode(f) = EmptyInode
  BY <1>5, SfsAssumption DEF Init, Inode
<1>7. \A f \in File : \A i \in Places : At(f, i) = 0
  <2>1. ASSUME NEW f \in File, NEW i \in Places PROVE At(f, i) = 0
    <3>1. Inode(f) = EmptyInode /\ entry[f] = [j \in SFS_NDIRECT .. Capacity - 1 |-> 0]
      BY <1>6 DEF Init
    <3>2. PICK d : d = Inode(f)
      OBVIOUS
    <3>3. d.direct = [j \in 0 .. SFS_NDIRECT - 1 |-> 0] /\ d.indirect = 0
      BY <3>1, <3>2 DEF EmptyInode
    <3> QED BY <3>1, <3>2, <3>3, Constants DEF At
  <2> QED BY <2>1
<1>8. Apart /\ NotFree
  BY <1>7, Constants DEF Apart, NotFree, Init
<1>9. Covered
  BY DEF Init, Covered
<1>10. NoHoles
  <2>1. \A f \in File : Inode(f).blocks = 0
    BY <1>6 DEF EmptyInode
  <2> QED BY <2>1 DEF NoHoles
<1>11. unused_blocks = Cardinality(freemap)
  BY Constants, FS_Interval DEF Init
<1>12. Tracks
  BY <1>6 DEF Tracks
<1>13. Saved /\ Off
  BY DEF Init, Saved, Off
<1> QED BY <1>4, <1>8, <1>9, <1>10, <1>11, <1>12, <1>13 DEF Inv

-----------------------------------------------------------------------------
\* The inductive invariant holds.
THEOREM InvCorrect == Spec => []Inv
<1>1. Init => Inv
  BY InitInv
<1>2. Inv /\ [Next]_vars => Inv'
  BY NextStep
<1> QED BY <1>1, <1>2, PTL DEF Spec

\* Every block that is not free is at one place in one file.
THEOREM OwnedCorrect == Spec => []BlocksOwnedOnce
<1>1. Inv => BlocksOwnedOnce
  <2>1. SUFFICES ASSUME Inv PROVE BlocksOwnedOnce
    OBVIOUS
  <2>2. ASSUME NEW b \in Blocks
        PROVE  Cardinality({x \in File \X Places : At(x[1], x[2]) = b}) =
                 IF b \in freemap THEN 0 ELSE 1
    <3>1. PICK owners : owners = {x \in File \X Places : At(x[1], x[2]) = b}
      OBVIOUS
    <3>2. CASE b \in freemap
      <4>1. owners = {}
        BY <2>1, <3>1, <3>2 DEF Inv, NotFree
      <4>2. Cardinality(owners) = 0
        BY <4>1, FS_EmptySet
      <4> QED BY <3>1, <3>2, <4>2
    <3>3. CASE b \notin freemap
      <4>1. PICK f \in File, i \in Places : At(f, i) = b
        BY <2>1, <3>3 DEF Inv, Covered
      <4>2. b # 0
        BY Constants
      <4>3. owners = {<<f, i>>}
        BY <2>1, <3>1, <4>1, <4>2 DEF Inv, Apart
      <4>4. Cardinality(owners) = 1
        BY <4>3, FS_Singleton
      <4> QED BY <3>1, <3>3, <4>4
    <3> QED BY <3>2, <3>3
  <2>3. TypeOK /\ unused_blocks = Cardinality(freemap)
    BY <2>1 DEF Inv
  <2> QED BY <2>2, <2>3 DEF BlocksOwnedOnce
<1> QED BY <1>1, InvCorrect, PTL

\* Below its number of blocks a file has no hole.
THEOREM HolesCorrect == Spec => []NoHoles
<1>1. Inv => NoHoles
  BY DEF Inv
<1> QED BY <1>1, InvCorrect, PTL

\* A block of a file stays at its place until the file is opened with O_TRUNC.
THEOREM StayCorrect == Spec => BlocksStay
<1>1. Inv /\ [Next]_vars => [Kept]_vars
  BY NextStep
<1>2. Spec => [][Kept]_vars
  BY <1>1, InvCorrect, PTL DEF Spec
<1> QED BY <1>2 DEF BlocksStay, Kept

\* When the disk is mounted again the free blocks are as many as it says.
THEOREM MountCorrect == Spec => [][sfs_do_mount => halted' = "no"]_vars
<1>1. Inv /\ [Next]_vars => [sfs_do_mount => halted' = "no"]_vars
  BY NextStep
<1> QED BY <1>1, InvCorrect, PTL DEF Spec

-----------------------------------------------------------------------------
(***************************************************************************)
(* SemLock, for any finite set of processes and any number of permits.     *)
(* The queue, the wait states and the program counters are one inductive   *)
(* invariant; counting permits rests on it, and both give the refinement   *)
(* of PermitPool.                                                          *)
(***************************************************************************)
\* What the sequence operations of the wait queue do to membership.
Inj(s) == \A i, j \in DOMAIN s : s[i] = s[j] => i = j

LockInv == LockTypeOK /\ QueueInv /\ DownNeverFails

\* A new last element keeps a sequence free of duplicates.
LEMMA AppendFacts ==
    ASSUME NEW s \in Seq(Proc), NEW p \in Proc
    PROVE  /\ Append(s, p) \in Seq(Proc)
           /\ Append(s, p) # <<>>
           /\ \A q : (\E i \in DOMAIN Append(s, p) : Append(s, p)[i] = q)
                     <=> q = p \/ (\E i \in DOMAIN s : s[i] = q)
           /\ Inj(s) /\ (\A i \in DOMAIN s : s[i] # p) => Inj(Append(s, p))
<1>1. /\ Append(s, p) \in Seq(Proc)
      /\ DOMAIN Append(s, p) = 1 .. Len(s) + 1
      /\ DOMAIN s = 1 .. Len(s)
      /\ Len(s) \in Nat
      /\ Append(s, p)[Len(s) + 1] = p
      /\ \A i \in 1 .. Len(s) : Append(s, p)[i] = s[i]
  OBVIOUS
<1>2. Append(s, p) # <<>>
  <2>1. Len(s) + 1 \in DOMAIN Append(s, p) /\ DOMAIN << >> = {}
    BY <1>1
  <2> QED BY <2>1
<1>3. ASSUME NEW q
      PROVE  (\E i \in DOMAIN Append(s, p) : Append(s, p)[i] = q)
             <=> q = p \/ (\E i \in DOMAIN s : s[i] = q)
  BY <1>1
<1>4. Inj(s) /\ (\A i \in DOMAIN s : s[i] # p) => Inj(Append(s, p))
  BY <1>1 DEF Inj
<1> QED BY <1>1, <1>2, <1>3, <1>4

\* Taking the first element off removes it, and nothing else.
LEMMA TailFacts ==
    ASSUME NEW s \in Seq(Proc), s # <<>>, Inj(s)
    PROVE  /\ Head(s) \in Proc
           /\ Tail(s) \in Seq(Proc)
           /\ \E i \in DOMAIN s : s[i] = Head(s)
           /\ \A q : (\E i \in DOMAIN Tail(s) : Tail(s)[i] = q)
                     <=> q # Head(s) /\ (\E i \in DOMAIN s : s[i] = q)
           /\ Inj(Tail(s))
<1>1. /\ Tail(s) \in Seq(Proc)
      /\ Len(s) \in Nat
      /\ Len(s) > 0
      /\ DOMAIN Tail(s) = 1 .. Len(s) - 1
      /\ DOMAIN s = 1 .. Len(s)
      /\ Head(s) = s[1]
      /\ s[1] \in Proc
      /\ \A i \in 1 .. Len(s) - 1 : Tail(s)[i] = s[i + 1]
  OBVIOUS
<1>2. ASSUME NEW q
      PROVE  (\E i \in DOMAIN Tail(s) : Tail(s)[i] = q)
             <=> q # Head(s) /\ (\E i \in DOMAIN s : s[i] = q)
  <2>1. ASSUME NEW i \in DOMAIN Tail(s), Tail(s)[i] = q
        PROVE  q # Head(s) /\ (\E j \in DOMAIN s : s[j] = q)
    <3>1. i + 1 \in DOMAIN s /\ 1 \in DOMAIN s /\ s[i + 1] = q /\ i + 1 # 1
      BY <1>1, <2>1
    <3> QED BY <3>1, <1>1 DEF Inj
  <2>2. ASSUME NEW i \in DOMAIN s, s[i] = q, q # Head(s)
        PROVE  \E j \in DOMAIN Tail(s) : Tail(s)[j] = q
    <3>1. i - 1 \in DOMAIN Tail(s) /\ Tail(s)[i - 1] = s[i]
      BY <1>1, <2>2
    <3> QED BY <3>1, <2>2
  <2> QED BY <2>1, <2>2
<1>3. Inj(Tail(s))
  BY <1>1 DEF Inj
<1>4. \E i \in DOMAIN s : s[i] = Head(s)
  BY <1>1
<1> QED BY <1>1, <1>2, <1>3, <1>4

\* The queue, the sleepers and the program counters agree when the system starts.
LEMMA LockInitInv == LockInit => LockInv
BY LockAssumption DEF LockInit, SemInit, LockInv, LockTypeOK, SemTypeOK, QueueInv, DownNeverFails,
      Queued, Asleep, InDown, GoTo

\* Every step keeps them in agreement.
LEMMA LockNextInv == LockInv /\ [LockNext]_lockVars => LockInv'
<1> SUFFICES ASSUME LockInv, [LockNext]_lockVars PROVE LockInv'
  OBVIOUS
<1> USE LockAssumption
<1>1. CASE UNCHANGED lockVars
  BY <1>1 DEF LockInv, LockTypeOK, SemTypeOK, QueueInv, DownNeverFails, Queued, Asleep, InDown, GoTo, lockVars, semVars
<1>2. ASSUME NEW p \in Proc, Enter(p) PROVE LockInv'
  BY <1>2 DEF LockInv, LockTypeOK, SemTypeOK, QueueInv, DownNeverFails, Queued, Asleep, InDown, GoTo, Enter, DownTakes
<1>3. ASSUME NEW p \in Proc, Block(p) PROVE LockInv'
  <2> DEFINE q == queue[lock]
  <2>1. /\ queue' = [queue EXCEPT ![lock] = Append(q, p)]
        /\ q \in Seq(Proc)
        /\ Inj(q)
        /\ \A i \in DOMAIN q : q[i] # p
    BY <1>3 DEF LockInv, LockTypeOK, SemTypeOK, QueueInv, Queued, Asleep, InDown, GoTo, Block, DownSleeps,
          WaitCurrentSet, Inj
  <2>2. queue'[lock] = Append(q, p) /\ queue' \in [Sem -> Seq(Proc)]
    BY <2>1 DEF LockInv, LockTypeOK, SemTypeOK
  <2>3. /\ \A r \in Proc : Queued(lock, r)' <=> r = p \/ Queued(lock, r)
        /\ Inj(queue'[lock])
    BY <2>1, <2>2, AppendFacts DEF Queued
  <2>4. LockTypeOK'
    BY <1>3, <2>2 DEF LockInv, LockTypeOK, SemTypeOK, Block, DownSleeps, WaitCurrentSet
  <2> QED
    BY <1>3, <2>3, <2>4 DEF LockInv, LockTypeOK, SemTypeOK, QueueInv, DownNeverFails, Asleep, InDown, GoTo, Block,
          DownSleeps, WaitCurrentSet, Inj
<1>4. ASSUME NEW p \in Proc, Granted(p) PROVE LockInv'
  <2>1. pc[p] = "out" /\ InDown(p) /\ ~Asleep(p) /\ wakeup_flags[p] = "WT_KSEM" /\ ~Queued(lock, p)
    BY <1>4 DEF LockInv, QueueInv, Granted, DownReturns
  <2>2. /\ UNCHANGED <<value, queue, wait_state, killed>>
        /\ wakeup_flags' = [wakeup_flags EXCEPT ![p] = "none"]
        /\ pc' = [pc EXCEPT ![p] = "in"]
    BY <1>4, <2>1 DEF Granted, DownReturns, GoTo
  <2>3. LockTypeOK'
    BY <2>2 DEF LockInv, LockTypeOK, SemTypeOK
  <2>4. DownNeverFails'
    BY <2>2 DEF LockInv, LockTypeOK, DownNeverFails
  <2>5. QueueInv'
    <3>1. ASSUME NEW q \in Proc
          PROVE  /\ Queued(lock, q)' <=> Asleep(q)'
                 /\ Asleep(q)' => InDown(q)'
                 /\ InDown(q)' => pc'[q] = "out"
                 /\ InDown(q)' /\ ~Asleep(q)' => wakeup_flags'[q] = "WT_KSEM"
      BY <2>1, <2>2 DEF LockInv, LockTypeOK, SemTypeOK, QueueInv, Queued, Asleep, InDown
    <3> QED BY <2>2, <2>3, <3>1 DEF LockInv, QueueInv
  <2> QED BY <2>3, <2>4, <2>5 DEF LockInv
<1>5. ASSUME NEW p \in Proc, Leave(p) PROVE LockInv'
  <2> DEFINE q == queue[lock]
  <2>1. q \in Seq(Proc) /\ Inj(q)
    BY DEF LockInv, LockTypeOK, SemTypeOK, QueueInv, Inj
  <2>2. CASE q = <<>>
    BY <1>5, <2>2 DEF LockInv, LockTypeOK, SemTypeOK, QueueInv, DownNeverFails, Queued, Asleep, InDown, GoTo,
          Leave, Up
  <2>3. CASE q # <<>>
    <3>1. /\ queue' = [queue EXCEPT ![lock] = Tail(q)]
          /\ wakeup_flags' = [wakeup_flags EXCEPT ![Head(q)] = "WT_KSEM"]
          /\ wait_state' = [wait_state EXCEPT ![Head(q)] = "0"]
          /\ pc' = [pc EXCEPT ![p] = "out"]
          /\ pc[p] = "in"
          /\ UNCHANGED <<value, killed>>
      BY <1>5, <2>3 DEF Leave, Up, WakeupWait, GoTo
    <3>2. queue'[lock] = Tail(q) /\ queue' \in [Sem -> Seq(Proc)] /\ Head(q) \in Proc
      BY <2>1, <2>3, <3>1, TailFacts DEF LockInv, LockTypeOK, SemTypeOK
    <3> HIDE DEF q
    <3>a. /\ \E i \in DOMAIN q : q[i] = Head(q)
          /\ \A r : (\E i \in DOMAIN Tail(q) : Tail(q)[i] = r)
                    <=> r # Head(q) /\ (\E i \in DOMAIN q : q[i] = r)
          /\ Inj(Tail(q))
      BY <2>1, <2>3, TailFacts
    <3> USE DEF q
    <3>3. /\ \A r \in Proc : Queued(lock, r)' <=> r # Head(q) /\ Queued(lock, r)
          /\ Queued(lock, Head(q))
          /\ Inj(queue'[lock])
      BY <3>2, <3>a, Zenon DEF Queued
    <3>4. LockTypeOK'
      BY <3>1, <3>2 DEF LockInv, LockTypeOK, SemTypeOK
    <3> QED
      BY <3>1, <3>2, <3>3, <3>4 DEF LockInv, LockTypeOK, SemTypeOK, QueueInv, DownNeverFails, Asleep, InDown, GoTo, Inj
  <2> QED BY <2>2, <2>3
<1>6. ASSUME NEW p \in Proc, Kill(p) PROVE LockInv'
  BY <1>6 DEF LockInv, LockTypeOK, SemTypeOK, QueueInv, DownNeverFails, Queued, Asleep, InDown, GoTo, Kill,
        WT_INTERRUPTED
<1> QED BY <1>1, <1>2, <1>3, <1>4, <1>5, <1>6 DEF LockNext

\* Hence at all times.
LEMMA InvHolds == LockSpec => []LockInv
<1>1. LockInit => LockInv
  BY LockInitInv
<1>2. LockInv /\ [LockNext]_lockVars => LockInv'
  BY LockNextInv
<1> QED BY <1>1, <1>2, PTL DEF LockSpec

\* The variables keep their types.
THEOREM LockTypeCorrect == LockSpec => []LockTypeOK
BY InvHolds, PTL DEF LockInv

\* The wait queue holds exactly the sleeping processes, each once, and a process
\* that was woken finds in its wait_t that up() did it.
THEOREM QueueCorrect == LockSpec => []QueueInv
BY InvHolds, PTL DEF LockInv

\* The assertion of down() never fails, whoever is killed while waiting.
THEOREM DownAssertHolds == LockSpec => []DownNeverFails
BY InvHolds, PTL DEF LockInv

-----------------------------------------------------------------------------
(***************************************************************************)
(* Permits.                                                                *)
(***************************************************************************)

\* What each step does to the set of owners: only Enter and Leave change it.
LEMMA HoldersStep ==
    ASSUME LockInv, NEW p \in Proc
    PROVE  /\ Enter(p) => p \notin Holders /\ Holders' = Holders \cup {p}
           /\ Block(p) \/ Granted(p) \/ Kill(p) => Holders' = Holders
           /\ Leave(p) /\ queue[lock] = <<>> => p \in Holders /\ Holders' = Holders \ {p}
           /\ Leave(p) /\ queue[lock] # <<>> =>
                /\ p \in Holders
                /\ Head(queue[lock]) \in Proc \ Holders
                /\ Holders' = (Holders \ {p}) \cup {Head(queue[lock])}
<1> USE LockAssumption DEF LockInv, LockTypeOK, SemTypeOK
<1>1. Enter(p) => p \notin Holders /\ Holders' = Holders \cup {p}
  BY DEF Enter, DownTakes, Holders, Asleep, InDown, GoTo
<1>2. Block(p) => Holders' = Holders
  BY DEF Block, DownSleeps, WaitCurrentSet, Holders, Asleep, InDown, GoTo
<1>3. Granted(p) => Holders' = Holders
  BY DEF Granted, DownReturns, Holders, Asleep, InDown, GoTo, QueueInv
<1>4. Kill(p) => Holders' = Holders
  BY DEF Kill, Holders, Asleep, InDown, GoTo, WT_INTERRUPTED
<1>5. Leave(p) /\ queue[lock] = <<>> => p \in Holders /\ Holders' = Holders \ {p}
  BY DEF Leave, Up, Holders, Asleep, InDown, GoTo, QueueInv
<1>6. ASSUME Leave(p), queue[lock] # <<>>
      PROVE  /\ p \in Holders
             /\ Head(queue[lock]) \in Proc \ Holders
             /\ Holders' = (Holders \ {p}) \cup {Head(queue[lock])}
  <2> DEFINE h == Head(queue[lock])
  <2>1. Inj(queue[lock]) /\ queue[lock] \in Seq(Proc)
    BY DEF QueueInv, Inj
  <2>2. h \in Proc /\ Queued(lock, h)
    BY <1>6, <2>1, TailFacts DEF Queued
  <2>3. InDown(h) /\ Asleep(h) /\ pc[h] = "out"
    BY <2>2 DEF QueueInv
  <2> HIDE DEF h
  <2>4. /\ pc[p] = "in"
        /\ pc' = [pc EXCEPT ![p] = "out"]
        /\ wait_state' = [wait_state EXCEPT ![h] = "0"]
        /\ wakeup_flags' = [wakeup_flags EXCEPT ![h] = "WT_KSEM"]
        /\ ~InDown(p)
    BY <1>6 DEF Leave, Up, WakeupWait, GoTo, QueueInv, InDown, h
  <2>5. p \in Holders /\ h \notin Holders /\ Holders' = (Holders \ {p}) \cup {h}
    BY <2>2, <2>3, <2>4 DEF Holders, Asleep, InDown, GoTo
  <2> QED BY <2>2, <2>5 DEF h
<1> QED BY <1>1, <1>2, <1>3, <1>4, <1>5, <1>6

\* The owners are a finite set.
LEMMA HoldersFinite == IsFiniteSet(Holders) /\ Cardinality(Holders) \in Nat
<1>1. Holders \subseteq Proc
  BY DEF Holders
<1> QED BY <1>1, LockAssumption, FS_Subset, FS_CardinalityType

\* At the start all permits are in the value.
LEMMA InitPermits == LockInit => PermitsConserved
<1> SUFFICES ASSUME LockInit PROVE PermitsConserved
  OBVIOUS
<1>1. Holders = {}
  BY DEF LockInit, SemInit, Holders, InDown
<1> QED BY <1>1, LockAssumption, FS_EmptySet DEF LockInit, SemInit, PermitsConserved

\* Every step moves permits between the value and the owners, and makes or
\* loses none.
LEMMA NextPermits == LockInv /\ PermitsConserved /\ [LockNext]_lockVars => PermitsConserved'
<1> SUFFICES ASSUME LockInv, PermitsConserved, [LockNext]_lockVars PROVE PermitsConserved'
  OBVIOUS
<1> USE LockAssumption
<1>0. /\ IsFiniteSet(Holders) /\ Cardinality(Holders) \in Nat
      /\ value[lock] \in Nat
      /\ value[lock] + Cardinality(Holders) = InitValue
      /\ queue[lock] # <<>> => value[lock] = 0
  BY HoldersFinite DEF PermitsConserved, LockInv, LockTypeOK, SemTypeOK
<1>1. CASE UNCHANGED lockVars
  BY <1>1 DEF PermitsConserved, Holders, Asleep, InDown, GoTo, lockVars, semVars
<1>2. ASSUME NEW p \in Proc, Enter(p) PROVE PermitsConserved'
  <2>1. p \notin Holders /\ Holders' = Holders \cup {p}
    BY <1>2, HoldersStep
  <2>2. Cardinality(Holders') = Cardinality(Holders) + 1
    BY <1>0, <2>1, FS_AddElement, Zenon
  <2>3. value'[lock] = value[lock] - 1 /\ value[lock] > 0 /\ queue' = queue
    BY <1>2 DEF Enter, DownTakes, LockInv, LockTypeOK, SemTypeOK
  <2> QED BY <1>0, <2>2, <2>3 DEF PermitsConserved
<1>3. ASSUME NEW p \in Proc, Block(p) PROVE PermitsConserved'
  <2>1. Holders' = Holders
    BY <1>3, HoldersStep
  <2>2. value' = value /\ value[lock] = 0
    BY <1>0, <1>3 DEF Block, DownSleeps
  <2> QED BY <1>0, <2>1, <2>2 DEF PermitsConserved
<1>4. ASSUME NEW p \in Proc, Granted(p) \/ Kill(p) PROVE PermitsConserved'
  <2>1. Holders' = Holders
    BY <1>4, HoldersStep
  <2>2. value' = value /\ queue' = queue
    BY <1>4 DEF Granted, DownReturns, Kill, LockInv, QueueInv
  <2> QED BY <1>0, <2>1, <2>2 DEF PermitsConserved
<1>5. ASSUME NEW p \in Proc, Leave(p) PROVE PermitsConserved'
  <2>1. CASE queue[lock] = <<>>
    <3>1. p \in Holders /\ Holders' = Holders \ {p}
      BY <1>5, <2>1, HoldersStep
    <3>2. Cardinality(Holders') = Cardinality(Holders) - 1
      BY <1>0, <3>1, FS_RemoveElement, Zenon
    <3>3. value'[lock] = value[lock] + 1 /\ queue' = queue
      BY <1>5, <2>1 DEF Leave, Up, LockInv, LockTypeOK, SemTypeOK
    <3> QED BY <1>0, <2>1, <3>2, <3>3 DEF PermitsConserved
  <2>2. CASE queue[lock] # <<>>
    <3> DEFINE h == Head(queue[lock])
    <3>1. p \in Holders /\ h \notin Holders /\ Holders' = (Holders \ {p}) \cup {h}
      BY <1>5, <2>2, HoldersStep
    <3>2. IsFiniteSet(Holders \ {p}) /\ Cardinality(Holders \ {p}) = Cardinality(Holders) - 1
      BY <1>0, <3>1, FS_RemoveElement, Zenon
    <3>3. h \notin Holders \ {p}
      BY <3>1
    <3>4. Cardinality(Holders') = Cardinality(Holders \ {p}) + 1
      BY <3>1, <3>2, <3>3, FS_AddElement, Zenon
    <3>5. value' = value
      BY <1>5, <2>2 DEF Leave, Up
    <3> QED BY <1>0, <2>2, <3>2, <3>4, <3>5 DEF PermitsConserved
  <2> QED BY <2>1, <2>2
<1> QED BY <1>1, <1>2, <1>3, <1>4, <1>5 DEF LockNext

\* Both invariants together.
LEMMA AllHolds == LockSpec => [](LockInv /\ PermitsConserved)
<1>1. LockInit => LockInv /\ PermitsConserved
  BY LockInitInv, InitPermits
<1>2. (LockInv /\ PermitsConserved) /\ [LockNext]_lockVars => (LockInv /\ PermitsConserved)'
  BY LockNextInv, NextPermits
<1> QED BY <1>1, <1>2, PTL DEF LockSpec

\* The permits in the value and those owned are always InitValue together, so
\* no more than InitValue processes are ever between down() and up(), and no
\* permit lies idle beside a waiter.
THEOREM PermitsCorrect == LockSpec => []PermitsConserved
BY AllHolds, PTL

\* With one permit the semaphore is a mutex: two processes are never both
\* inside the section.
THEOREM MutualExclusion ==
    LockSpec => [](InitValue = 1 =>
                 \A p, q \in Proc : pc[p] = "in" /\ pc[q] = "in" => p = q)
<1> DEFINE Mutex == InitValue = 1 => \A p, q \in Proc : pc[p] = "in" /\ pc[q] = "in" => p = q
<1>1. LockInv /\ PermitsConserved => Mutex
  <2> SUFFICES ASSUME LockInv, PermitsConserved, InitValue = 1,
                      NEW p \in Proc, NEW q \in Proc, pc[p] = "in", pc[q] = "in", p # q
               PROVE  FALSE
    OBVIOUS
  <2>1. {p, q} \subseteq Holders
    BY DEF Holders
  <2>2. Cardinality({p, q}) = 2
    <3>1. IsFiniteSet({p}) /\ Cardinality({p}) = 1
      BY FS_Singleton, Zenon
    <3>2. {p, q} = {p} \cup {q} /\ q \notin {p}
      OBVIOUS
    <3>3. Cardinality({p} \cup {q}) = Cardinality({p}) + 1
      BY <3>1, <3>2, FS_AddElement, Zenon
    <3> QED BY <3>1, <3>2, <3>3
  <2>3. Cardinality({p, q}) <= Cardinality(Holders)
    BY <2>1, HoldersFinite, FS_Subset, Zenon
  <2>4. value[lock] \in Nat /\ Cardinality(Holders) \in Nat
    BY LockAssumption, HoldersFinite DEF LockInv, LockTypeOK, SemTypeOK
  <2> QED BY <2>2, <2>3, <2>4 DEF PermitsConserved
<1> HIDE DEF Mutex
<1>2. LockSpec => []Mutex
  BY <1>1, AllHolds, PTL
<1> QED BY <1>2 DEF Mutex

\* The instance's Cardinality is the same operator.
LEMMA PoolCardinality == Pool!Cardinality(Holders) = Cardinality(Holders)
BY DEF Pool!Cardinality, Cardinality

\* The semaphore implements the first come, first served pool of permits.
THEOREM ImplementsPool == LockSpec => HandsOutInOrder
<1>1. LockInit => Pool!PInit
  BY LockAssumption DEF LockInit, SemInit, Pool!PInit, Holders, InDown
<1>2. (LockInv /\ PermitsConserved) /\ [LockNext]_lockVars => [Pool!PNext]_(Pool!poolVars)
  <2> SUFFICES ASSUME LockInv, PermitsConserved, [LockNext]_lockVars PROVE [Pool!PNext]_(Pool!poolVars)
    OBVIOUS
  <2> USE LockAssumption
  <2>0. value[lock] \in Nat /\ Cardinality(Holders) \in Nat
    BY HoldersFinite DEF LockInv, LockTypeOK, SemTypeOK
  <2>1. CASE UNCHANGED lockVars
    BY <2>1 DEF lockVars, semVars, Pool!poolVars, Holders, Asleep, InDown, GoTo
  <2>2. ASSUME NEW p \in Proc, Enter(p) PROVE Pool!Take(p)
    <3>1. p \notin Holders /\ Holders' = Holders \cup {p}
      BY <2>2, HoldersStep
    <3>2. value[lock] > 0 /\ ~Queued(lock, p) /\ UNCHANGED queue[lock]
      BY <2>2 DEF Enter, DownTakes, LockInv, QueueInv, Asleep, InDown, GoTo
    <3> QED BY <2>0, <3>1, <3>2, PoolCardinality
            DEF Pool!Take, Pool!Waits, Queued, PermitsConserved
  <2>3. ASSUME NEW p \in Proc, Block(p) PROVE Pool!Enqueue(p)
    <3>1. /\ Holders' = Holders
          /\ p \notin Holders
          /\ ~Queued(lock, p)
          /\ queue'[lock] = Append(queue[lock], p)
          /\ value[lock] = 0
      BY <2>0, <2>3, HoldersStep
         DEF Block, DownSleeps, WaitCurrentSet, LockInv, LockTypeOK, SemTypeOK, QueueInv, Asleep, InDown, GoTo, Holders
    <3> QED BY <2>0, <3>1, PoolCardinality DEF Pool!Enqueue, Pool!Waits, Queued, PermitsConserved
  <2>4. ASSUME NEW p \in Proc, Granted(p) \/ Kill(p) PROVE UNCHANGED Pool!poolVars
    BY <2>4, HoldersStep DEF Granted, DownReturns, Kill, LockInv, QueueInv, Pool!poolVars
  <2>5. ASSUME NEW p \in Proc, Leave(p) PROVE Pool!GiveBack(p)
    <3>1. queue[lock] # <<>> => queue'[lock] = Tail(queue[lock])
      BY <2>5 DEF Leave, Up, WakeupWait, LockInv, LockTypeOK, SemTypeOK
    <3>2. queue[lock] = <<>> => queue'[lock] = queue[lock]
      BY <2>5 DEF Leave, Up
    <3> QED BY <2>5, <3>1, <3>2, HoldersStep DEF Pool!GiveBack
  <2> QED BY <2>1, <2>2, <2>3, <2>4, <2>5 DEF LockNext, Pool!PNext
<1> QED BY <1>1, <1>2, AllHolds, PTL DEF LockSpec, HandsOutInOrder, Pool!PSpec

=============================================================================
