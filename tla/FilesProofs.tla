---------------------------- MODULE FilesProofs ----------------------------
(***************************************************************************)
(* Proofs about Files, for any processes, files, directories, devices and  *)
(* descriptors: the counts of an inode are what the tables of the          *)
(* processes say, inside each call as well as between them.  In the last   *)
(* part, proofs about StdIn, the device that descriptor 0 is open on: the  *)
(* two share no state.                                                     *)
(***************************************************************************)
EXTENDS Files, StdIn, SequenceTheorems, FiniteSetTheorems, TLAPS

Inode == [ref : Nat, open : Nat, reclaim : Nat, dirty : BOOLEAN]
Halts == {"ok", "vop_create", "vop_truncate", "vop_tryseek"}
Rec == [inode : [Node -> Inode], res : Halts]
Table == [pwd : Dir \cup {NONE}, fd : [Fd -> Node \cup {NONE}]]
Tables == [Procs -> [pwd : Dir \cup {NONE}, fd : [Fd -> Node \cup {NONE}]]]

\* The inode x of n has r references and is open o times.
Fits(x, n, r, o) ==
    /\ x.ref = r /\ x.open = o
    /\ n \notin Device => x.reclaim = IF r > 0 THEN 1 ELSE 0
    /\ x.dirty => o > 0

\* As long as the kernel runs, the inodes of s have the counts R and O.
Counted(s, R, O) ==
    /\ s \in Rec
    /\ Ok(s) => \A n \in Node : Fits(s.inode[n], n, R[n], O[n])

\* The descriptors and the processes that refer to a node in the tables F, the counts
\* that these make, and those with L more references to each node, which a call has in
\* hand or a failed open has kept.
FdsOf(F, n) == {x \in Procs \X Fd : F[x[1]].fd[x[2]] = n}
CwdsOf(F, n) == {p \in Procs : F[p].pwd = n}
OpensOf(F) == [n \in Node |-> Cardinality(FdsOf(F, n))]
RefsOf(F, L) ==
    [n \in Node |-> Base(n) + Cardinality(FdsOf(F, n)) + Cardinality(CwdsOf(F, n)) + L[n]]

Sound(s, F, L) ==
    /\ F \in Tables /\ L \in [Node -> Nat]
    /\ Counted(s, RefsOf(F, L), OpensOf(F))

\* Who has no working directory in the tables F has no descriptors.
Tidy(F) == \A p \in Procs : F[p].pwd = NONE => \A i \in Fd : F[p].fd[i] = NONE

FilesInv ==
    /\ inode \in [Node -> Inode] /\ files \in Tables /\ lost \in [Node -> Nat]
    /\ halted \in Halts
    /\ Running => Tidy(files) /\ Sound(Now, files, lost)

-----------------------------------------------------------------------------
(***************************************************************************)
(* One inode.                                                              *)
(***************************************************************************)
LEMMA Constants ==
    /\ root \in Dir /\ root \in Node /\ Dir \subseteq Node /\ File \subseteq Node /\ Device \subseteq Node
    /\ NONE \notin Node /\ NONE \notin Dir
    /\ File \cap Dir = {} /\ File \cap Device = {} /\ Dir \cap Device = {}
    /\ IsFiniteSet(Procs) /\ IsFiniteSet(Fd) /\ NFd \in Nat /\ NFd > 2
    /\ initproc \in Procs /\ initproc \notin Proc /\ Proc \subseteq Procs
<1>1. IsFiniteSet(Procs)
  <2>1. IsFiniteSet({initproc}) /\ IsFiniteSet(Proc)
    BY FilesAssumption, FS_Singleton
  <2> QED BY <2>1, FS_Union, Zenon DEF Procs
<1>2. IsFiniteSet(Fd)
  <2>1. 0 \in Int /\ NFd - 1 \in Int
    BY FilesAssumption
  <2> QED BY <2>1, FS_Interval, Zenon DEF Fd
<1> QED BY <1>1, <1>2, FilesAssumption DEF Node, Procs

\* One more, and one less, for n.
Plus(f, n) == [f EXCEPT ![n] = f[n] + 1]
Minus(f, n) == [f EXCEPT ![n] = f[n] - 1]

\* u is s but for the inode of n, which is x.
Sets(s, u, n, x) ==
    /\ u \in Rec /\ u.res = s.res /\ u.inode[n] = x
    /\ \A m \in Node : m # n => u.inode[m] = s.inode[m]

LEMMA SetCounted ==
    ASSUME NEW R \in [Node -> Nat], NEW O \in [Node -> Nat], NEW s, Counted(s, R, O), NEW n \in Node,
           NEW x, NEW r \in Nat, NEW o \in Nat, Ok(s) => Fits(x, n, r, o), NEW t, Sets(s, t, n, x)
    PROVE  Counted(t, [R EXCEPT ![n] = r], [O EXCEPT ![n] = o])
<1>1. ASSUME Ok(t), NEW m \in Node
      PROVE  Fits(t.inode[m], m, [R EXCEPT ![n] = r][m], [O EXCEPT ![n] = o][m])
  <2>1. Ok(s)
    BY <1>1 DEF Ok, Sets
  <2>2. CASE m = n
    BY <2>1, <2>2 DEF Sets
  <2>3. CASE m # n
    BY <2>1, <2>3 DEF Counted, Sets
  <2> QED BY <2>2, <2>3
<1> QED BY <1>1 DEF Counted, Sets

\* After the kernel has stopped the counts say nothing.
LEMMA StoppedCounted ==
    ASSUME NEW s \in Rec, ~Ok(s), NEW R, NEW O
    PROVE  Counted(s, R, O)
BY DEF Counted

LEMMA InodeFacts ==
    ASSUME NEW y \in Inode
    PROVE  /\ y.ref \in Nat /\ y.open \in Nat /\ y.reclaim \in Nat /\ y.dirty \in BOOLEAN
           /\ \A k \in Nat :
                /\ [y EXCEPT !.ref = k] \in Inode
                /\ [y EXCEPT !.ref = k].ref = k /\ [y EXCEPT !.ref = k].open = y.open
                /\ [y EXCEPT !.ref = k].reclaim = y.reclaim /\ [y EXCEPT !.ref = k].dirty = y.dirty
           /\ \A k \in Nat :
                /\ [y EXCEPT !.open = k] \in Inode
                /\ [y EXCEPT !.open = k].open = k /\ [y EXCEPT !.open = k].ref = y.ref
                /\ [y EXCEPT !.open = k].reclaim = y.reclaim /\ [y EXCEPT !.open = k].dirty = y.dirty
           /\ \A k \in Nat :
                /\ [y EXCEPT !.reclaim = k] \in Inode
                /\ [y EXCEPT !.reclaim = k].open = y.open /\ [y EXCEPT !.reclaim = k].ref = y.ref
                /\ [y EXCEPT !.reclaim = k].reclaim = k /\ [y EXCEPT !.reclaim = k].dirty = y.dirty
           /\ \A k \in BOOLEAN :
                /\ [y EXCEPT !.dirty = k] \in Inode
                /\ [y EXCEPT !.dirty = k].open = y.open /\ [y EXCEPT !.dirty = k].ref = y.ref
                /\ [y EXCEPT !.dirty = k].reclaim = y.reclaim /\ [y EXCEPT !.dirty = k].dirty = k
BY DEF Inode

\* Assignments to the fields of one inode.
LEMMA FieldFacts ==
    ASSUME NEW s \in Rec, NEW n \in Node
    PROVE  /\ s.inode[n] \in Inode
           /\ \A k \in Nat : Sets(s, [s EXCEPT !.inode[n].ref = k], n, [s.inode[n] EXCEPT !.ref = k])
           /\ \A k \in Nat : Sets(s, [s EXCEPT !.inode[n].open = k], n, [s.inode[n] EXCEPT !.open = k])
           /\ \A k \in Nat :
                Sets(s, [s EXCEPT !.inode[n].reclaim = k], n, [s.inode[n] EXCEPT !.reclaim = k])
           /\ \A k \in BOOLEAN :
                Sets(s, [s EXCEPT !.inode[n].dirty = k], n, [s.inode[n] EXCEPT !.dirty = k])
           /\ \A x \in Inode : Sets(s, [s EXCEPT !.inode[n] = x], n, x)
<1>1. ASSUME NEW x \in Inode PROVE Sets(s, [s EXCEPT !.inode[n] = x], n, x)
  BY DEF Rec, Sets
<1>2. s.inode[n] \in Inode
  BY DEF Rec
<1>3. ASSUME NEW k \in Nat PROVE Sets(s, [s EXCEPT !.inode[n].ref = k], n, [s.inode[n] EXCEPT !.ref = k])
  <2>1. [s.inode[n] EXCEPT !.ref = k] \in Inode
    BY <1>2, InodeFacts
  <2> QED BY <1>1, <2>1
<1>4. ASSUME NEW k \in Nat PROVE Sets(s, [s EXCEPT !.inode[n].open = k], n, [s.inode[n] EXCEPT !.open = k])
  <2>1. [s.inode[n] EXCEPT !.open = k] \in Inode
    BY <1>2, InodeFacts
  <2> QED BY <1>1, <2>1
<1>5. ASSUME NEW k \in Nat
      PROVE  Sets(s, [s EXCEPT !.inode[n].reclaim = k], n, [s.inode[n] EXCEPT !.reclaim = k])
  <2>1. [s.inode[n] EXCEPT !.reclaim = k] \in Inode
    BY <1>2, InodeFacts
  <2> QED BY <1>1, <2>1
<1>6. ASSUME NEW k \in BOOLEAN
      PROVE  Sets(s, [s EXCEPT !.inode[n].dirty = k], n, [s.inode[n] EXCEPT !.dirty = k])
  <2>1. [s.inode[n] EXCEPT !.dirty = k] \in Inode
    BY <1>2, InodeFacts
  <2> QED BY <1>1, <2>1
<1> QED BY <1>1, <1>2, <1>3, <1>4, <1>5, <1>6

LEMMA RefIncCounted ==
    ASSUME NEW R \in [Node -> Nat], NEW O \in [Node -> Nat], NEW s, Counted(s, R, O), NEW n \in Node,
           R[n] > 0
    PROVE  Counted(RefInc(s, n), Plus(R, n), O)
<1> USE DEF Plus, Minus
<1>1. s \in Rec
  BY DEF Counted
<1>2. CASE ~Ok(s)
  <2>1. RefInc(s, n) = s
    BY <1>2 DEF RefInc, Stop, Ok
  <2> QED BY <1>1, <1>2, <2>1, StoppedCounted
<1>3. CASE Ok(s)
  <2>1. Fits(s.inode[n], n, R[n], O[n])
    BY <1>3 DEF Counted
  <2>2. PICK y \in Inode : y = s.inode[n]
    BY <1>1, FieldFacts
  <2>3. y.ref = R[n] /\ y.ref \in Nat /\ y.ref # 0 /\ y.ref + 1 \in Nat
    BY <2>1, <2>2 DEF Fits
  <2>4. PICK t : t = RefInc(s, n)
    OBVIOUS
  <2>5. t = [s EXCEPT !.inode[n].ref = y.ref + 1]
    BY <1>3, <2>2, <2>3, <2>4, Zenon DEF RefInc
  <2>6. PICK x : x = [y EXCEPT !.ref = y.ref + 1]
    OBVIOUS
  <2>7. Sets(s, t, n, x)
    BY <1>1, <2>2, <2>3, <2>5, <2>6, FieldFacts, Zenon
  <2>8. x.ref = y.ref + 1 /\ x.open = y.open /\ x.reclaim = y.reclaim /\ x.dirty = y.dirty
    BY <2>3, <2>6, InodeFacts
  <2>9. Fits(x, n, R[n] + 1, O[n])
    BY <2>1, <2>2, <2>3, <2>8 DEF Fits
  <2>10. Counted(t, [R EXCEPT ![n] = R[n] + 1], [O EXCEPT ![n] = O[n]])
    <3>1. R[n] + 1 \in Nat /\ O[n] \in Nat
      OBVIOUS
    <3> QED BY <2>7, <2>9, <3>1, SetCounted
  <2>11. [O EXCEPT ![n] = O[n]] = O
    OBVIOUS
  <2> QED BY <2>4, <2>10, <2>11
<1> QED BY <1>2, <1>3

LEMMA OpenIncCounted ==
    ASSUME NEW R \in [Node -> Nat], NEW O \in [Node -> Nat], NEW s, Counted(s, R, O), NEW n \in Node,
           R[n] > 0
    PROVE  Counted(OpenInc(s, n), R, Plus(O, n))
<1> USE DEF Plus, Minus
<1>1. s \in Rec
  BY DEF Counted
<1>2. CASE ~Ok(s)
  <2>1. OpenInc(s, n) = s
    BY <1>2 DEF OpenInc, Stop, Ok
  <2> QED BY <1>1, <1>2, <2>1, StoppedCounted
<1>3. CASE Ok(s)
  <2>1. Fits(s.inode[n], n, R[n], O[n])
    BY <1>3 DEF Counted
  <2>2. PICK y \in Inode : y = s.inode[n]
    BY <1>1, FieldFacts
  <2>3. y.ref = R[n] /\ y.ref \in Nat /\ y.ref # 0 /\ y.open \in Nat /\ y.open + 1 \in Nat
    BY <2>1, <2>2, InodeFacts DEF Fits
  <2>4. PICK t : t = OpenInc(s, n)
    OBVIOUS
  <2>5. t = [s EXCEPT !.inode[n].open = y.open + 1]
    BY <1>3, <2>2, <2>3, <2>4, Zenon DEF OpenInc
  <2>6. PICK x : x = [y EXCEPT !.open = y.open + 1]
    OBVIOUS
  <2>7. Sets(s, t, n, x)
    BY <1>1, <2>2, <2>3, <2>5, <2>6, FieldFacts, Zenon
  <2>8. x.ref = y.ref /\ x.open = y.open + 1 /\ x.reclaim = y.reclaim /\ x.dirty = y.dirty
    BY <2>3, <2>6, InodeFacts
  <2>9. Fits(x, n, R[n], O[n] + 1)
    BY <2>1, <2>2, <2>3, <2>8 DEF Fits
  <2>10. Counted(t, [R EXCEPT ![n] = R[n]], [O EXCEPT ![n] = O[n] + 1])
    <3>1. R[n] \in Nat /\ O[n] + 1 \in Nat
      OBVIOUS
    <3> QED BY <2>7, <2>9, <3>1, SetCounted
  <2>11. [R EXCEPT ![n] = R[n]] = R
    OBVIOUS
  <2> QED BY <2>4, <2>10, <2>11
<1> QED BY <1>2, <1>3

LEMMA OpenDecCounted ==
    ASSUME NEW R \in [Node -> Nat], NEW O \in [Node -> Nat], NEW s, Counted(s, R, O), NEW n \in Node,
           O[n] > 0
    PROVE  Counted(OpenDec(s, n), R, Minus(O, n))
<1> USE DEF Plus, Minus
<1>1. s \in Rec
  BY DEF Counted
<1>2. CASE ~Ok(s)
  <2>1. OpenDec(s, n) = s
    BY <1>2 DEF OpenDec, Stop, Ok
  <2> QED BY <1>1, <1>2, <2>1, StoppedCounted
<1>3. CASE Ok(s)
  <2>1. Fits(s.inode[n], n, R[n], O[n])
    BY <1>3 DEF Counted
  <2>2. PICK y \in Inode : y = s.inode[n]
    BY <1>1, FieldFacts
  <2>3. y.open = O[n] /\ y.open \in Nat /\ y.open # 0 /\ y.open - 1 \in Nat /\ O[n] - 1 \in Nat
    BY <2>1, <2>2, InodeFacts DEF Fits
  <2>4. PICK t : t = OpenDec(s, n)
    OBVIOUS
  <2>5. PICK d \in BOOLEAN : d = (y.dirty /\ y.open # 1)
    OBVIOUS
  <2>6. PICK u : u = [s EXCEPT !.inode[n].open = y.open - 1]
    OBVIOUS
  <2>7. PICK z : z = [y EXCEPT !.open = y.open - 1]
    OBVIOUS
  <2>8. Sets(s, u, n, z)
    BY <1>1, <2>2, <2>3, <2>6, <2>7, FieldFacts, Zenon
  <2>9. /\ z.ref = y.ref /\ z.open = y.open - 1 /\ z.reclaim = y.reclaim /\ z.dirty = y.dirty
        /\ z \in Inode
    BY <2>3, <2>7, InodeFacts
  <2>10. u \in Rec /\ u.inode[n] = z
    BY <2>8 DEF Sets
  <2>11. t = [u EXCEPT !.inode[n].dirty = (u.inode[n].dirty /\ y.open # 1)]
    BY <1>3, <2>2, <2>3, <2>4, <2>6, Zenon DEF OpenDec
  <2>12. t = [u EXCEPT !.inode[n].dirty = d]
    BY <2>5, <2>9, <2>10, <2>11, Zenon
  <2>13. PICK x : x = [z EXCEPT !.dirty = d]
    OBVIOUS
  <2>14. Sets(u, t, n, x)
    BY <2>10, <2>12, <2>13, FieldFacts, Zenon
  <2>15. Sets(s, t, n, x)
    BY <2>8, <2>14 DEF Sets
  <2>16. x.ref = y.ref /\ x.open = y.open - 1 /\ x.reclaim = y.reclaim /\ x.dirty = d
    BY <2>9, <2>13, InodeFacts
  <2>17. x.dirty => O[n] - 1 > 0
    <3>1. x.dirty => y.open # 1
      BY <2>5, <2>16, Zenon
    <3>2. y.open # 1 => O[n] - 1 > 0
      BY <2>3
    <3> QED BY <3>1, <3>2, Zenon
  <2>18. Fits(x, n, R[n], O[n] - 1)
    BY <2>1, <2>2, <2>3, <2>16, <2>17 DEF Fits
  <2>19. Counted(t, [R EXCEPT ![n] = R[n]], [O EXCEPT ![n] = O[n] - 1])
    <3>1. R[n] \in Nat
      OBVIOUS
    <3> QED BY <2>3, <2>15, <2>18, <3>1, SetCounted
  <2>20. [R EXCEPT ![n] = R[n]] = R
    OBVIOUS
  <2> QED BY <2>4, <2>19, <2>20
<1> QED BY <1>2, <1>3

\* inode_ref_dec, of an inode that is not open if this is its last reference.
LEMMA RefDecCounted ==
    ASSUME NEW R \in [Node -> Nat], NEW O \in [Node -> Nat], NEW s, Counted(s, R, O), NEW n \in Node,
           R[n] > 0, R[n] = 1 => O[n] = 0 /\ n \notin Device
    PROVE  Counted(RefDec(s, n), Minus(R, n), O)
<1> USE DEF Plus, Minus
<1>1. s \in Rec
  BY DEF Counted
<1>2. CASE ~Ok(s)
  <2>1. RefDec(s, n) = s
    BY <1>2 DEF RefDec, Stop, Ok
  <2> QED BY <1>1, <1>2, <2>1, StoppedCounted
<1>3. CASE Ok(s)
  <2>1. Fits(s.inode[n], n, R[n], O[n])
    BY <1>3 DEF Counted
  <2>2. PICK y \in Inode : y = s.inode[n]
    BY <1>1, FieldFacts
  <2>3. y.ref = R[n] /\ y.ref \in Nat /\ y.ref # 0 /\ y.ref - 1 \in Nat /\ R[n] - 1 \in Nat
    BY <2>1, <2>2, InodeFacts DEF Fits
  <2>4. PICK u : u = [s EXCEPT !.inode[n].ref = y.ref - 1]
    OBVIOUS
  <2>5. PICK z : z = [y EXCEPT !.ref = y.ref - 1]
    OBVIOUS
  <2>6. Sets(s, u, n, z)
    BY <1>1, <2>2, <2>3, <2>4, <2>5, FieldFacts, Zenon
  <2>7. /\ z.ref = y.ref - 1 /\ z.open = y.open /\ z.reclaim = y.reclaim /\ z.dirty = y.dirty
        /\ z \in Inode
    BY <2>3, <2>5, InodeFacts
  <2>8. u \in Rec /\ u.inode[n] = z
    BY <2>6 DEF Sets
  <2>9. RefDec(s, n) = IF y.ref - 1 = 0 THEN sfs_reclaim(u, n) ELSE u
    <3>1. u.inode[n].ref = y.ref - 1
      BY <2>7, <2>8
    <3>2. RefDec(s, n) = IF u.inode[n].ref = 0 THEN sfs_reclaim(u, n) ELSE u
      BY <1>3, <2>2, <2>3, <2>4, Zenon DEF RefDec
    <3> QED BY <3>1, <3>2, Zenon
  <2>10. [O EXCEPT ![n] = O[n]] = O /\ O[n] \in Nat
    OBVIOUS
  <2>11. CASE R[n] # 1
    <3>1. RefDec(s, n) = u
      BY <2>3, <2>9, <2>11
    <3>2. Fits(z, n, R[n] - 1, O[n])
      BY <2>1, <2>2, <2>3, <2>7, <2>11 DEF Fits
    <3>3. Counted(u, [R EXCEPT ![n] = R[n] - 1], [O EXCEPT ![n] = O[n]])
      BY <2>3, <2>6, <2>10, <3>2, SetCounted
    <3> QED BY <2>10, <3>1, <3>3
  <2>12. CASE R[n] = 1
    <3>1. n \notin Device /\ z.reclaim = 1 /\ z.open = 0
      BY <2>1, <2>2, <2>7, <2>12 DEF Fits
    <3>2. RefDec(s, n) = sfs_reclaim(u, n)
      BY <2>3, <2>9, <2>12
    <3>3. PICK t : t = sfs_reclaim(u, n)
      OBVIOUS
    <3>4. PICK k : k = u.inode[n].reclaim - 1
      OBVIOUS
    <3>5. k = 0 /\ u.inode[n].open = 0
      BY <2>8, <3>1, <3>4
    <3>6. ~(k < 0) /\ ~(k > 0)
      BY <3>5
    <3>7. t = [u EXCEPT !.inode[n] = NoInode]
      BY <3>1, <3>3, <3>4, <3>5, <3>6, Zenon DEF sfs_reclaim
    <3>8. NoInode \in Inode
      BY DEF NoInode, Inode
    <3>9. Sets(u, t, n, NoInode)
      BY <2>8, <3>7, <3>8, FieldFacts, Zenon
    <3>10. Sets(s, t, n, NoInode)
      BY <2>6, <3>9 DEF Sets
    <3>11. O[n] = 0 /\ R[n] - 1 = 0
      BY <2>12
    <3>12. Fits(NoInode, n, R[n] - 1, O[n])
      BY <3>11 DEF Fits, NoInode
    <3>13. Counted(t, [R EXCEPT ![n] = R[n] - 1], [O EXCEPT ![n] = O[n]])
      BY <2>3, <2>10, <3>10, <3>12, SetCounted
    <3> QED BY <2>10, <3>2, <3>3, <3>13
  <2> QED BY <2>11, <2>12
<1> QED BY <1>2, <1>3

\* vfs_lookup, of a device that is there or of any file or directory.
LEMMA LookupCounted ==
    ASSUME NEW R \in [Node -> Nat], NEW O \in [Node -> Nat], NEW s, Counted(s, R, O), NEW n \in Node,
           O[n] <= R[n], n \in Device => R[n] > 0
    PROVE  Counted(Lookup(s, n), Plus(R, n), O)
<1> USE DEF Plus, Minus
<1>1. s \in Rec
  BY DEF Counted
<1>2. CASE ~Ok(s)
  <2>1. Lookup(s, n) = s
    BY <1>2 DEF Lookup, RefInc, Stop, Ok
  <2> QED BY <1>1, <1>2, <2>1, StoppedCounted
<1>3. CASE n \in Device
  <2>1. Lookup(s, n) = RefInc(s, n)
    BY <1>3 DEF Lookup
  <2> QED BY <1>3, <2>1, RefIncCounted
<1>4. CASE Ok(s) /\ n \notin Device
  <2>1. Fits(s.inode[n], n, R[n], O[n])
    BY <1>4 DEF Counted
  <2>2. PICK y \in Inode : y = s.inode[n]
    BY <1>1, FieldFacts
  <2>3. y.ref = R[n] /\ y.open = O[n] /\ y.ref \in Nat /\ y.open \in Nat /\ y.ref + 1 \in Nat
    BY <2>1, <2>2, InodeFacts DEF Fits
  <2>4. [O EXCEPT ![n] = O[n]] = O /\ O[n] \in Nat /\ R[n] + 1 \in Nat
    OBVIOUS
  <2>5. PICK t : t = Lookup(s, n)
    OBVIOUS
  <2>6. CASE y = NoInode
    <3>1. PICK x : x = [ref |-> 1, open |-> 0, reclaim |-> 1, dirty |-> FALSE]
      OBVIOUS
    <3>2. t = [s EXCEPT !.inode[n] = x]
      BY <1>4, <2>2, <2>5, <2>6, <3>1, Zenon DEF Lookup
    <3>3. x \in Inode /\ x.ref = 1 /\ x.open = 0 /\ x.reclaim = 1 /\ ~x.dirty
      BY <3>1 DEF Inode
    <3>4. Sets(s, t, n, x)
      BY <1>1, <3>2, <3>3, FieldFacts, Zenon
    <3>5. R[n] = 0 /\ O[n] = 0
      BY <2>3, <2>6 DEF NoInode
    <3>6. Fits(x, n, R[n] + 1, O[n])
      BY <3>3, <3>5 DEF Fits
    <3>20. Counted(t, [R EXCEPT ![n] = R[n] + 1], [O EXCEPT ![n] = O[n]])
      BY <2>4, <3>4, <3>6, SetCounted
    <3> QED BY <2>4, <2>5, <3>20
  <2>7. CASE y # NoInode
    <3>1. y.ref # 0
      <4>1. SUFFICES ASSUME y.ref = 0 PROVE FALSE
        OBVIOUS
      <4>2. R[n] = 0 /\ O[n] = 0 /\ y.open = 0 /\ y.reclaim = 0
        BY <1>4, <2>1, <2>2, <2>3, <4>1 DEF Fits
      <4>3. y.dirty = FALSE
        <5>1. ~(O[n] > 0)
          BY <4>2
        <5>2. ~y.dirty /\ y.dirty \in BOOLEAN
          BY <2>1, <2>2, <5>1, InodeFacts, Zenon DEF Fits
        <5> QED BY <5>2, Zenon
      <4>4. y = NoInode
        BY <4>1, <4>2, <4>3 DEF Inode, NoInode
      <4> QED BY <2>7, <4>4
    <3>2. PICK u : u = [s EXCEPT !.inode[n].ref = y.ref + 1]
      OBVIOUS
    <3>3. PICK x : x = [y EXCEPT !.ref = y.ref + 1]
      OBVIOUS
    <3>4. Sets(s, u, n, x)
      BY <1>1, <2>2, <2>3, <3>2, <3>3, FieldFacts, Zenon
    <3>5. /\ x.ref = y.ref + 1 /\ x.open = y.open /\ x.reclaim = y.reclaim /\ x.dirty = y.dirty
          /\ x \in Inode /\ x.reclaim \in Nat
      BY <2>3, <3>3, InodeFacts
    <3>6. u \in Rec /\ u.inode[n] = x
      BY <3>4 DEF Sets
    <3>7. t = [u EXCEPT !.inode[n].reclaim = IF y.ref = 0 THEN u.inode[n].reclaim + 1
                                             ELSE u.inode[n].reclaim]
      BY <1>4, <2>2, <2>5, <2>7, <3>2, Zenon DEF Lookup
    <3>8. t = [u EXCEPT !.inode[n].reclaim = x.reclaim]
      BY <3>1, <3>6, <3>7, Zenon
    <3>9. Sets(u, t, n, [x EXCEPT !.reclaim = x.reclaim])
      BY <3>5, <3>6, <3>8, FieldFacts, Zenon
    <3>10. [x EXCEPT !.reclaim = x.reclaim] = x
      BY <3>5 DEF Inode
    <3>11. Sets(s, t, n, x)
      BY <3>4, <3>9, <3>10 DEF Sets
    <3>12. Fits(x, n, R[n] + 1, O[n])
      BY <1>4, <2>1, <2>2, <2>3, <3>1, <3>5 DEF Fits
    <3>20. Counted(t, [R EXCEPT ![n] = R[n] + 1], [O EXCEPT ![n] = O[n]])
      BY <2>4, <3>11, <3>12, SetCounted
    <3> QED BY <2>4, <2>5, <3>20
  <2> QED BY <2>6, <2>7
<1> QED BY <1>2, <1>3, <1>4

\* An inode may be marked as dirty while it is open.
LEMMA DirtyCounted ==
    ASSUME NEW R \in [Node -> Nat], NEW O \in [Node -> Nat], NEW s, Counted(s, R, O), NEW n \in Node,
           NEW d \in BOOLEAN, d => O[n] > 0
    PROVE  Counted([s EXCEPT !.inode[n].dirty = d], R, O)
<1>1. s \in Rec
  BY DEF Counted
<1>2. PICK y \in Inode : y = s.inode[n]
  BY <1>1, FieldFacts
<1>3. PICK x : x = [y EXCEPT !.dirty = d]
  OBVIOUS
<1>4. PICK u : u = [s EXCEPT !.inode[n].dirty = d]
  OBVIOUS
<1>5. Sets(s, u, n, x)
  BY <1>1, <1>2, <1>3, <1>4, FieldFacts, Zenon
<1>6. x.ref = y.ref /\ x.open = y.open /\ x.reclaim = y.reclaim /\ x.dirty = d
  BY <1>3, InodeFacts
<1>7. ASSUME Ok(s) PROVE Fits(x, n, R[n], O[n])
  <2>1. Fits(y, n, R[n], O[n])
    BY <1>2, <1>7 DEF Counted
  <2> QED BY <1>6, <2>1, Zenon DEF Fits
<1>8. R[n] \in Nat /\ O[n] \in Nat /\ [R EXCEPT ![n] = R[n]] = R /\ [O EXCEPT ![n] = O[n]] = O
  OBVIOUS
<1>9. Counted(u, [R EXCEPT ![n] = R[n]], [O EXCEPT ![n] = O[n]])
  BY <1>5, <1>7, <1>8, SetCounted
<1>10. Counted(u, R, O)
  BY <1>8, <1>9
<1> QED BY <1>4, <1>10

LEMMA StopCounted ==
    ASSUME NEW s, NEW R, NEW O, Counted(s, R, O), NEW what \in Halts, what # "ok"
    PROVE  Counted(Stop(s, what), R, O)
BY DEF Counted, Stop, Ok, Rec

LEMMA TruncateCounted ==
    ASSUME NEW R \in [Node -> Nat], NEW O \in [Node -> Nat], NEW s, Counted(s, R, O), NEW n \in Node,
           NEW empty \in BOOLEAN, O[n] > 0
    PROVE  Counted(Truncate(s, n, empty), R, O)
<1>1. CASE n \in File
  <2>1. PICK y \in Inode : y = s.inode[n]
    BY FieldFacts DEF Counted
  <2>2. PICK d \in BOOLEAN : d = (y.dirty \/ ~empty)
    OBVIOUS
  <2>3. Truncate(s, n, empty) = [s EXCEPT !.inode[n].dirty = d]
    BY <1>1, <2>1, <2>2, Zenon DEF Truncate
  <2> QED BY <2>3, DirtyCounted
<1>2. CASE n \notin File
  <2>1. Truncate(s, n, empty) = Stop(s, "vop_truncate")
    BY <1>2 DEF Truncate
  <2>2. "vop_truncate" \in Halts /\ "vop_truncate" # "ok"
    BY DEF Halts
  <2> QED BY <2>1, <2>2, StopCounted
<1> QED BY <1>1, <1>2

-----------------------------------------------------------------------------
(***************************************************************************)
(* The tables, and what one entry more or less is in the counts.           *)
(***************************************************************************)
LEMMA TableFacts ==
    ASSUME NEW F \in Tables, NEW n
    PROVE  /\ IsFiniteSet(FdsOf(F, n)) /\ Cardinality(FdsOf(F, n)) \in Nat
           /\ IsFiniteSet(CwdsOf(F, n)) /\ Cardinality(CwdsOf(F, n)) \in Nat
<1>1. IsFiniteSet(Procs \X Fd) /\ IsFiniteSet(Procs)
  BY Constants, FS_Product
<1>2. FdsOf(F, n) \subseteq Procs \X Fd /\ CwdsOf(F, n) \subseteq Procs
  BY DEF FdsOf, CwdsOf
<1>3. IsFiniteSet(FdsOf(F, n)) /\ IsFiniteSet(CwdsOf(F, n))
  BY <1>1, <1>2, FS_Subset, Zenon
<1> QED BY <1>3, FS_CardinalityType, Zenon

LEMMA CountFacts ==
    ASSUME NEW F \in Tables, NEW L \in [Node -> Nat]
    PROVE  /\ OpensOf(F) \in [Node -> Nat] /\ RefsOf(F, L) \in [Node -> Nat]
           /\ \A n \in Node :
                /\ OpensOf(F)[n] = Cardinality(FdsOf(F, n))
                /\ RefsOf(F, L)[n] =
                     Base(n) + Cardinality(FdsOf(F, n)) + Cardinality(CwdsOf(F, n)) + L[n]
                /\ RefsOf(F, L)[n] >= OpensOf(F)[n] + L[n] + Base(n)
                /\ Base(n) \in {0, 1} /\ (n \in Device => Base(n) = 1) /\ L[n] \in Nat
<1>1. ASSUME NEW n \in Node
      PROVE  /\ Cardinality(FdsOf(F, n)) \in Nat /\ Cardinality(CwdsOf(F, n)) \in Nat
             /\ L[n] \in Nat /\ Base(n) \in {0, 1} /\ (n \in Device => Base(n) = 1)
  BY TableFacts DEF Base
<1>2. ASSUME NEW n \in Node
      PROVE  /\ OpensOf(F)[n] = Cardinality(FdsOf(F, n))
             /\ RefsOf(F, L)[n] =
                  Base(n) + Cardinality(FdsOf(F, n)) + Cardinality(CwdsOf(F, n)) + L[n]
  BY DEF OpensOf, RefsOf
<1>3. ASSUME NEW n \in Node
      PROVE  /\ OpensOf(F)[n] \in Nat /\ RefsOf(F, L)[n] \in Nat
             /\ RefsOf(F, L)[n] >= OpensOf(F)[n] + L[n] + Base(n)
  BY <1>1, <1>2
<1>4. OpensOf(F) \in [Node -> Nat] /\ RefsOf(F, L) \in [Node -> Nat]
  BY <1>3 DEF OpensOf, RefsOf
<1> QED BY <1>1, <1>2, <1>3, <1>4

\* Who is counted, for a table with one entry set.
SetFd(F, p, i, n) == [F EXCEPT ![p].fd[i] = n]
SetPwd(F, p, d) == [F EXCEPT ![p].pwd = d]

FdSet(F, G, p, i, m) ==
    /\ G \in Tables
    /\ G[p].fd = [F[p].fd EXCEPT ![i] = m] /\ G[p].fd[i] = m
    /\ \A q \in Procs : G[q].pwd = F[q].pwd
    /\ \A q \in Procs : q # p => G[q] = F[q]
    /\ \A q \in Procs, j \in Fd : q # p \/ j # i => G[q].fd[j] = F[q].fd[j]

LEMMA SetFdFacts ==
    ASSUME NEW F \in Tables, NEW p \in Procs, NEW i \in Fd, NEW m \in Node \cup {NONE}
    PROVE  FdSet(F, SetFd(F, p, i, m), p, i, m)
<1>1. PICK f : f = F[p]
  OBVIOUS
<1>2. f \in [pwd : Dir \cup {NONE}, fd : [Fd -> Node \cup {NONE}]]
  BY <1>1 DEF Tables
<1>3. PICK g : g = [f EXCEPT !.fd[i] = m]
  OBVIOUS
<1>4. g \in [pwd : Dir \cup {NONE}, fd : [Fd -> Node \cup {NONE}]] /\ g.pwd = f.pwd
      /\ g.fd = [f.fd EXCEPT ![i] = m]
  BY <1>2, <1>3
<1>5. SetFd(F, p, i, m) = [F EXCEPT ![p] = g]
  BY <1>1, <1>3 DEF SetFd
<1>6. g.fd[i] = m /\ \A j \in Fd : j # i => g.fd[j] = f.fd[j]
  BY <1>2, <1>4
<1>7. PICK G : G = [F EXCEPT ![p] = g]
  OBVIOUS
<1>8. G \in Tables /\ G[p] = g /\ \A q \in Procs : q # p => G[q] = F[q]
  BY <1>4, <1>7 DEF Tables
<1> QED BY <1>1, <1>4, <1>5, <1>6, <1>7, <1>8 DEF FdSet

LEMMA SetPwdFacts ==
    ASSUME NEW F \in Tables, NEW p \in Procs, NEW d \in Dir \cup {NONE}
    PROVE  /\ SetPwd(F, p, d) \in Tables
           /\ SetPwd(F, p, d)[p].pwd = d
           /\ \A q \in Procs : SetPwd(F, p, d)[q].fd = F[q].fd
           /\ \A q \in Procs : q # p => SetPwd(F, p, d)[q].pwd = F[q].pwd
<1>1. PICK f : f = F[p]
  OBVIOUS
<1>2. f \in [pwd : Dir \cup {NONE}, fd : [Fd -> Node \cup {NONE}]]
  BY <1>1 DEF Tables
<1>3. PICK g : g = [f EXCEPT !.pwd = d]
  OBVIOUS
<1>4. g \in [pwd : Dir \cup {NONE}, fd : [Fd -> Node \cup {NONE}]] /\ g.fd = f.fd /\ g.pwd = d
  BY <1>2, <1>3
<1>5. SetPwd(F, p, d) = [F EXCEPT ![p] = g]
  BY <1>1, <1>3 DEF SetPwd
<1>6. PICK G : G = [F EXCEPT ![p] = g]
  OBVIOUS
<1>7. G \in Tables /\ G[p] = g /\ \A q \in Procs : q # p => G[q] = F[q]
  BY <1>4, <1>6 DEF Tables
<1> QED BY <1>1, <1>4, <1>5, <1>6, <1>7

\* One descriptor more.
LEMMA FdAdded ==
    ASSUME NEW F \in Tables, NEW L \in [Node -> Nat], NEW p \in Procs, NEW i \in Fd, NEW m \in Node,
           F[p].fd[i] = NONE
    PROVE  /\ OpensOf(SetFd(F, p, i, m)) = Plus(OpensOf(F), m)
           /\ RefsOf(SetFd(F, p, i, m), L) = Plus(RefsOf(F, L), m)
<1>1. PICK G \in Tables : G = SetFd(F, p, i, m) /\ FdSet(F, G, p, i, m)
  <2>1. m \in Node \cup {NONE}
    OBVIOUS
  <2>2. FdSet(F, SetFd(F, p, i, m), p, i, m)
    BY <2>1, SetFdFacts, Zenon
  <2> QED BY <2>2 DEF FdSet
<1>2. /\ G[p].fd[i] = m
      /\ \A q \in Procs : G[q].pwd = F[q].pwd
      /\ \A q \in Procs, j \in Fd : q # p \/ j # i => G[q].fd[j] = F[q].fd[j]
  BY <1>1 DEF FdSet
<1>3. \A n : CwdsOf(G, n) = CwdsOf(F, n)
  BY <1>2 DEF CwdsOf
<1>4. <<p, i>> \notin FdsOf(F, m) /\ FdsOf(G, m) = FdsOf(F, m) \cup {<<p, i>>}
  <2>1. <<p, i>> \notin FdsOf(F, m)
    BY Constants DEF FdsOf
  <2>2. ASSUME NEW q \in Procs, NEW j \in Fd
        PROVE  G[q].fd[j] = m <=> F[q].fd[j] = m \/ <<q, j>> = <<p, i>>
    BY <1>2
  <2>3. FdsOf(G, m) = FdsOf(F, m) \cup {<<p, i>>}
    BY <2>2 DEF FdsOf
  <2> QED BY <2>1, <2>3
<1>5. ASSUME NEW n \in Node, n # m PROVE FdsOf(G, n) = FdsOf(F, n)
  <2>1. ASSUME NEW q \in Procs, NEW j \in Fd
        PROVE  G[q].fd[j] = n <=> F[q].fd[j] = n
    BY <1>2, <1>5, Constants
  <2> QED BY <2>1 DEF FdsOf
<1>6. Cardinality(FdsOf(G, m)) = Cardinality(FdsOf(F, m)) + 1
  BY <1>4, TableFacts, FS_AddElement
<1>7. OpensOf(G) = Plus(OpensOf(F), m)
  <2>1. ASSUME NEW n \in Node
        PROVE  OpensOf(G)[n] = IF n = m THEN OpensOf(F)[m] + 1 ELSE OpensOf(F)[n]
    BY <1>5, <1>6 DEF OpensOf
  <2> QED BY <2>1 DEF OpensOf, Plus
<1>8. ASSUME NEW n \in Node
      PROVE  RefsOf(G, L)[n] = IF n = m THEN RefsOf(F, L)[m] + 1 ELSE RefsOf(F, L)[n]
  <2>1. CASE n = m
    BY <1>3, <1>6, <2>1, CountFacts, TableFacts
  <2>2. CASE n # m
    BY <1>3, <1>5, <2>2, CountFacts
  <2> QED BY <2>1, <2>2
<1>9. RefsOf(G, L) = Plus(RefsOf(F, L), m)
  BY <1>8, CountFacts DEF Plus
<1> QED BY <1>1, <1>7, <1>9

LEMMA OneLess ==
    ASSUME NEW g \in [Node -> Nat], NEW n \in Node
    PROVE  Plus(g, n)[n] > 0 /\ g = Minus(Plus(g, n), n)
<1>1. PICK f : f = Plus(g, n)
  OBVIOUS
<1>2. f \in [Node -> Nat] /\ f[n] = g[n] + 1 /\ g[n] \in Nat /\ f = [g EXCEPT ![n] = g[n] + 1]
  BY <1>1 DEF Plus
<1>3. f[n] > 0 /\ f[n] - 1 = g[n]
  BY <1>2
<1>4. Minus(f, n) = [f EXCEPT ![n] = g[n]]
  BY <1>3 DEF Minus
<1>5. [f EXCEPT ![n] = g[n]] = g
  BY <1>2
<1> QED BY <1>1, <1>3, <1>4, <1>5

\* One descriptor less.
LEMMA FdDropped ==
    ASSUME NEW F \in Tables, NEW L \in [Node -> Nat], NEW p \in Procs, NEW i \in Fd, NEW m \in Node,
           F[p].fd[i] = m
    PROVE  /\ OpensOf(F)[m] > 0
           /\ OpensOf(SetFd(F, p, i, NONE)) = Minus(OpensOf(F), m)
           /\ Plus(RefsOf(SetFd(F, p, i, NONE), L), m) = RefsOf(F, L)
<1>1. PICK G \in Tables : G = SetFd(F, p, i, NONE) /\ FdSet(F, G, p, i, NONE)
  <2>1. NONE \in Node \cup {NONE}
    OBVIOUS
  <2>2. FdSet(F, SetFd(F, p, i, NONE), p, i, NONE)
    BY <2>1, SetFdFacts, Zenon
  <2> QED BY <2>2 DEF FdSet
<1>2. G[p].fd[i] = NONE
  BY <1>1 DEF FdSet
<1>3. SetFd(G, p, i, m) = F
  <2>1. F[p] \in [pwd : Dir \cup {NONE}, fd : [Fd -> Node \cup {NONE}]]
    BY DEF Tables
  <2>2. PICK f \in [pwd : Dir \cup {NONE}, fd : [Fd -> Node \cup {NONE}]] : f = F[p]
    BY <2>1
  <2>3. [[f EXCEPT !.fd[i] = NONE] EXCEPT !.fd[i] = m] = f
    BY <2>2
  <2>4. PICK g : g = [f EXCEPT !.fd[i] = NONE]
    OBVIOUS
  <2>5. G = [F EXCEPT ![p] = g]
    BY <1>1, <2>2, <2>4 DEF SetFd
  <2>6. G[p] = g
    BY <2>5 DEF Tables
  <2>7. SetFd(G, p, i, m) = [G EXCEPT ![p] = f]
    BY <2>3, <2>4, <2>6 DEF SetFd
  <2>8. [G EXCEPT ![p] = f] = F
    BY <2>2, <2>5 DEF Tables
  <2> QED BY <2>7, <2>8
<1>4. /\ OpensOf(F) = Plus(OpensOf(G), m)
      /\ RefsOf(F, L) = Plus(RefsOf(G, L), m)
  BY <1>2, <1>3, FdAdded
<1>5. OpensOf(G) \in [Node -> Nat] /\ RefsOf(G, L) \in [Node -> Nat]
  BY CountFacts
<1>6. /\ Plus(OpensOf(G), m)[m] > 0 /\ OpensOf(G) = Minus(Plus(OpensOf(G), m), m)
      /\ RefsOf(G, L) = Minus(Plus(RefsOf(G, L), m), m)
  BY <1>5, OneLess
<1> QED BY <1>1, <1>4, <1>6

\* A working directory more or less.
LEMMA PwdAdded ==
    ASSUME NEW F \in Tables, NEW L \in [Node -> Nat], NEW p \in Procs, NEW d \in Dir, F[p].pwd = NONE
    PROVE  /\ OpensOf(SetPwd(F, p, d)) = OpensOf(F)
           /\ RefsOf(SetPwd(F, p, d), L) = Plus(RefsOf(F, L), d)
<1>1. PICK G \in Tables : G = SetPwd(F, p, d)
  BY SetPwdFacts
<1>2. /\ G[p].pwd = d
      /\ \A q \in Procs : G[q].fd = F[q].fd
      /\ \A q \in Procs : q # p => G[q].pwd = F[q].pwd
  BY <1>1, SetPwdFacts
<1>3. \A n : FdsOf(G, n) = FdsOf(F, n)
  BY <1>2 DEF FdsOf
<1>4. p \notin CwdsOf(F, d) /\ CwdsOf(G, d) = CwdsOf(F, d) \cup {p}
  BY <1>2, Constants DEF CwdsOf
<1>5. ASSUME NEW n \in Node, n # d PROVE CwdsOf(G, n) = CwdsOf(F, n)
  BY <1>2, <1>5, Constants DEF CwdsOf
<1>6. Cardinality(CwdsOf(G, d)) = Cardinality(CwdsOf(F, d)) + 1
  BY <1>4, TableFacts, FS_AddElement
<1>7. OpensOf(G) = OpensOf(F)
  BY <1>3 DEF OpensOf
<1>8. d \in Node
  BY Constants
<1>9. ASSUME NEW n \in Node
      PROVE  RefsOf(G, L)[n] = IF n = d THEN RefsOf(F, L)[d] + 1 ELSE RefsOf(F, L)[n]
  <2>1. CASE n = d
    BY <1>3, <1>6, <2>1, CountFacts, TableFacts
  <2>2. CASE n # d
    BY <1>3, <1>5, <2>2, CountFacts
  <2> QED BY <2>1, <2>2
<1>10. RefsOf(G, L) = Plus(RefsOf(F, L), d)
  BY <1>8, <1>9, CountFacts DEF Plus
<1> QED BY <1>1, <1>7, <1>10

LEMMA PwdDropped ==
    ASSUME NEW F \in Tables, NEW L \in [Node -> Nat], NEW p \in Procs, NEW d \in Dir, F[p].pwd = d
    PROVE  /\ OpensOf(SetPwd(F, p, NONE)) = OpensOf(F)
           /\ Plus(RefsOf(SetPwd(F, p, NONE), L), d) = RefsOf(F, L)
<1>1. PICK G \in Tables : G = SetPwd(F, p, NONE)
  BY SetPwdFacts
<1>2. G[p].pwd = NONE
  BY <1>1, SetPwdFacts
<1>3. SetPwd(G, p, d) = F
  <2>1. PICK f \in [pwd : Dir \cup {NONE}, fd : [Fd -> Node \cup {NONE}]] : f = F[p]
    BY DEF Tables
  <2>2. [[f EXCEPT !.pwd = NONE] EXCEPT !.pwd = d] = f
    BY <2>1
  <2>3. PICK g : g = [f EXCEPT !.pwd = NONE]
    OBVIOUS
  <2>4. G = [F EXCEPT ![p] = g]
    BY <1>1, <2>1, <2>3 DEF SetPwd
  <2>5. G[p] = g
    BY <2>4 DEF Tables
  <2>6. SetPwd(G, p, d) = [G EXCEPT ![p] = f]
    BY <2>2, <2>3, <2>5 DEF SetPwd
  <2>7. [G EXCEPT ![p] = f] = F
    BY <2>1, <2>4 DEF Tables
  <2> QED BY <2>6, <2>7
<1>4. /\ OpensOf(F) = OpensOf(G)
      /\ RefsOf(F, L) = Plus(RefsOf(G, L), d)
  BY <1>2, <1>3, PwdAdded
<1> QED BY <1>1, <1>4

-----------------------------------------------------------------------------
(***************************************************************************)
(* The functions, on inodes that the tables and the references in hand     *)
(* account for.                                                            *)
(***************************************************************************)
LEMMA PlusFacts ==
    ASSUME NEW f \in [Node -> Nat], NEW n \in Node
    PROVE  /\ Plus(f, n) \in [Node -> Nat] /\ Plus(f, n)[n] = f[n] + 1 /\ Plus(f, n)[n] > 0
           /\ \A m \in Node : Plus(f, n)[m] >= f[m]
           /\ \A m \in Node : Plus(Plus(f, n), m) = Plus(Plus(f, m), n)
<1>1. /\ Plus(f, n) \in [Node -> Nat] /\ Plus(f, n)[n] = f[n] + 1 /\ Plus(f, n)[n] > 0
      /\ \A m \in Node : Plus(f, n)[m] >= f[m]
  BY DEF Plus
<1>2. ASSUME NEW m \in Node PROVE Plus(Plus(f, n), m) = Plus(Plus(f, m), n)
  <2>1. PICK g : g = Plus(f, n)
    OBVIOUS
  <2>2. PICK h : h = Plus(f, m)
    OBVIOUS
  <2>3. /\ g \in [Node -> Nat] /\ \A k \in Node : g[k] = IF k = n THEN f[k] + 1 ELSE f[k]
        /\ h \in [Node -> Nat] /\ \A k \in Node : h[k] = IF k = m THEN f[k] + 1 ELSE f[k]
    BY <2>1, <2>2 DEF Plus
  <2>4. Plus(g, m) \in [Node -> Nat] /\ Plus(h, n) \in [Node -> Nat]
    BY <2>3 DEF Plus
  <2>5. ASSUME NEW k \in Node PROVE Plus(g, m)[k] = Plus(h, n)[k]
    BY <2>3 DEF Plus
  <2>6. Plus(g, m) = Plus(h, n)
    BY <2>4, <2>5
  <2> QED BY <2>1, <2>2, <2>6
<1> QED BY <1>1, <1>2

LEMMA HandAdded ==
    ASSUME NEW F \in Tables, NEW L \in [Node -> Nat], NEW n \in Node
    PROVE  RefsOf(F, Plus(L, n)) = Plus(RefsOf(F, L), n)
<1>1. PICK K \in [Node -> Nat] : K = Plus(L, n) /\ \A m \in Node : K[m] = IF m = n THEN L[n] + 1 ELSE L[m]
  <2>1. PICK K : K = [L EXCEPT ![n] = L[n] + 1]
    OBVIOUS
  <2>2. K \in [Node -> Nat] /\ \A m \in Node : K[m] = IF m = n THEN L[n] + 1 ELSE L[m]
    BY <2>1
  <2>3. K = Plus(L, n)
    BY <2>1 DEF Plus
  <2> QED BY <2>2, <2>3
<1>2. ASSUME NEW m \in Node
      PROVE  RefsOf(F, K)[m] = IF m = n THEN RefsOf(F, L)[n] + 1 ELSE RefsOf(F, L)[m]
  <2>1. /\ RefsOf(F, K)[m] = Base(m) + Cardinality(FdsOf(F, m)) + Cardinality(CwdsOf(F, m)) + K[m]
        /\ RefsOf(F, L)[m] = Base(m) + Cardinality(FdsOf(F, m)) + Cardinality(CwdsOf(F, m)) + L[m]
        /\ Base(m) \in {0, 1} /\ L[m] \in Nat
    BY CountFacts
  <2>2. Cardinality(FdsOf(F, m)) \in Nat /\ Cardinality(CwdsOf(F, m)) \in Nat
    BY TableFacts
  <2> QED BY <1>1, <2>1, <2>2
<1>3. RefsOf(F, K) \in [Node -> Nat] /\ RefsOf(F, L) \in [Node -> Nat]
  BY CountFacts
<1>4. RefsOf(F, K) = Plus(RefsOf(F, L), n)
  BY <1>2, <1>3 DEF Plus
<1> QED BY <1>1, <1>4

LEMMA Referenced ==
    ASSUME NEW F \in Tables, NEW L \in [Node -> Nat], NEW p \in Procs, NEW n \in Node
    PROVE  /\ \A i \in Fd : F[p].fd[i] = n => OpensOf(F)[n] > 0 /\ RefsOf(F, L)[n] > 0
           /\ F[p].pwd = n => RefsOf(F, L)[n] > 0
<1>1. /\ OpensOf(F)[n] = Cardinality(FdsOf(F, n))
      /\ RefsOf(F, L)[n] = Base(n) + Cardinality(FdsOf(F, n)) + Cardinality(CwdsOf(F, n)) + L[n]
      /\ Base(n) \in {0, 1} /\ L[n] \in Nat
  BY CountFacts
<1>2. ASSUME NEW i \in Fd, F[p].fd[i] = n PROVE Cardinality(FdsOf(F, n)) > 0
  <2>1. <<p, i>> \in FdsOf(F, n)
    BY <1>2 DEF FdsOf
  <2> QED BY <2>1, TableFacts, FS_EmptySet
<1>3. ASSUME F[p].pwd = n PROVE Cardinality(CwdsOf(F, n)) > 0
  <2>1. p \in CwdsOf(F, n)
    BY <1>3 DEF CwdsOf
  <2> QED BY <2>1, TableFacts, FS_EmptySet
<1>4. Cardinality(FdsOf(F, n)) \in Nat /\ Cardinality(CwdsOf(F, n)) \in Nat
  BY TableFacts
<1> QED BY <1>1, <1>2, <1>3, <1>4

\* vfs_lookup puts a reference in hand.
LEMMA Looks ==
    ASSUME NEW s, NEW F, NEW L, Sound(s, F, L), NEW n \in Node
    PROVE  Sound(Lookup(s, n), F, Plus(L, n))
<1>1. F \in Tables /\ L \in [Node -> Nat] /\ Counted(s, RefsOf(F, L), OpensOf(F))
  BY DEF Sound
<1>2. PICK R \in [Node -> Nat], O \in [Node -> Nat] : R = RefsOf(F, L) /\ O = OpensOf(F)
  BY <1>1, CountFacts
<1>3. O[n] <= R[n] /\ (n \in Device => R[n] > 0)
  <2>1. /\ R[n] >= O[n] + L[n] + Base(n) /\ O[n] \in Nat
        /\ Base(n) \in {0, 1} /\ (n \in Device => Base(n) = 1) /\ L[n] \in Nat
    BY <1>1, <1>2, CountFacts
  <2> QED BY <2>1
<1>4. Counted(Lookup(s, n), Plus(R, n), O)
  BY <1>1, <1>2, <1>3, LookupCounted
<1>5. Plus(R, n) = RefsOf(F, Plus(L, n)) /\ Plus(L, n) \in [Node -> Nat]
  BY <1>1, <1>2, HandAdded, PlusFacts
<1> QED BY <1>1, <1>2, <1>4, <1>5 DEF Sound

\* So does vop_ref_inc of an inode that somebody refers to.
LEMMA Takes ==
    ASSUME NEW s, NEW F, NEW L, Sound(s, F, L), NEW n \in Node, RefsOf(F, L)[n] > 0
    PROVE  Sound(RefInc(s, n), F, Plus(L, n))
<1>1. F \in Tables /\ L \in [Node -> Nat] /\ Counted(s, RefsOf(F, L), OpensOf(F))
  BY DEF Sound
<1>2. PICK R \in [Node -> Nat], O \in [Node -> Nat] : R = RefsOf(F, L) /\ O = OpensOf(F)
  BY <1>1, CountFacts
<1>3. Counted(RefInc(s, n), Plus(R, n), O)
  BY <1>1, <1>2, RefIncCounted
<1>4. Plus(R, n) = RefsOf(F, Plus(L, n)) /\ Plus(L, n) \in [Node -> Nat]
  BY <1>1, <1>2, HandAdded, PlusFacts
<1> QED BY <1>1, <1>2, <1>3, <1>4 DEF Sound

\* vop_ref_dec gives one back.
LEMMA Gives ==
    ASSUME NEW s, NEW F, NEW L \in [Node -> Nat], NEW n \in Node, Sound(s, F, Plus(L, n))
    PROVE  Sound(RefDec(s, n), F, L)
<1>1. F \in Tables /\ Counted(s, RefsOf(F, Plus(L, n)), OpensOf(F))
  BY DEF Sound
<1>2. PICK R \in [Node -> Nat], O \in [Node -> Nat] : R = RefsOf(F, L) /\ O = OpensOf(F)
  BY <1>1, CountFacts
<1>3. PICK P : P = Plus(R, n)
  OBVIOUS
<1>4. P \in [Node -> Nat] /\ P[n] = R[n] + 1 /\ P[n] > 0 /\ Minus(P, n) = R
  BY <1>3, PlusFacts, OneLess
<1>5. P = RefsOf(F, Plus(L, n))
  BY <1>1, <1>2, <1>3, HandAdded
<1>6. P[n] = 1 => O[n] = 0 /\ n \notin Device
  <2>1. /\ R[n] >= O[n] + L[n] + Base(n) /\ O[n] \in Nat /\ R[n] \in Nat
        /\ Base(n) \in {0, 1} /\ (n \in Device => Base(n) = 1) /\ L[n] \in Nat
    BY <1>1, <1>2, CountFacts
  <2> QED BY <1>4, <2>1
<1>7. Counted(RefDec(s, n), Minus(P, n), O)
  BY <1>1, <1>2, <1>4, <1>5, <1>6, RefDecCounted
<1> QED BY <1>1, <1>2, <1>4, <1>7 DEF Sound

\* vop_open makes a reference in hand that of a descriptor.
LEMMA Opened ==
    ASSUME NEW s, NEW F, NEW L \in [Node -> Nat], NEW n \in Node, Sound(s, F, Plus(L, n)),
           NEW p \in Procs, NEW i \in Fd, F[p].fd[i] = NONE
    PROVE  Sound(OpenInc(s, n), SetFd(F, p, i, n), L)
<1>1. F \in Tables /\ Counted(s, RefsOf(F, Plus(L, n)), OpensOf(F))
  BY DEF Sound
<1>2. PICK R \in [Node -> Nat], O \in [Node -> Nat] : R = RefsOf(F, L) /\ O = OpensOf(F)
  BY <1>1, CountFacts
<1>3. RefsOf(F, Plus(L, n)) = Plus(R, n) /\ Plus(R, n) \in [Node -> Nat] /\ Plus(R, n)[n] > 0
  BY <1>1, <1>2, HandAdded, PlusFacts
<1>4. PICK P \in [Node -> Nat] : P = Plus(R, n) /\ P[n] > 0
  BY <1>3
<1>5. Counted(s, P, O)
  BY <1>1, <1>2, <1>3, <1>4
<1>6. Counted(OpenInc(s, n), P, Plus(O, n))
  BY <1>4, <1>5, OpenIncCounted
<1>7. /\ OpensOf(SetFd(F, p, i, n)) = Plus(OpensOf(F), n)
      /\ RefsOf(SetFd(F, p, i, n), L) = Plus(RefsOf(F, L), n)
  BY <1>1, FdAdded
<1>8. SetFd(F, p, i, n) \in Tables
  <2>1. n \in Node \cup {NONE}
    OBVIOUS
  <2>2. FdSet(F, SetFd(F, p, i, n), p, i, n)
    BY <1>1, <2>1, SetFdFacts, Zenon
  <2> QED BY <2>2 DEF FdSet
<1>9. Counted(OpenInc(s, n), RefsOf(SetFd(F, p, i, n), L), OpensOf(SetFd(F, p, i, n)))
  BY <1>2, <1>4, <1>6, <1>7, Zenon
<1> QED BY <1>8, <1>9, Zenon DEF Sound

\* vop_close leaves the reference of a descriptor in hand.
LEMMA Closed ==
    ASSUME NEW s, NEW F, NEW L, Sound(s, F, L), NEW p \in Procs, NEW i \in Fd, NEW n \in Node,
           F[p].fd[i] = n
    PROVE  Sound(OpenDec(s, n), SetFd(F, p, i, NONE), Plus(L, n))
<1>1. F \in Tables /\ L \in [Node -> Nat] /\ Counted(s, RefsOf(F, L), OpensOf(F))
  BY DEF Sound
<1>2. PICK R \in [Node -> Nat], O \in [Node -> Nat] : R = RefsOf(F, L) /\ O = OpensOf(F)
  BY <1>1, CountFacts
<1>3. PICK G : G = SetFd(F, p, i, NONE)
  OBVIOUS
<1>4. G \in Tables
  <2>1. NONE \in Node \cup {NONE}
    OBVIOUS
  <2>2. FdSet(F, SetFd(F, p, i, NONE), p, i, NONE)
    BY <1>1, <2>1, SetFdFacts, Zenon
  <2> QED BY <1>3, <2>2 DEF FdSet
<1>5. O[n] > 0 /\ OpensOf(G) = Minus(O, n) /\ Plus(RefsOf(G, L), n) = R
  BY <1>1, <1>2, <1>3, FdDropped
<1>6. Counted(OpenDec(s, n), R, Minus(O, n))
  BY <1>1, <1>2, <1>5, OpenDecCounted
<1>7. RefsOf(G, Plus(L, n)) = R /\ Plus(L, n) \in [Node -> Nat]
  BY <1>1, <1>4, <1>5, HandAdded, PlusFacts
<1> QED BY <1>3, <1>4, <1>5, <1>6, <1>7 DEF Sound

\* A directory in hand becomes the working directory of a process that has none, and
\* the other way round.
LEMMA Entered ==
    ASSUME NEW s, NEW F, NEW L \in [Node -> Nat], NEW d \in Dir, Sound(s, F, Plus(L, d)),
           NEW p \in Procs, F[p].pwd = NONE
    PROVE  Sound(s, SetPwd(F, p, d), L)
<1>1. F \in Tables /\ d \in Node /\ Counted(s, RefsOf(F, Plus(L, d)), OpensOf(F))
  BY Constants DEF Sound
<1>2. RefsOf(F, Plus(L, d)) = Plus(RefsOf(F, L), d)
  BY <1>1, HandAdded
<1>3. OpensOf(SetPwd(F, p, d)) = OpensOf(F) /\ RefsOf(SetPwd(F, p, d), L) = Plus(RefsOf(F, L), d)
  BY <1>1, PwdAdded
<1>4. SetPwd(F, p, d) \in Tables
  BY <1>1, SetPwdFacts
<1> QED BY <1>1, <1>2, <1>3, <1>4 DEF Sound

LEMMA Left ==
    ASSUME NEW s, NEW F, NEW L, Sound(s, F, L), NEW d \in Dir, NEW p \in Procs, F[p].pwd = d
    PROVE  Sound(s, SetPwd(F, p, NONE), Plus(L, d))
<1>1. /\ F \in Tables /\ d \in Node /\ L \in [Node -> Nat]
      /\ Counted(s, RefsOf(F, L), OpensOf(F))
  BY Constants DEF Sound
<1>2. PICK G : G = SetPwd(F, p, NONE)
  OBVIOUS
<1>3. G \in Tables
  BY <1>1, <1>2, SetPwdFacts
<1>4. OpensOf(G) = OpensOf(F) /\ Plus(RefsOf(G, L), d) = RefsOf(F, L)
  BY <1>1, <1>2, PwdDropped
<1>5. RefsOf(G, Plus(L, d)) = RefsOf(F, L) /\ Plus(L, d) \in [Node -> Nat]
  BY <1>1, <1>3, <1>4, HandAdded, PlusFacts
<1> QED BY <1>1, <1>2, <1>3, <1>4, <1>5 DEF Sound

\* fd_array_dup for the descriptor i of p, and vfs_close of it.
LEMMA Dups ==
    ASSUME NEW s, NEW F, NEW L, Sound(s, F, L), NEW p \in Procs, NEW i \in Fd, NEW n \in Node,
           F[p].fd[i] = NONE, RefsOf(F, L)[n] > 0
    PROVE  Sound(fd_array_dup(s, n), SetFd(F, p, i, n), L)
<1>1. Sound(RefInc(s, n), F, Plus(L, n)) /\ L \in [Node -> Nat]
  BY Takes DEF Sound
<1>2. Sound(OpenInc(RefInc(s, n), n), SetFd(F, p, i, n), L)
  BY <1>1, Opened
<1>3. fd_array_dup(s, n) = OpenInc(RefInc(s, n), n)
  BY Constants DEF fd_array_dup
<1> QED BY <1>2, <1>3

LEMMA Closes ==
    ASSUME NEW s, NEW F, NEW L, Sound(s, F, L), NEW p \in Procs, NEW i \in Fd, NEW n \in Node,
           F[p].fd[i] = n
    PROVE  Sound(vfs_close(s, n), SetFd(F, p, i, NONE), L)
<1>1. Sound(OpenDec(s, n), SetFd(F, p, i, NONE), Plus(L, n)) /\ L \in [Node -> Nat]
  BY Closed DEF Sound
<1>2. Sound(RefDec(OpenDec(s, n), n), SetFd(F, p, i, NONE), L)
  BY <1>1, Gives
<1> QED BY <1>2 DEF vfs_close

\* Writes through a descriptor, and truncation when it is opened.
LEMMA Dirties ==
    ASSUME NEW s, NEW F, NEW L, Sound(s, F, L), NEW p \in Procs, NEW i \in Fd, NEW n \in Node,
           F[p].fd[i] = n, NEW d \in BOOLEAN
    PROVE  Sound([s EXCEPT !.inode[n].dirty = d], F, L)
<1>1. F \in Tables /\ L \in [Node -> Nat] /\ Counted(s, RefsOf(F, L), OpensOf(F))
  BY DEF Sound
<1>2. PICK R \in [Node -> Nat], O \in [Node -> Nat] : R = RefsOf(F, L) /\ O = OpensOf(F)
  BY <1>1, CountFacts
<1>3. O[n] > 0
  BY <1>1, <1>2, Referenced
<1>4. Counted([s EXCEPT !.inode[n].dirty = d], R, O)
  BY <1>1, <1>2, <1>3, DirtyCounted
<1> QED BY <1>1, <1>2, <1>4 DEF Sound

LEMMA Truncates ==
    ASSUME NEW s, NEW F, NEW L, Sound(s, F, L), NEW p \in Procs, NEW i \in Fd, NEW n \in Node,
           F[p].fd[i] = n, NEW empty \in BOOLEAN
    PROVE  Sound(Truncate(s, n, empty), F, L)
<1>1. F \in Tables /\ L \in [Node -> Nat] /\ Counted(s, RefsOf(F, L), OpensOf(F))
  BY DEF Sound
<1>2. PICK R \in [Node -> Nat], O \in [Node -> Nat] : R = RefsOf(F, L) /\ O = OpensOf(F)
  BY <1>1, CountFacts
<1>3. O[n] > 0
  BY <1>1, <1>2, Referenced
<1>4. Counted(Truncate(s, n, empty), R, O)
  BY <1>1, <1>2, <1>3, TruncateCounted
<1> QED BY <1>1, <1>2, <1>4 DEF Sound

LEMMA Stops ==
    ASSUME NEW s, NEW F, NEW L, Sound(s, F, L), NEW what \in Halts, what # "ok"
    PROVE  Sound(Stop(s, what), F, L)
BY StopCounted DEF Sound

\* vfs_open for the free descriptor i of p.
LEMMA Opens_Fd ==
    ASSUME NEW s, NEW F, NEW L, Sound(s, F, L), NEW p \in Procs, NEW i \in Fd, NEW n \in Node,
           NEW flags, NEW empty \in BOOLEAN, F[p].fd[i] = NONE
    PROVE  /\ Opens(n, flags) => Sound(vfs_open(s, n, flags, empty), SetFd(F, p, i, n), L)
           /\ ~Opens(n, flags) /\ ~(OnlyNew(flags) /\ ~BadMode(flags))
                => Sound(vfs_open(s, n, flags, empty), F, L)
           /\ OnlyNew(flags) /\ ~BadMode(flags) => Sound(vfs_open(s, n, flags, empty), F, Plus(L, n))
<1>1. L \in [Node -> Nat] /\ F \in Tables
  BY DEF Sound
<1>2. PICK t : t = Lookup(s, n)
  OBVIOUS
<1>3. Sound(t, F, Plus(L, n))
  BY <1>2, Looks
<1>4. CASE BadMode(flags)
  <2>1. vfs_open(s, n, flags, empty) = s
    BY <1>4 DEF vfs_open
  <2> QED BY <1>4, <2>1 DEF Opens
<1>5. CASE ~BadMode(flags) /\ OnlyNew(flags)
  <2>1. vfs_open(s, n, flags, empty) = t
    BY <1>2, <1>5 DEF vfs_open
  <2> QED BY <1>3, <1>5, <2>1 DEF Opens
<1>6. CASE ~BadMode(flags) /\ ~OnlyNew(flags) /\ Refuses(n, flags)
  <2>1. vfs_open(s, n, flags, empty) = RefDec(t, n)
    BY <1>2, <1>6 DEF vfs_open
  <2>2. Sound(RefDec(t, n), F, L)
    BY <1>1, <1>3, Gives
  <2> QED BY <1>6, <2>1, <2>2 DEF Opens
<1>7. CASE ~BadMode(flags) /\ ~OnlyNew(flags) /\ ~Refuses(n, flags)
  <2>1. PICK u : u = OpenInc(t, n)
    OBVIOUS
  <2>2. PICK G : G = SetFd(F, p, i, n)
    OBVIOUS
  <2>3. Sound(u, G, L)
    BY <1>1, <1>3, <2>1, <2>2, Opened
  <2>4. G[p].fd[i] = n
    <3>1. n \in Node \cup {NONE}
      OBVIOUS
    <3>2. FdSet(F, SetFd(F, p, i, n), p, i, n)
      BY <1>1, <3>1, SetFdFacts, Zenon
    <3> QED BY <2>2, <3>2 DEF FdSet
  <2>5. Sound(Truncate(u, n, empty), G, L)
    BY <2>3, <2>4, Truncates
  <2>6. vfs_open(s, n, flags, empty) \in {Truncate(u, n, empty), u}
    BY <1>2, <1>7, <2>1 DEF vfs_open
  <2>7. Sound(vfs_open(s, n, flags, empty), G, L)
    BY <2>3, <2>5, <2>6
  <2> QED BY <1>7, <2>2, <2>7 DEF Opens
<1> QED BY <1>4, <1>5, <1>6, <1>7

-----------------------------------------------------------------------------
(***************************************************************************)
(* The loops over the descriptors of a table.                              *)
(***************************************************************************)
\* Every set of natural numbers that has a member has a least one.
LEMMA LeastNat ==
    ASSUME NEW T \in SUBSET Nat, T # {}
    PROVE  \E m \in T : \A n \in T : m <= n
<1> DEFINE Below(n) == 1 .. n
           Belows == {Below(n) : n \in T}
<1>1. Belows \subseteq FiniteSubsetsOf(Nat)
  <2>1. \A n \in T : IsFiniteSet(Below(n)) /\ Below(n) \subseteq Nat
    BY FS_Interval
  <2> QED BY <2>1 DEF FiniteSubsetsOf
<1>2. IsWellFoundedOn(StrictSubsetOrdering(Nat), FiniteSubsetsOf(Nat))
  BY FS_StrictSubsetOrderingWellFounded
<1>3. PICK x \in Belows : \A y \in Belows : ~(<<y, x>> \in StrictSubsetOrdering(Nat))
  <2>1. Belows # {}
    OBVIOUS
  <2> HIDE DEF Belows
  <2> QED BY <1>1, <1>2, <2>1, WFMin
<1>4. PICK m \in T : x = Below(m)
  OBVIOUS
<1>5. ASSUME NEW n \in T, n < m PROVE FALSE
  <2>1. Below(n) \subseteq Below(m) /\ Below(n) \subseteq Nat /\ Below(m) \subseteq Nat
    BY <1>5
  <2>2. m \in Below(m) /\ m \notin Below(n)
    BY <1>5
  <2>3. <<Below(n), Below(m)>> \in StrictSubsetOrdering(Nat)
    BY <2>1, <2>2 DEF StrictSubsetOrdering
  <2> QED BY <1>3, <1>4, <2>3
<1> QED BY <1>5

\* files_closeall, files_destroy
ClosesTo(h, s, f, first, n) ==
    h = [k \in first .. n |-> IF k = first THEN s ELSE fd_array_close(h[k - 1], f.fd[k - 1])]

LEMMA ClosesToExist ==
    ASSUME NEW s, NEW f, NEW first \in Nat, NEW n \in Nat, first <= n
    PROVE  \E h : ClosesTo(h, s, f, first, n)
<1> DEFINE T == {m \in Nat : first <= m /\ ~ \E h : ClosesTo(h, s, f, first, m)}
<1>1. SUFFICES ASSUME T # {} PROVE FALSE
  OBVIOUS
<1>2. PICK m \in T : \A x \in T : m <= x
  <2>1. T \in SUBSET Nat
    OBVIOUS
  <2> HIDE DEF T
  <2> QED BY <1>1, <2>1, LeastNat
<1>3. m # first
  <2>1. PICK h : h = [k \in first .. first |-> s]
    OBVIOUS
  <2>2. \A k \in first .. first : k = first
    OBVIOUS
  <2>3. ClosesTo(h, s, f, first, first)
    BY <2>1, <2>2 DEF ClosesTo
  <2> QED BY <1>2, <2>3
<1>4. m - 1 \in Nat /\ first <= m - 1 /\ m - 1 \notin T
  BY <1>2, <1>3
<1>5. PICK h : ClosesTo(h, s, f, first, m - 1)
  BY <1>4
<1>6. PICK g : g = [k \in first .. m |-> IF k = m THEN fd_array_close(h[m - 1], f.fd[m - 1]) ELSE h[k]]
  OBVIOUS
<1>7. \A k \in first .. m - 1 : g[k] = h[k]
  BY <1>2, <1>6
<1>8. \A k \in first .. m : g[k] = IF k = first THEN s ELSE fd_array_close(g[k - 1], f.fd[k - 1])
  <2>1. ASSUME NEW k \in first .. m PROVE k = m \/ k \in first .. m - 1
    BY <1>2
  <2>2. ASSUME NEW k \in first .. m - 1
        PROVE  g[k] = IF k = first THEN s ELSE fd_array_close(g[k - 1], f.fd[k - 1])
    <3>1. h[k] = IF k = first THEN s ELSE fd_array_close(h[k - 1], f.fd[k - 1])
      BY <1>5 DEF ClosesTo
    <3>2. k # first => k - 1 \in first .. m - 1
      OBVIOUS
    <3> QED BY <1>7, <3>1, <3>2
  <2>3. m \in first .. m /\ m - 1 \in first .. m - 1
    BY <1>4, <1>2
  <2>4. g[m] = fd_array_close(g[m - 1], f.fd[m - 1])
    BY <1>6, <1>7, <2>3
  <2> QED BY <1>3, <2>1, <2>2, <2>4
<1>9. ClosesTo(g, s, f, first, m)
  BY <1>6, <1>8 DEF ClosesTo
<1> QED BY <1>2, <1>9

\* dup_files
DupsTo(h, s, f, n) ==
    h = [k \in 0 .. n |-> IF k = 0 THEN RefInc(s, f.pwd) ELSE fd_array_dup(h[k - 1], f.fd[k - 1])]

LEMMA DupsToExist ==
    ASSUME NEW s, NEW f, NEW n \in Nat, 0 <= n
    PROVE  \E h : DupsTo(h, s, f, n)
<1> DEFINE T == {m \in Nat : 0 <= m /\ ~ \E h : DupsTo(h, s, f, m)}
<1>1. SUFFICES ASSUME T # {} PROVE FALSE
  OBVIOUS
<1>2. PICK m \in T : \A x \in T : m <= x
  <2>1. T \in SUBSET Nat
    OBVIOUS
  <2> HIDE DEF T
  <2> QED BY <1>1, <2>1, LeastNat
<1>3. m # 0
  <2>1. PICK h : h = [k \in 0 .. 0 |-> RefInc(s, f.pwd)]
    OBVIOUS
  <2>2. \A k \in 0 .. 0 : k = 0
    OBVIOUS
  <2>3. DupsTo(h, s, f, 0)
    BY <2>1, <2>2 DEF DupsTo
  <2> QED BY <1>2, <2>3
<1>4. m - 1 \in Nat /\ 0 <= m - 1 /\ m - 1 \notin T
  BY <1>2, <1>3
<1>5. PICK h : DupsTo(h, s, f, m - 1)
  BY <1>4
<1>6. PICK g : g = [k \in 0 .. m |-> IF k = m THEN fd_array_dup(h[m - 1], f.fd[m - 1]) ELSE h[k]]
  OBVIOUS
<1>7. \A k \in 0 .. m - 1 : g[k] = h[k]
  BY <1>2, <1>6
<1>8. \A k \in 0 .. m : g[k] = IF k = 0 THEN RefInc(s, f.pwd) ELSE fd_array_dup(g[k - 1], f.fd[k - 1])
  <2>1. ASSUME NEW k \in 0 .. m PROVE k = m \/ k \in 0 .. m - 1
    BY <1>2
  <2>2. ASSUME NEW k \in 0 .. m - 1
        PROVE  g[k] = IF k = 0 THEN RefInc(s, f.pwd) ELSE fd_array_dup(g[k - 1], f.fd[k - 1])
    <3>1. h[k] = IF k = 0 THEN RefInc(s, f.pwd) ELSE fd_array_dup(h[k - 1], f.fd[k - 1])
      BY <1>5 DEF DupsTo
    <3>2. k # 0 => k - 1 \in 0 .. m - 1
      OBVIOUS
    <3> QED BY <1>7, <3>1, <3>2
  <2>3. m \in 0 .. m /\ m - 1 \in 0 .. m - 1
    BY <1>4, <1>2
  <2>4. g[m] = fd_array_dup(g[m - 1], f.fd[m - 1])
    BY <1>6, <1>7, <2>3
  <2> QED BY <1>3, <2>1, <2>2, <2>4
<1>9. DupsTo(g, s, f, m)
  BY <1>6, <1>8 DEF DupsTo
<1> QED BY <1>2, <1>9

\* G is F without the descriptors of p from first on and below k.
EmptiedTo(F, G, p, first, k) ==
    /\ G \in Tables
    /\ \A q \in Procs : q # p => G[q] = F[q]
    /\ G[p].pwd = F[p].pwd
    /\ \A i \in Fd : G[p].fd[i] = IF first <= i /\ i < k THEN NONE ELSE F[p].fd[i]

LEMMA ClosedOne ==
    ASSUME NEW s, NEW F \in Tables, NEW G, NEW L, Sound(s, G, L), NEW p \in Procs, NEW first \in Nat,
           NEW i \in Fd, first <= i, EmptiedTo(F, G, p, first, i)
    PROVE  \E H : EmptiedTo(F, H, p, first, i + 1) /\ Sound(fd_array_close(s, F[p].fd[i]), H, L)
<1>1. G \in Tables /\ i \in Nat
  BY Constants DEF EmptiedTo, Fd
<1>2. G[p].fd[i] = F[p].fd[i]
  BY <1>1 DEF EmptiedTo
<1>3. \A j \in Fd : j \in Int /\ (j < i + 1 <=> j < i \/ j = i)
  BY <1>1 DEF Fd
<1>4. CASE F[p].fd[i] = NONE
  <2>1. fd_array_close(s, F[p].fd[i]) = s
    BY <1>4 DEF fd_array_close
  <2>2. ASSUME NEW j \in Fd
        PROVE  G[p].fd[j] = IF first <= j /\ j < i + 1 THEN NONE ELSE F[p].fd[j]
    BY <1>2, <1>3, <1>4 DEF EmptiedTo
  <2>3. EmptiedTo(F, G, p, first, i + 1)
    BY <2>2 DEF EmptiedTo
  <2> QED BY <2>1, <2>3
<1>5. CASE F[p].fd[i] # NONE
  <2>1. PICK n \in Node : n = F[p].fd[i]
    BY <1>5 DEF Tables
  <2>2. PICK H : H = SetFd(G, p, i, NONE)
    OBVIOUS
  <2>3. FdSet(G, H, p, i, NONE)
    <3>1. NONE \in Node \cup {NONE}
      OBVIOUS
    <3> QED BY <1>1, <2>2, <3>1, SetFdFacts, Zenon
  <2>4. Sound(vfs_close(s, n), H, L)
    BY <1>2, <2>1, <2>2, Closes
  <2>5. fd_array_close(s, F[p].fd[i]) = vfs_close(s, n)
    BY <1>5, <2>1 DEF fd_array_close
  <2>6. ASSUME NEW j \in Fd
        PROVE  H[p].fd[j] = IF first <= j /\ j < i + 1 THEN NONE ELSE F[p].fd[j]
    <3>1. CASE j = i
      BY <1>3, <2>3, <3>1 DEF FdSet
    <3>2. CASE j # i
      <4>1. H[p].fd[j] = G[p].fd[j]
        BY <2>3, <3>2 DEF FdSet
      <4>2. G[p].fd[j] = IF first <= j /\ j < i THEN NONE ELSE F[p].fd[j]
        BY DEF EmptiedTo
      <4> QED BY <1>3, <3>2, <4>1, <4>2
    <3> QED BY <3>1, <3>2
  <2>7. /\ H \in Tables /\ H[p].pwd = F[p].pwd
        /\ \A q \in Procs : q # p => H[q] = F[q]
    BY <2>3 DEF FdSet, EmptiedTo
  <2>8. EmptiedTo(F, H, p, first, i + 1)
    BY <2>6, <2>7 DEF EmptiedTo
  <2> QED BY <2>4, <2>5, <2>8
<1> QED BY <1>4, <1>5

LEMMA CloseFromFacts ==
    ASSUME NEW s, NEW F, NEW L, Sound(s, F, L), NEW p \in Procs, NEW f, f.fd = F[p].fd,
           NEW first \in 0 .. NFd
    PROVE  \E G : EmptiedTo(F, G, p, first, NFd) /\ Sound(CloseFrom(s, f, first), G, L)
<1>1. F \in Tables /\ NFd \in Nat /\ first \in Nat /\ first <= NFd
  BY Constants DEF Sound
<1>2. PICK h : ClosesTo(h, s, f, first, NFd) /\ CloseFrom(s, f, first) = h[NFd]
  <2>1. PICK h : h = CHOOSE c : ClosesTo(c, s, f, first, NFd)
    OBVIOUS
  <2>2. ClosesTo(h, s, f, first, NFd)
    BY <1>1, <2>1, ClosesToExist
  <2>3. CloseFrom(s, f, first) = (CHOOSE c : ClosesTo(c, s, f, first, NFd))[NFd]
    BY Zenon DEF CloseFrom, ClosesTo
  <2> QED BY <2>1, <2>2, <2>3
<1>3. \A k \in first .. NFd : h[k] = IF k = first THEN s ELSE fd_array_close(h[k - 1], f.fd[k - 1])
  BY <1>2 DEF ClosesTo
<1> DEFINE Done(k) == \E G : EmptiedTo(F, G, p, first, k) /\ Sound(h[k], G, L)
           T == {k \in first .. NFd : ~Done(k)}
<1>4. T = {}
  <2>1. SUFFICES ASSUME T # {} PROVE FALSE
    OBVIOUS
  <2>2. PICK m \in T : \A x \in T : m <= x
    <3>1. T \in SUBSET Nat
      BY <1>1
    <3> HIDE DEF T
    <3> QED BY <2>1, <3>1, LeastNat
  <2>3. m # first
    <3>1. h[first] = s
      BY <1>1, <1>3
    <3>2. \A i \in Fd : ~(first <= i /\ i < first)
      BY <1>1 DEF Fd
    <3>3. EmptiedTo(F, F, p, first, first)
      BY <1>1, <3>2 DEF EmptiedTo
    <3>4. Done(first)
      BY <3>1, <3>3
    <3> QED BY <2>2, <3>4
  <2>4. m \in first .. NFd /\ m - 1 \in first .. NFd /\ m - 1 \notin T
    BY <1>1, <2>2, <2>3
  <2>5. h[m] = fd_array_close(h[m - 1], f.fd[m - 1])
    BY <1>3, <2>3, <2>4
  <2>6. PICK i \in Fd : i = m - 1 /\ first <= i /\ m = i + 1
    BY <1>1, <2>4 DEF Fd
  <2>7. PICK G : EmptiedTo(F, G, p, first, i) /\ Sound(h[i], G, L)
    BY <2>4, <2>6
  <2>8. \E H : EmptiedTo(F, H, p, first, i + 1) /\ Sound(fd_array_close(h[i], F[p].fd[i]), H, L)
    BY <1>1, <2>6, <2>7, ClosedOne
  <2>9. h[m] = fd_array_close(h[i], F[p].fd[i])
    BY <2>5, <2>6
  <2>10. Done(m)
    BY <2>6, <2>8, <2>9
  <2> QED BY <2>2, <2>10
<1>5. Done(NFd)
  BY <1>1, <1>4
<1> QED BY <1>2, <1>5

\* G is F, and q has the working directory and the descriptors below k of f.
DupedTo(F, G, q, f, k) ==
    /\ G \in Tables
    /\ \A p \in Procs : p # q => G[p] = F[p]
    /\ G[q].pwd = f.pwd
    /\ \A i \in Fd : G[q].fd[i] = IF i < k THEN f.fd[i] ELSE NONE

LEMMA DupedOne ==
    ASSUME NEW s, NEW F \in Tables, NEW G, NEW L, Sound(s, G, L), NEW p \in Procs, NEW q \in Procs,
           p # q, NEW i \in Fd, DupedTo(F, G, q, F[p], i)
    PROVE  \E H : DupedTo(F, H, q, F[p], i + 1) /\ Sound(fd_array_dup(s, F[p].fd[i]), H, L)
<1>1. G \in Tables /\ i \in Nat /\ L \in [Node -> Nat]
  BY Constants DEF DupedTo, Fd, Sound
<1>2. G[p] = F[p] /\ G[q].fd[i] = NONE
  BY <1>1 DEF DupedTo
<1>3. \A j \in Fd : j \in Int /\ (j < i + 1 <=> j < i \/ j = i)
  BY <1>1 DEF Fd
<1>4. CASE F[p].fd[i] = NONE
  <2>1. fd_array_dup(s, F[p].fd[i]) = s
    BY <1>4 DEF fd_array_dup
  <2>2. ASSUME NEW j \in Fd
        PROVE  G[q].fd[j] = IF j < i + 1 THEN F[p].fd[j] ELSE NONE
    BY <1>2, <1>3, <1>4 DEF DupedTo
  <2>3. DupedTo(F, G, q, F[p], i + 1)
    BY <2>2 DEF DupedTo
  <2> QED BY <2>1, <2>3
<1>5. CASE F[p].fd[i] # NONE
  <2>1. PICK n \in Node : n = F[p].fd[i]
    BY <1>5 DEF Tables
  <2>2. PICK H : H = SetFd(G, q, i, n)
    OBVIOUS
  <2>3. FdSet(G, H, q, i, n)
    <3>1. n \in Node \cup {NONE}
      OBVIOUS
    <3> QED BY <1>1, <2>2, <3>1, SetFdFacts, Zenon
  <2>4. RefsOf(G, L)[n] > 0
    BY <1>1, <1>2, <2>1, Referenced
  <2>5. Sound(fd_array_dup(s, n), H, L)
    BY <1>2, <2>2, <2>4, Dups
  <2>6. ASSUME NEW j \in Fd
        PROVE  H[q].fd[j] = IF j < i + 1 THEN F[p].fd[j] ELSE NONE
    <3>1. CASE j = i
      BY <1>3, <2>1, <2>3, <3>1 DEF FdSet
    <3>2. CASE j # i
      <4>1. H[q].fd[j] = G[q].fd[j]
        BY <2>3, <3>2 DEF FdSet
      <4>2. G[q].fd[j] = IF j < i THEN F[p].fd[j] ELSE NONE
        BY DEF DupedTo
      <4> QED BY <1>3, <3>2, <4>1, <4>2
    <3> QED BY <3>1, <3>2
  <2>7. /\ H \in Tables /\ H[q].pwd = F[p].pwd
        /\ \A x \in Procs : x # q => H[x] = F[x]
    BY <2>3 DEF FdSet, DupedTo
  <2>8. DupedTo(F, H, q, F[p], i + 1)
    BY <2>6, <2>7 DEF DupedTo
  <2> QED BY <2>1, <2>5, <2>8
<1> QED BY <1>4, <1>5

LEMMA DupFilesFacts ==
    ASSUME NEW s, NEW F, NEW L, Sound(s, F, L), NEW p \in Procs, NEW q \in Procs, p # q,
           F[p].pwd \in Dir, F[q].pwd = NONE, \A i \in Fd : F[q].fd[i] = NONE
    PROVE  Sound(dup_files(s, F[p]), [F EXCEPT ![q] = F[p]], L)
<1>1. F \in Tables /\ L \in [Node -> Nat] /\ NFd \in Nat
  BY Constants DEF Sound
<1>2. PICK h : DupsTo(h, s, F[p], NFd) /\ dup_files(s, F[p]) = h[NFd]
  <2>1. PICK h : h = CHOOSE c : DupsTo(c, s, F[p], NFd)
    OBVIOUS
  <2>2. DupsTo(h, s, F[p], NFd)
    <3>1. 0 <= NFd
      BY <1>1
    <3> QED BY <1>1, <2>1, <3>1, DupsToExist
  <2>3. dup_files(s, F[p]) = (CHOOSE c : DupsTo(c, s, F[p], NFd))[NFd]
    BY Zenon DEF dup_files, DupsTo
  <2> QED BY <2>1, <2>2, <2>3
<1>3. \A k \in 0 .. NFd : h[k] = IF k = 0 THEN RefInc(s, F[p].pwd)
                                 ELSE fd_array_dup(h[k - 1], F[p].fd[k - 1])
  BY <1>2 DEF DupsTo
<1> DEFINE Done(k) == \E G : DupedTo(F, G, q, F[p], k) /\ Sound(h[k], G, L)
           T == {k \in 0 .. NFd : ~Done(k)}
<1>4. Done(0)
  <2>1. PICK d \in Dir : d = F[p].pwd
    OBVIOUS
  <2>2. h[0] = RefInc(s, d) /\ d \in Node
    <3>1. 0 \in 0 .. NFd
      BY <1>1
    <3>2. h[0] = RefInc(s, F[p].pwd)
      BY <1>3, <3>1
    <3> QED BY <2>1, <3>2, Constants
  <2>3. RefsOf(F, L)[d] > 0
    BY <1>1, <2>1, <2>2, Referenced
  <2>4. Sound(RefInc(s, d), F, Plus(L, d))
    BY <2>2, <2>3, Takes
  <2>5. PICK G : G = SetPwd(F, q, d)
    OBVIOUS
  <2>6. Sound(RefInc(s, d), G, L)
    BY <1>1, <2>4, <2>5, Entered
  <2>7. /\ G \in Tables /\ G[q].pwd = d /\ G[q].fd = F[q].fd
        /\ \A x \in Procs : x # q => G[x] = F[x]
    <3>1. G \in Tables /\ G[q].pwd = d /\ G[q].fd = F[q].fd
      BY <1>1, <2>5, SetPwdFacts
    <3>2. ASSUME NEW x \in Procs, x # q PROVE G[x] = F[x]
      BY <1>1, <2>5, <3>2 DEF SetPwd, Tables
    <3> QED BY <3>1, <3>2
  <2>8. \A i \in Fd : ~(i < 0)
    BY <1>1 DEF Fd
  <2>9. DupedTo(F, G, q, F[p], 0)
    BY <2>1, <2>7, <2>8 DEF DupedTo
  <2> QED BY <2>2, <2>6, <2>9
<1>5. T = {}
  <2>1. SUFFICES ASSUME T # {} PROVE FALSE
    OBVIOUS
  <2>2. PICK m \in T : \A x \in T : m <= x
    <3>1. T \in SUBSET Nat
      BY <1>1
    <3> HIDE DEF T
    <3> QED BY <2>1, <3>1, LeastNat
  <2>3. m # 0
    BY <1>4, <2>2
  <2>4. m \in 0 .. NFd /\ m - 1 \in 0 .. NFd /\ m - 1 \notin T
    BY <1>1, <2>2, <2>3
  <2>5. h[m] = fd_array_dup(h[m - 1], F[p].fd[m - 1])
    BY <1>3, <2>3, <2>4
  <2>6. PICK i \in Fd : i = m - 1 /\ m = i + 1
    BY <1>1, <2>4 DEF Fd
  <2>7. PICK G : DupedTo(F, G, q, F[p], i) /\ Sound(h[i], G, L)
    BY <2>4, <2>6
  <2>8. \E H : DupedTo(F, H, q, F[p], i + 1) /\ Sound(fd_array_dup(h[i], F[p].fd[i]), H, L)
    BY <1>1, <2>7, DupedOne
  <2>9. h[m] = fd_array_dup(h[i], F[p].fd[i])
    BY <2>5, <2>6
  <2>10. Done(m)
    BY <2>6, <2>8, <2>9
  <2> QED BY <2>2, <2>10
<1>6. PICK G : DupedTo(F, G, q, F[p], NFd) /\ Sound(h[NFd], G, L)
  BY <1>1, <1>5
<1>7. PICK f \in [pwd : Dir \cup {NONE}, fd : [Fd -> Node \cup {NONE}]] : f = F[p]
  BY <1>1 DEF Tables
<1>8. G[q] = f
  <2>1. \A i \in Fd : i < NFd
    BY <1>1 DEF Fd
  <2>2. G[q].pwd = f.pwd /\ \A i \in Fd : G[q].fd[i] = f.fd[i]
    BY <1>6, <1>7, <2>1 DEF DupedTo
  <2>3. PICK g \in [pwd : Dir \cup {NONE}, fd : [Fd -> Node \cup {NONE}]] : g = G[q]
    BY <1>6 DEF DupedTo, Tables
  <2>4. g.fd = f.fd
    BY <2>2, <2>3
  <2> QED BY <2>2, <2>3, <2>4
<1>9. G = [F EXCEPT ![q] = f]
  BY <1>1, <1>6, <1>8 DEF DupedTo, Tables
<1> QED BY <1>2, <1>6, <1>7, <1>9

-----------------------------------------------------------------------------
(***************************************************************************)
(* The system calls.                                                       *)
(***************************************************************************)
\* What a call has done is what the invariant says.
LEMMA Kept ==
    ASSUME NEW s, Becomes(s), Sound(s, files', lost'), Tidy(files')
    PROVE  FilesInv'
<1>1. s \in Rec /\ files' \in Tables /\ lost' \in [Node -> Nat]
  BY DEF Sound, Counted
<1>2. inode' \in [Node -> Inode] /\ halted' \in Halts
  BY <1>1 DEF Becomes, Rec
<1>3. Now' = s
  BY <1>1 DEF Becomes, Now, Rec
<1> QED BY <1>1, <1>2, <1>3 DEF FilesInv

LEMMA CallFacts ==
    ASSUME FilesInv, NEW p \in Procs, Calls(p)
    PROVE  /\ Sound(Now, files, lost) /\ Tidy(files)
           /\ files \in Tables /\ lost \in [Node -> Nat]
           /\ files[p].pwd \in Dir /\ files[p] \in Table
BY DEF FilesInv, Calls, Alive, Tables, Table, Running

\* A table that differs from a tidy one in that of p only.
LEMMA TidyFacts ==
    ASSUME NEW F, NEW G, NEW p, Tidy(F), \A q \in Procs : q # p => G[q] = F[q],
           G[p].pwd = NONE => \A i \in Fd : G[p].fd[i] = NONE
    PROVE  Tidy(G)
BY DEF Tidy

LEMMA TidySetFd ==
    ASSUME NEW F \in Tables, NEW p \in Procs, F[p].pwd # NONE, Tidy(F), NEW i \in Fd,
           NEW m \in Node \cup {NONE}
    PROVE  Tidy(SetFd(F, p, i, m))
<1>1. FdSet(F, SetFd(F, p, i, m), p, i, m)
  BY SetFdFacts, Zenon
<1> QED BY <1>1, TidyFacts DEF FdSet

\* The table of p as a whole.
Replaced(F, G, p, g) == G \in Tables /\ G[p] = g /\ \A q \in Procs : q # p => G[q] = F[q]

LEMMA SetTable ==
    ASSUME NEW F \in Tables, NEW p \in Procs, NEW g \in Table
    PROVE  Replaced(F, [F EXCEPT ![p] = g], p, g)
BY DEF Tables, Table, Replaced

LEMMA OnlyTable ==
    ASSUME NEW F \in Tables, NEW G, NEW p \in Procs, NEW g, Replaced(F, G, p, g)
    PROVE  G = [F EXCEPT ![p] = g]
BY DEF Tables, Replaced

LEMMA SameTable ==
    ASSUME NEW f \in Table, NEW g \in Table, f.pwd = g.pwd, \A i \in Fd : f.fd[i] = g.fd[i]
    PROVE  f = g
<1>1. f.fd = g.fd
  BY DEF Table
<1> QED BY <1>1 DEF Table

LEMMA TidyTable ==
    ASSUME NEW F \in Tables, NEW p \in Procs, NEW g \in Table, Tidy(F), g.pwd # NONE \/ g = NoFiles
    PROVE  Tidy([F EXCEPT ![p] = g])
<1>1. PICK G : G = [F EXCEPT ![p] = g]
  OBVIOUS
<1>2. G[p] = g /\ \A q \in Procs : q # p => G[q] = F[q]
  <2>1. Replaced(F, G, p, g)
    BY <1>1, SetTable, Zenon
  <2> QED BY <2>1 DEF Replaced
<1>3. g.pwd = NONE => \A i \in Fd : g.fd[i] = NONE
  BY DEF NoFiles
<1>4. Tidy(G)
  BY <1>2, <1>3, TidyFacts
<1> QED BY <1>1, <1>4

\* The first free descriptor.
LEMMA FirstFree ==
    ASSUME NEW S \in SUBSET Fd, S # {}
    PROVE  Min(S) \in S
<1>1. S \in SUBSET Nat
  BY Constants DEF Fd
<1>2. \E m \in S : \A n \in S : m <= n
  BY <1>1, LeastNat
<1> QED BY <1>2 DEF Min

LEMMA OpenKeeps ==
    ASSUME FilesInv, NEW p \in Procs, NEW n \in Node, NEW flags, NEW empty \in BOOLEAN,
           file_open(p, n, flags, empty)
    PROVE  FilesInv'
<1>1. /\ Sound(Now, files, lost) /\ Tidy(files) /\ files \in Tables /\ lost \in [Node -> Nat]
      /\ files[p].pwd # NONE
  BY CallFacts, Constants DEF file_open
<1>2. PICK i \in Fd : i = Min(FreeFds(p)) /\ files[p].fd[i] = NONE
  <2>1. FreeFds(p) \in SUBSET Fd /\ FreeFds(p) # {}
    BY DEF file_open, FreeFds
  <2>2. Min(FreeFds(p)) \in FreeFds(p)
    BY <2>1, FirstFree
  <2> QED BY <2>2 DEF FreeFds
<1>3. PICK s : s = vfs_open(Now, n, flags, empty)
  OBVIOUS
<1>4. Becomes(s)
  BY <1>3 DEF file_open
<1>5. /\ Opens(n, flags) => Sound(s, SetFd(files, p, i, n), lost)
      /\ ~Opens(n, flags) /\ ~(OnlyNew(flags) /\ ~BadMode(flags)) => Sound(s, files, lost)
      /\ OnlyNew(flags) /\ ~BadMode(flags) => Sound(s, files, Plus(lost, n))
  BY <1>1, <1>2, <1>3, Opens_Fd
<1>6. CASE Opens(n, flags)
  <2>1. files' = SetFd(files, p, i, n) /\ lost' = lost
    BY <1>2, <1>6 DEF file_open, SetFd, Opens
  <2>2. Tidy(SetFd(files, p, i, n))
    <3>1. n \in Node \cup {NONE}
      OBVIOUS
    <3> QED BY <1>1, <3>1, TidySetFd
  <2> QED BY <1>4, <1>5, <1>6, <2>1, <2>2, Kept
<1>7. CASE OnlyNew(flags) /\ ~BadMode(flags)
  <2>1. files' = files /\ lost' = Plus(lost, n)
    BY <1>7 DEF file_open, Opens, Plus
  <2> QED BY <1>1, <1>4, <1>5, <1>7, <2>1, Kept
<1>8. CASE ~Opens(n, flags) /\ ~(OnlyNew(flags) /\ ~BadMode(flags))
  <2>1. files' = files /\ lost' = lost
    BY <1>8 DEF file_open
  <2> QED BY <1>1, <1>4, <1>5, <1>8, <2>1, Kept
<1> QED BY <1>6, <1>7, <1>8

LEMMA CreateKeeps ==
    ASSUME FilesInv, NEW p \in Procs, NEW flags, file_create(p, flags)
    PROVE  FilesInv'
<1>1. Sound(Now, files, lost) /\ Tidy(files)
  BY CallFacts DEF file_create
<1>2. "vop_create" \in Halts /\ "vop_create" # "ok"
  BY DEF Halts
<1>3. Sound(Stop(Now, "vop_create"), files, lost)
  BY <1>1, <1>2, Stops
<1>4. files' = files /\ lost' = lost /\ Becomes(Stop(Now, "vop_create"))
  BY DEF file_create
<1> QED BY <1>1, <1>3, <1>4, Kept

LEMMA CloseKeeps ==
    ASSUME FilesInv, NEW p \in Procs, NEW i \in Fd, file_close(p, i)
    PROVE  FilesInv'
<1>1. /\ Sound(Now, files, lost) /\ Tidy(files) /\ files \in Tables /\ files[p].pwd # NONE
      /\ files[p] \in Table
  BY CallFacts, Constants DEF file_close
<1>2. PICK n \in Node : n = files[p].fd[i] /\ n # NONE
  BY <1>1 DEF file_close, Table
<1>3. Becomes(vfs_close(Now, n))
  BY <1>2 DEF file_close, fd_array_close
<1>4. files' = SetFd(files, p, i, NONE) /\ lost' = lost
  BY DEF file_close, SetFd
<1>5. Sound(vfs_close(Now, n), SetFd(files, p, i, NONE), lost)
  BY <1>1, <1>2, Closes
<1>6. Tidy(SetFd(files, p, i, NONE))
  BY <1>1, TidySetFd
<1> QED BY <1>3, <1>4, <1>5, <1>6, Kept

LEMMA DupKeeps ==
    ASSUME FilesInv, NEW p \in Procs, NEW i \in Fd, NEW j \in Fd, file_dup(p, i, j)
    PROVE  FilesInv'
<1>1. /\ Sound(Now, files, lost) /\ Tidy(files) /\ files \in Tables /\ files[p].pwd # NONE
      /\ files[p] \in Table /\ lost \in [Node -> Nat]
  BY CallFacts, Constants DEF file_dup
<1>2. PICK n \in Node : n = files[p].fd[i] /\ n # NONE
  BY <1>1 DEF file_dup, Table
<1>3. Becomes(fd_array_dup(Now, n)) /\ files[p].fd[j] = NONE
  BY <1>2 DEF file_dup
<1>4. files' = SetFd(files, p, j, n) /\ lost' = lost
  BY <1>2 DEF file_dup, SetFd
<1>5. Sound(fd_array_dup(Now, n), SetFd(files, p, j, n), lost)
  <2>1. RefsOf(files, lost)[n] > 0
    BY <1>1, <1>2, Referenced
  <2> QED BY <1>1, <1>3, <2>1, Dups
<1>6. Tidy(SetFd(files, p, j, n))
  <2>1. n \in Node \cup {NONE}
    OBVIOUS
  <2> QED BY <1>1, <2>1, TidySetFd
<1> QED BY <1>3, <1>4, <1>5, <1>6, Kept

LEMMA FileWriteKeeps ==
    ASSUME FilesInv, NEW p \in Procs, NEW i \in Fd, file_write(p, i)
    PROVE  FilesInv'
<1>1. Sound(Now, files, lost) /\ Tidy(files)
  BY CallFacts DEF file_write
<1>2. PICK n \in Node : n = files[p].fd[i]
  BY Constants DEF file_write
<1>3. files' = files /\ lost' = lost
  BY DEF file_write
<1>4. CASE n \in File
  <2>1. Becomes([Now EXCEPT !.inode[n].dirty = TRUE])
    BY <1>2, <1>4, Zenon DEF file_write
  <2>2. Sound([Now EXCEPT !.inode[n].dirty = TRUE], files, lost)
    BY <1>1, <1>2, Dirties
  <2> QED BY <1>1, <1>3, <2>1, <2>2, Kept
<1>5. CASE n \notin File
  <2>1. Becomes(Stop(Now, "vop_tryseek"))
    BY <1>2, <1>5, Zenon DEF file_write
  <2>2. "vop_tryseek" \in Halts /\ "vop_tryseek" # "ok"
    BY DEF Halts
  <2>3. Sound(Stop(Now, "vop_tryseek"), files, lost)
    BY <1>1, <2>2, Stops
  <2> QED BY <1>1, <1>3, <2>1, <2>3, Kept
<1> QED BY <1>4, <1>5

LEMMA FsyncKeeps ==
    ASSUME FilesInv, NEW p \in Procs, NEW i \in Fd, file_fsync(p, i)
    PROVE  FilesInv'
<1>1. Sound(Now, files, lost) /\ Tidy(files)
  BY CallFacts DEF file_fsync
<1>2. PICK n \in Node : n = files[p].fd[i]
  BY Constants DEF file_fsync
<1>3. PICK s : s = [Now EXCEPT !.inode[n].dirty = FALSE]
  OBVIOUS
<1>4. s.inode = [inode EXCEPT ![n].dirty = FALSE] /\ s.res = halted
  BY <1>3, Zenon DEF Now
<1>5. Becomes(s) /\ files' = files /\ lost' = lost
  BY <1>2, <1>4, Zenon DEF file_fsync, Becomes
<1>6. Sound(s, files, lost)
  BY <1>1, <1>2, <1>3, Dirties
<1> QED BY <1>1, <1>5, <1>6, Kept

\* What is in hand may be referred to once more.
LEMMA InHand ==
    ASSUME NEW F \in Tables, NEW L \in [Node -> Nat], NEW n \in Node
    PROVE  RefsOf(F, Plus(L, n))[n] > 0
<1>1. RefsOf(F, L) \in [Node -> Nat] /\ RefsOf(F, Plus(L, n)) = Plus(RefsOf(F, L), n)
  BY CountFacts, HandAdded
<1> QED BY <1>1, PlusFacts

LEMMA ChdirKeeps ==
    ASSUME FilesInv, NEW p \in Procs, NEW n \in Node, vfs_chdir(p, n)
    PROVE  FilesInv'
<1>1. /\ Sound(Now, files, lost) /\ Tidy(files) /\ files \in Tables /\ files[p].pwd \in Dir
      /\ files[p] \in Table /\ lost \in [Node -> Nat]
  BY CallFacts DEF vfs_chdir
<1>2. PICK s : s = Lookup(Now, n)
  OBVIOUS
<1>3. Sound(s, files, Plus(lost, n)) /\ Plus(lost, n) \in [Node -> Nat]
  BY <1>1, <1>2, Looks, PlusFacts
<1>4. PICK d \in Dir : d = files[p].pwd /\ d \in Node
  BY <1>1, Constants
<1>5. lost' = lost
  BY DEF vfs_chdir
<1>6. CASE n \in Dir \ {d}
  <2>1. Becomes(RefDec(RefDec(RefInc(s, n), d), n)) /\ files' = SetPwd(files, p, n)
    BY <1>2, <1>4, <1>6 DEF vfs_chdir, SetPwd
  <2>2. PICK L \in [Node -> Nat] : L = Plus(Plus(lost, n), n)
    BY <1>3, PlusFacts
  <2>3. Sound(RefInc(s, n), files, L)
    <3>1. RefsOf(files, Plus(lost, n))[n] > 0
      BY <1>1, InHand
    <3> QED BY <1>3, <2>2, <3>1, Takes
  <2>4. PICK F : F = SetPwd(files, p, NONE)
    OBVIOUS
  <2>5. Sound(RefInc(s, n), F, Plus(L, d))
    BY <1>4, <2>3, <2>4, Left
  <2>6. PICK t : t = RefDec(RefInc(s, n), d)
    OBVIOUS
  <2>7. Sound(t, F, L)
    BY <1>4, <2>2, <2>5, <2>6, Gives
  <2>8. F \in Tables /\ F[p].pwd = NONE
    BY <1>1, <2>4, SetPwdFacts
  <2>9. Sound(t, SetPwd(F, p, n), Plus(lost, n))
    BY <1>3, <1>6, <2>2, <2>7, <2>8, Entered
  <2>10. Sound(RefDec(t, n), SetPwd(F, p, n), lost)
    BY <1>1, <2>9, Gives
  <2>11. SetPwd(F, p, n) = SetPwd(files, p, n)
    <3>1. PICK f \in Table : f = files[p]
      BY <1>1
    <3>2. [[f EXCEPT !.pwd = NONE] EXCEPT !.pwd = n] = [f EXCEPT !.pwd = n]
      BY <3>1 DEF Table
    <3>3. PICK g : g = [f EXCEPT !.pwd = NONE]
      OBVIOUS
    <3>4. PICK h : h = [f EXCEPT !.pwd = n]
      OBVIOUS
    <3>5. F = [files EXCEPT ![p] = g] /\ SetPwd(files, p, n) = [files EXCEPT ![p] = h]
      BY <2>4, <3>1, <3>3, <3>4 DEF SetPwd
    <3>6. F[p] = g
      BY <1>1, <3>5 DEF Tables
    <3>7. SetPwd(F, p, n) = [F EXCEPT ![p] = h]
      BY <3>2, <3>3, <3>4, <3>6 DEF SetPwd
    <3> QED BY <1>1, <3>5, <3>7 DEF Tables
  <2>12. Tidy(files')
    <3>1. PICK G : G = SetPwd(files, p, n)
      OBVIOUS
    <3>2. G[p].pwd # NONE /\ \A q \in Procs : q # p => G[q] = files[q]
      <4>1. G[p].pwd = n
        BY <1>1, <1>6, <3>1, SetPwdFacts
      <4>2. \A q \in Procs : q # p => G[q] = files[q]
        BY <1>1, <3>1 DEF SetPwd, Tables
      <4> QED BY <4>1, <4>2, Constants
    <3>3. Tidy(G)
      BY <1>1, <3>2, TidyFacts
    <3> QED BY <2>1, <3>1, <3>3
  <2> QED BY <1>5, <2>1, <2>6, <2>10, <2>11, <2>12, Kept
<1>7. CASE n \notin Dir \ {d}
  <2>1. Becomes(RefDec(s, n)) /\ files' = files
    BY <1>2, <1>4, <1>7 DEF vfs_chdir
  <2>2. Sound(RefDec(s, n), files, lost)
    BY <1>1, <1>3, Gives
  <2> QED BY <1>1, <1>5, <2>1, <2>2, Kept
<1> QED BY <1>6, <1>7

\* sfs_namefile gives back what it takes.
LEMMA Climbs ==
    ASSUME NEW s, NEW F, NEW L \in [Node -> Nat], NEW d \in Node, Sound(s, F, Plus(L, d))
    PROVE  Sound(Climb(s, d), F, Plus(L, root))
<1>1. root \in Node
  BY Constants
<1>2. Sound(Lookup(s, root), F, Plus(Plus(L, d), root))
  BY <1>1, Looks
<1>3. Plus(Plus(L, d), root) = Plus(Plus(L, root), d) /\ Plus(L, root) \in [Node -> Nat]
  BY <1>1, PlusFacts
<1>4. Sound(Lookup(s, root), F, Plus(Plus(L, root), d))
  BY <1>2, <1>3
<1>5. Sound(RefDec(Lookup(s, root), d), F, Plus(L, root))
  BY <1>3, <1>4, Gives
<1> QED BY <1>5 DEF Climb

LEMMA Names ==
    ASSUME NEW s, NEW F, NEW L, Sound(s, F, L), NEW d \in Node, RefsOf(F, L)[d] > 0
    PROVE  Sound(sfs_namefile(s, d), F, L)
<1>1. L \in [Node -> Nat] /\ root \in Node
  BY Constants DEF Sound
<1>2. PICK t : t = RefInc(s, d)
  OBVIOUS
<1>3. Sound(t, F, Plus(L, d))
  BY <1>2, Takes
<1>4. PICK u : u = Climb(t, d)
  OBVIOUS
<1>5. Sound(u, F, Plus(L, root))
  BY <1>1, <1>3, <1>4, Climbs
<1>6. PICK v : v = Climb(u, root)
  OBVIOUS
<1>7. Sound(v, F, Plus(L, root))
  BY <1>1, <1>5, <1>6, Climbs
<1>8. Sound(RefDec(u, root), F, L) /\ Sound(RefDec(v, root), F, L)
  BY <1>1, <1>5, <1>7, Gives
<1>9. sfs_namefile(s, d) \in {RefDec(u, root), RefDec(v, root)}
  BY <1>2, <1>4, <1>6 DEF sfs_namefile
<1> QED BY <1>8, <1>9

LEMMA GetcwdKeeps ==
    ASSUME FilesInv, NEW p \in Procs, vfs_getcwd(p)
    PROVE  FilesInv'
<1>1. /\ Sound(Now, files, lost) /\ Tidy(files) /\ files \in Tables /\ files[p].pwd \in Dir
      /\ lost \in [Node -> Nat]
  BY CallFacts DEF vfs_getcwd
<1>2. PICK d \in Node : d = files[p].pwd
  BY <1>1, Constants
<1>3. PICK s : s = RefInc(Now, d)
  OBVIOUS
<1>4. Sound(s, files, Plus(lost, d))
  <2>1. RefsOf(files, lost)[d] > 0
    BY <1>1, <1>2, Referenced
  <2> QED BY <1>1, <1>3, <2>1, Takes
<1>5. Sound(sfs_namefile(s, d), files, Plus(lost, d))
  <2>1. RefsOf(files, Plus(lost, d))[d] > 0
    BY <1>1, InHand
  <2> QED BY <1>4, <2>1, Names
<1>6. Sound(RefDec(sfs_namefile(s, d), d), files, lost)
  BY <1>1, <1>5, Gives
<1>7. Becomes(RefDec(sfs_namefile(s, d), d)) /\ files' = files /\ lost' = lost
  BY <1>2, <1>3 DEF vfs_getcwd
<1> QED BY <1>1, <1>6, <1>7, Kept

LEMMA ForkKeeps ==
    ASSUME FilesInv, NEW p \in Procs, NEW q \in Procs, do_fork(p, q)
    PROVE  FilesInv'
<1>1. /\ Sound(Now, files, lost) /\ Tidy(files) /\ files \in Tables /\ files[p].pwd \in Dir
      /\ files[p] \in Table
  BY CallFacts DEF do_fork
<1>2. p # q /\ files[q].pwd = NONE /\ \A i \in Fd : files[q].fd[i] = NONE
  BY <1>1 DEF do_fork, Calls, Alive, Tidy
<1>3. Sound(dup_files(Now, files[p]), [files EXCEPT ![q] = files[p]], lost)
  BY <1>1, <1>2, DupFilesFacts
<1>4. /\ Becomes(dup_files(Now, files[p])) /\ lost' = lost
      /\ files' = [files EXCEPT ![q] = files[p]]
  BY DEF do_fork
<1>5. Tidy([files EXCEPT ![q] = files[p]])
  BY <1>1, Constants, TidyTable
<1> QED BY <1>3, <1>4, <1>5, Kept

\* files_destroy, for a process with the table F[p].
LEMMA Destroys ==
    ASSUME NEW s, NEW F, NEW L, Sound(s, F, L), NEW p \in Procs, F[p].pwd \in Dir
    PROVE  Sound(CloseFrom(RefDec(s, F[p].pwd), F[p], 0), [F EXCEPT ![p] = NoFiles], L)
<1>1. F \in Tables /\ L \in [Node -> Nat] /\ NFd \in Nat
  BY Constants DEF Sound
<1>2. PICK d \in Dir : d = F[p].pwd /\ d \in Node
  BY Constants
<1>3. PICK G : G = SetPwd(F, p, NONE)
  OBVIOUS
<1>4. Sound(RefDec(s, d), G, L)
  <2>1. Sound(s, G, Plus(L, d))
    BY <1>2, <1>3, Left
  <2> QED BY <1>1, <1>2, <2>1, Gives
<1>5. /\ G[p].fd = F[p].fd /\ G[p].pwd = NONE
      /\ \A q \in Procs : q # p => G[q] = F[q]
  <2>1. G[p].fd = F[p].fd /\ G[p].pwd = NONE
    BY <1>1, <1>3, SetPwdFacts
  <2>2. \A q \in Procs : q # p => G[q] = F[q]
    BY <1>1, <1>3 DEF SetPwd, Tables
  <2> QED BY <2>1, <2>2
<1>6. PICK H : EmptiedTo(G, H, p, 0, NFd) /\ Sound(CloseFrom(RefDec(s, d), F[p], 0), H, L)
  <2>1. 0 \in 0 .. NFd
    BY <1>1
  <2> QED BY <1>4, <1>5, <2>1, CloseFromFacts
<1>7. H = [F EXCEPT ![p] = NoFiles]
  <2>1. \A i \in Fd : 0 <= i /\ i < NFd
    BY <1>1 DEF Fd
  <2>2. H[p].pwd = NONE /\ \A i \in Fd : H[p].fd[i] = NONE
    BY <1>5, <1>6, <2>1 DEF EmptiedTo
  <2>3. H \in Tables /\ H[p] \in Table /\ \A q \in Procs : q # p => H[q] = F[q]
    BY <1>5, <1>6 DEF EmptiedTo, Tables, Table
  <2>4. NoFiles \in Table /\ NoFiles.pwd = NONE /\ \A i \in Fd : NoFiles.fd[i] = NONE
    BY DEF NoFiles, Table
  <2>5. H[p] = NoFiles
    BY <2>2, <2>3, <2>4, SameTable
  <2>6. Replaced(F, H, p, NoFiles)
    BY <2>3, <2>5 DEF Replaced
  <2> QED BY <1>1, <2>6, OnlyTable, Zenon
<1> QED BY <1>2, <1>6, <1>7

\* do_exit of p, from a record and tables that the call has made of the first ones.
LEMMA ExitsKeep ==
    ASSUME NEW p \in Procs, NEW s, NEW F, Sound(s, F, lost), F[p].pwd \in Dir,
           files \in Tables, Tidy(files), \A q \in Procs : q # p => F[q] = files[q],
           Exits(p, s, F[p]), lost' = lost
    PROVE  FilesInv'
<1>1. F \in Tables /\ NoFiles \in Table
  BY DEF Sound, NoFiles, Table
<1>2. Sound(CloseFrom(RefDec(s, F[p].pwd), F[p], 0), [F EXCEPT ![p] = NoFiles], lost)
  BY Destroys
<1>3. [F EXCEPT ![p] = NoFiles] = [files EXCEPT ![p] = NoFiles]
  <2>1. PICK G : G = [F EXCEPT ![p] = NoFiles]
    OBVIOUS
  <2>2. Replaced(F, G, p, NoFiles)
    BY <1>1, <2>1, SetTable, Zenon
  <2>3. Replaced(files, G, p, NoFiles)
    BY <2>2 DEF Replaced
  <2>4. G = [files EXCEPT ![p] = NoFiles]
    BY <2>3, OnlyTable, Zenon
  <2> QED BY <2>1, <2>4
<1>4. Becomes(CloseFrom(RefDec(s, F[p].pwd), F[p], 0)) /\ files' = [files EXCEPT ![p] = NoFiles]
  BY DEF Exits
<1>5. Tidy([files EXCEPT ![p] = NoFiles])
  BY <1>1, TidyTable
<1> QED BY <1>2, <1>3, <1>4, <1>5, Kept

LEMMA ExitKeeps ==
    ASSUME FilesInv, NEW p \in Procs, do_exit(p)
    PROVE  FilesInv'
BY CallFacts, ExitsKeep DEF do_exit

\* files_closeall leaves the standard table.
LEMMA ClosesAll ==
    ASSUME FilesInv, NEW p \in Procs, Calls(p)
    PROVE  /\ Standard(files[p]) \in Table /\ Standard(files[p]).pwd = files[p].pwd
           /\ Standard(files[p]).fd[2] = NONE /\ 2 \in Fd
           /\ Sound(CloseFrom(Now, files[p], 2), [files EXCEPT ![p] = Standard(files[p])], lost)
<1>1. Sound(Now, files, lost) /\ files \in Tables /\ files[p] \in Table
  BY CallFacts
<1>2. NFd \in Nat /\ 2 \in 0 .. NFd /\ 2 \in Fd
  BY Constants DEF Fd
<1>3. PICK G : EmptiedTo(files, G, p, 2, NFd) /\ Sound(CloseFrom(Now, files[p], 2), G, lost)
  BY <1>1, <1>2, CloseFromFacts
<1>4. PICK g : g = Standard(files[p])
  OBVIOUS
<1>5. /\ g \in Table /\ g.pwd = files[p].pwd
      /\ \A i \in Fd : g.fd[i] = IF i < 2 THEN files[p].fd[i] ELSE NONE
  BY <1>1, <1>4 DEF Standard, Table
<1>6. \A i \in Fd : i < 2 <=> ~(2 <= i /\ i < NFd)
  BY <1>2 DEF Fd
<1>7. G[p] = g
  <2>1. G[p] \in Table /\ G[p].pwd = files[p].pwd
    BY <1>3 DEF EmptiedTo, Tables, Table
  <2>2. \A i \in Fd : G[p].fd[i] = g.fd[i]
    BY <1>3, <1>5, <1>6 DEF EmptiedTo
  <2> QED BY <1>5, <2>1, <2>2, SameTable
<1>8. G = [files EXCEPT ![p] = g]
  <2>1. Replaced(files, G, p, g)
    BY <1>3, <1>7 DEF EmptiedTo, Replaced
  <2> QED BY <1>1, <2>1, OnlyTable, Zenon
<1> QED BY <1>2, <1>3, <1>4, <1>5, <1>8

LEMMA ExecKeeps ==
    ASSUME FilesInv, NEW p \in Procs, NEW n \in Node, do_execve(p, n)
    PROVE  FilesInv'
<1>1. /\ files \in Tables /\ lost \in [Node -> Nat] /\ files[p].pwd \in Dir /\ Tidy(files)
      /\ files[p].pwd # NONE
  BY CallFacts, Constants DEF do_execve
<1>2. PICK f \in Table : f = Standard(files[p]) /\ f.pwd = files[p].pwd
  BY ClosesAll DEF do_execve
<1>3. PICK F : F = [files EXCEPT ![p] = f]
  OBVIOUS
<1>4. Sound(CloseFrom(Now, files[p], 2), F, lost) /\ f.fd[2] = NONE /\ 2 \in Fd
  BY <1>2, <1>3, ClosesAll DEF do_execve
<1>5. PICK fd \in Fd : fd = Min({i \in Fd : f.fd[i] = NONE}) /\ f.fd[fd] = NONE
  <2>1. PICK S \in SUBSET Fd : S = {i \in Fd : f.fd[i] = NONE} /\ S # {}
    BY <1>4
  <2>2. Min(S) \in S
    BY <2>1, FirstFree
  <2> QED BY <2>1, <2>2
<1>6. F \in Tables /\ F[p] = f /\ \A q \in Procs : q # p => F[q] = files[q]
  <2>1. Replaced(files, F, p, f)
    BY <1>1, <1>3, SetTable, Zenon
  <2> QED BY <2>1 DEF Replaced
<1>7. PICK s : s = vfs_open(CloseFrom(Now, files[p], 2), n, {}, TRUE)
  OBVIOUS
<1>8. PICK G : G = SetFd(F, p, fd, n)
  OBVIOUS
<1>9. Sound(s, G, lost)
  <2>1. Opens(n, {})
    BY DEF Opens, BadMode, OnlyNew, Refuses
  <2> QED BY <1>4, <1>5, <1>6, <1>7, <1>8, <2>1, Opens_Fd
<1>10. PICK g \in Table :
            /\ g = [f EXCEPT !.fd[fd] = n] /\ g.pwd = f.pwd /\ g.fd[fd] = n
            /\ \A i \in Fd : i # fd => g.fd[i] = f.fd[i]
  <2>1. PICK g : g = [f EXCEPT !.fd[fd] = n]
    OBVIOUS
  <2>2. /\ g \in Table /\ g.pwd = f.pwd /\ g.fd[fd] = n
        /\ \A i \in Fd : i # fd => g.fd[i] = f.fd[i]
    BY <2>1 DEF Table
  <2> QED BY <2>1, <2>2
<1>11. G[p] = g /\ G = [F EXCEPT ![p] = g] /\ \A q \in Procs : q # p => G[q] = files[q]
  <2>1. G = [F EXCEPT ![p] = g]
    BY <1>6, <1>8, <1>10 DEF SetFd
  <2>2. Replaced(F, G, p, g)
    BY <1>6, <2>1, SetTable, Zenon
  <2> QED BY <1>6, <2>1, <2>2 DEF Replaced
<1>12. G = [files EXCEPT ![p] = g]
  <2>1. Replaced(files, G, p, g)
    BY <1>9, <1>11 DEF Sound, Replaced
  <2> QED BY <1>1, <2>1, OnlyTable, Zenon
<1>13. lost' = lost
  BY DEF do_execve
<1>14. CASE Becomes(vfs_close(s, n)) /\ files' = F
  <2>1. Sound(vfs_close(s, n), SetFd(G, p, fd, NONE), lost)
    BY <1>9, <1>10, <1>11, Closes
  <2>2. SetFd(G, p, fd, NONE) = F
    <3>1. PICK H : H = SetFd(G, p, fd, NONE)
      OBVIOUS
    <3>2. FdSet(G, H, p, fd, NONE)
      <4>1. G \in Tables /\ NONE \in Node \cup {NONE}
        BY <1>9 DEF Sound
      <4> QED BY <3>1, <4>1, SetFdFacts, Zenon
    <3>3. H \in Tables /\ H[p] \in Table /\ H[p].pwd = f.pwd /\ \A q \in Procs : q # p => H[q] = F[q]
      BY <1>6, <1>10, <1>11, <3>2 DEF FdSet, Tables, Table
    <3>4. ASSUME NEW i \in Fd PROVE H[p].fd[i] = f.fd[i]
      <4>1. f.fd[fd] = NONE /\ G[p] = g
        BY <1>5, <1>11
      <4>2. i # fd => g.fd[i] = f.fd[i]
        BY <1>10
      <4>3. H[p].fd[fd] = NONE /\ (i # fd => H[p].fd[i] = G[p].fd[i])
        BY <3>2 DEF FdSet
      <4> QED BY <4>1, <4>2, <4>3
    <3>5. H[p] = f
      BY <3>3, <3>4, SameTable
    <3>6. H = F
      BY <1>6, <3>3, <3>5 DEF Tables
    <3> QED BY <3>1, <3>6
  <2>3. Tidy(F)
    BY <1>1, <1>2, <1>3, TidyTable
  <2> QED BY <1>13, <1>14, <2>1, <2>2, <2>3, Kept
<1>15. CASE \E dirty \in BOOLEAN :
              Exits(p, IF dirty THEN [s EXCEPT !.inode[n].dirty = TRUE] ELSE s, g)
  <2>1. PICK t \in {[s EXCEPT !.inode[n].dirty = TRUE], s} : Exits(p, t, g)
    BY <1>15, Zenon
  <2>2. Sound([s EXCEPT !.inode[n].dirty = TRUE], G, lost)
    <3>1. G[p].fd[fd] = n /\ TRUE \in BOOLEAN
      BY <1>10, <1>11
    <3> QED BY <1>9, <3>1, Dirties
  <2>3. Sound(t, G, lost)
    BY <1>9, <2>1, <2>2, Zenon
  <2>4. G[p].pwd \in Dir
    BY <1>1, <1>2, <1>10, <1>11
  <2> QED BY <1>1, <1>11, <1>13, <2>1, <2>3, <2>4, ExitsKeep
<1>16. CASE Becomes(Stop(s, "vop_tryseek")) /\ files' = [files EXCEPT ![p] = g]
  <2>1. "vop_tryseek" \in Halts /\ "vop_tryseek" # "ok"
    BY DEF Halts
  <2>2. Sound(Stop(s, "vop_tryseek"), G, lost)
    BY <1>9, <2>1, Stops
  <2>3. Tidy([files EXCEPT ![p] = g])
    BY <1>1, <1>2, <1>10, TidyTable
  <2> QED BY <1>12, <1>13, <1>16, <2>2, <2>3, Kept
<1>17. \/ Becomes(vfs_close(s, n)) /\ files' = F
       \/ \E dirty \in BOOLEAN :
              Exits(p, IF dirty THEN [s EXCEPT !.inode[n].dirty = TRUE] ELSE s, g)
       \/ Becomes(Stop(s, "vop_tryseek")) /\ files' = [files EXCEPT ![p] = g]
  BY <1>2, <1>3, <1>5, <1>7, <1>10, Zenon DEF do_execve
<1> QED BY <1>14, <1>15, <1>16, <1>17

LEMMA ExecNothingKeeps ==
    ASSUME FilesInv, NEW p \in Procs, ExecNothing(p)
    PROVE  FilesInv'
<1>1. files \in Tables /\ files[p].pwd \in Dir /\ Tidy(files)
  BY CallFacts DEF ExecNothing
<1>2. PICK f \in Table : f = Standard(files[p]) /\ f.pwd = files[p].pwd
  BY ClosesAll DEF ExecNothing
<1>3. PICK F : F = [files EXCEPT ![p] = f]
  OBVIOUS
<1>4. Sound(CloseFrom(Now, files[p], 2), F, lost)
  BY <1>2, <1>3, ClosesAll DEF ExecNothing
<1>5. F[p] = f /\ \A q \in Procs : q # p => F[q] = files[q]
  <2>1. Replaced(files, F, p, f)
    BY <1>1, <1>3, SetTable, Zenon
  <2> QED BY <2>1 DEF Replaced
<1>6. Exits(p, CloseFrom(Now, files[p], 2), f) /\ lost' = lost
  BY <1>2 DEF ExecNothing
<1> QED BY <1>1, <1>2, <1>4, <1>5, <1>6, ExitsKeep

-----------------------------------------------------------------------------
LEMMA FilesInitInv ==
    ASSUME FilesInit
    PROVE  FilesInv
<1>1. /\ inode \in [Node -> Inode] /\ lost \in [Node -> Nat] /\ halted \in Halts
      /\ \A n \in Node : lost[n] = 0
  <2>1. NoInode \in Inode /\ [NoInode EXCEPT !.ref = 1] \in Inode
    BY DEF NoInode, Inode
  <2>2. [ref |-> 2, open |-> 0, reclaim |-> 1, dirty |-> FALSE] \in Inode
    BY DEF Inode
  <2>3. inode \in [Node -> Inode]
    BY <2>1, <2>2 DEF FilesInit
  <2> QED BY <2>3 DEF FilesInit, Halts
<1>2. /\ files \in Tables /\ files[initproc].pwd = root
      /\ \A p \in Procs : p # initproc => files[p].pwd = NONE
      /\ \A p \in Procs, i \in Fd : files[p].fd[i] = NONE
  <2>1. NoFiles \in Table /\ [NoFiles EXCEPT !.pwd = root] \in Table
    BY Constants DEF NoFiles, Table
  <2>2. /\ [NoFiles EXCEPT !.pwd = root].pwd = root /\ NoFiles.pwd = NONE
        /\ \A i \in Fd : [NoFiles EXCEPT !.pwd = root].fd[i] = NONE /\ NoFiles.fd[i] = NONE
    BY DEF NoFiles
  <2>3. \A p \in Procs : files[p] = IF p = initproc THEN [NoFiles EXCEPT !.pwd = root] ELSE NoFiles
    BY DEF FilesInit, Procs
  <2>4. files \in Tables
    BY <2>1 DEF FilesInit, Tables, Table, Procs
  <2> QED BY <2>2, <2>3, <2>4, Constants
<1>3. Tidy(files)
  BY <1>2 DEF Tidy
<1>4. ASSUME NEW n \in Node
      PROVE  Cardinality(FdsOf(files, n)) = 0
             /\ Cardinality(CwdsOf(files, n)) = IF n = root THEN 1 ELSE 0
  <2>1. FdsOf(files, n) = {}
    BY <1>2, Constants DEF FdsOf
  <2>2. CwdsOf(files, n) = IF n = root THEN {initproc} ELSE {}
    BY <1>2, Constants DEF CwdsOf
  <2> QED BY <2>1, <2>2, FS_EmptySet, FS_Singleton
<1>5. ASSUME NEW n \in Node
      PROVE  Fits(inode[n], n, RefsOf(files, lost)[n], OpensOf(files)[n])
  <2>1. /\ OpensOf(files)[n] = 0
        /\ RefsOf(files, lost)[n] = Base(n) + IF n = root THEN 1 ELSE 0
    BY <1>1, <1>2, <1>4, CountFacts
  <2>2. inode[n] = IF n = root THEN [ref |-> 2, open |-> 0, reclaim |-> 1, dirty |-> FALSE]
                   ELSE IF n \in Device THEN [NoInode EXCEPT !.ref = 1] ELSE NoInode
    BY DEF FilesInit
  <2>3. CASE n = root
    BY <2>1, <2>2, <2>3 DEF Base, Fits
  <2>4. CASE n # root /\ n \in Device
    BY <2>1, <2>2, <2>4 DEF Base, Fits, NoInode
  <2>5. CASE n # root /\ n \notin Device
    BY <2>1, <2>2, <2>5 DEF Base, Fits, NoInode
  <2> QED BY <2>3, <2>4, <2>5
<1>6. Sound(Now, files, lost)
  BY <1>1, <1>2, <1>5 DEF Sound, Counted, Now, Rec
<1> QED BY <1>1, <1>2, <1>3, <1>6 DEF FilesInv

LEMMA FilesNextInv ==
    ASSUME FilesInv, [FilesNext]_filesVars
    PROVE  FilesInv'
<1>1. CASE UNCHANGED filesVars
  BY <1>1 DEF filesVars, FilesInv, Now, Running
<1>2. ASSUME NEW q \in Proc, do_fork(initproc, q) PROVE FilesInv'
  BY <1>2, ForkKeeps, Constants
<1>3. ASSUME NEW p \in Proc, NEW n \in Node, NEW flags \in Modes, NEW empty \in BOOLEAN,
             file_open(p, n, flags, empty)
      PROVE  FilesInv'
  BY <1>3, OpenKeeps, Constants
<1>4. ASSUME NEW p \in Proc, NEW flags \in Modes, file_create(p, flags) PROVE FilesInv'
  BY <1>4, CreateKeeps, Constants
<1>5. ASSUME NEW p \in Proc, NEW i \in Fd, file_close(p, i) \/ file_write(p, i) \/ file_fsync(p, i)
      PROVE  FilesInv'
  BY <1>5, CloseKeeps, FileWriteKeeps, FsyncKeeps, Constants
<1>6. ASSUME NEW p \in Proc, NEW i \in Fd, NEW j \in Fd, file_dup(p, i, j) PROVE FilesInv'
  BY <1>6, DupKeeps, Constants
<1>7. ASSUME NEW p \in Proc, NEW n \in Node, vfs_chdir(p, n) \/ do_execve(p, n) PROVE FilesInv'
  BY <1>7, ChdirKeeps, ExecKeeps, Constants
<1>8. ASSUME NEW p \in Proc, vfs_getcwd(p) \/ do_exit(p) \/ ExecNothing(p) PROVE FilesInv'
  BY <1>8, GetcwdKeeps, ExitKeeps, ExecNothingKeeps, Constants
<1>9. ASSUME NEW p \in Proc, NEW q \in Proc, do_fork(p, q) PROVE FilesInv'
  BY <1>9, ForkKeeps, Constants
<1>10. ASSUME FilesNext PROVE FilesInv'
  <2>1. ASSUME NEW flags, NEW empty \in IF flags \cap {"O_TRUNC", "O_CREAT"} = {} THEN {TRUE} ELSE BOOLEAN
        PROVE  empty \in BOOLEAN
    OBVIOUS
  <2>2. CASE \E p \in Proc, n \in Node, flags \in Modes :
               \E empty \in IF flags \cap {"O_TRUNC", "O_CREAT"} = {} THEN {TRUE} ELSE BOOLEAN :
                 file_open(p, n, flags, empty)
    <3>1. PICK p \in Proc, n \in Node, flags \in Modes :
                 \E empty \in IF flags \cap {"O_TRUNC", "O_CREAT"} = {} THEN {TRUE} ELSE BOOLEAN :
                   file_open(p, n, flags, empty)
      BY <2>2, Zenon
    <3>2. PICK empty \in BOOLEAN : file_open(p, n, flags, empty)
      BY <2>1, <3>1, Zenon
    <3> QED BY <1>3, <3>2, Zenon
  <2>3. CASE \/ \E q \in Proc : do_fork(initproc, q)
             \/ \E p \in Proc :
                  \/ \E flags \in Modes : file_create(p, flags)
                  \/ \E i \in Fd : file_close(p, i) \/ file_write(p, i) \/ file_fsync(p, i)
                  \/ \E i, j \in Fd : file_dup(p, i, j)
                  \/ \E n \in Node : vfs_chdir(p, n) \/ do_execve(p, n)
                  \/ vfs_getcwd(p)
                  \/ \E q \in Proc : do_fork(p, q)
                  \/ do_exit(p)
                  \/ ExecNothing(p)
    BY <1>2, <1>4, <1>5, <1>6, <1>7, <1>8, <1>9, <2>3, Zenon
  <2> QED BY <1>10, <2>2, <2>3, Zenon DEF FilesNext
<1> QED BY <1>1, <1>10

\* The tables of the processes and what is in memory agree, in every reachable state.
THEOREM FilesInvCorrect == FilesSpec => []FilesInv
<1>1. FilesInit => FilesInv
  BY FilesInitInv
<1>2. FilesInv /\ [FilesNext]_filesVars => FilesInv'
  BY FilesNextInv
<1> QED BY <1>1, <1>2, PTL DEF FilesSpec

\* The asserts about ref_count, open_count and reclaim_count hold.
THEOREM ReferencesCorrect == FilesSpec => []ReferencesCounted
<1>1. ASSUME FilesInv PROVE ReferencesCounted
  <2>1. FilesTypeOK /\ halted \in {"ok", "vop_create", "vop_truncate", "vop_tryseek"}
    BY <1>1 DEF FilesInv, FilesTypeOK, Inode, Tables, Halts
  <2>2. ASSUME Running, NEW n \in Node
        PROVE  /\ inode[n].ref =
                    Base(n) + Cardinality(Descriptors(n)) + Cardinality(Cwds(n)) + lost[n]
               /\ inode[n].open = Cardinality(Descriptors(n))
               /\ n \notin Device => inode[n].reclaim = IF inode[n].ref > 0 THEN 1 ELSE 0
    <3>1. Fits(inode[n], n, RefsOf(files, lost)[n], OpensOf(files)[n])
      BY <1>1, <2>2 DEF FilesInv, Sound, Counted, Now, Ok, Running
    <3>2. FdsOf(files, n) = Descriptors(n) /\ CwdsOf(files, n) = Cwds(n)
      BY DEF FdsOf, CwdsOf, Descriptors, Cwds
    <3>3. /\ RefsOf(files, lost)[n] =
               Base(n) + Cardinality(Descriptors(n)) + Cardinality(Cwds(n)) + lost[n]
          /\ OpensOf(files)[n] = Cardinality(Descriptors(n))
      BY <3>2 DEF RefsOf, OpensOf
    <3> QED BY <3>1, <3>3 DEF Fits
  <2> QED BY <2>1, <2>2 DEF ReferencesCounted
<1> QED BY <1>1, FilesInvCorrect, PTL

\* No inode that is only in memory, or open by nobody, waits to be written.
THEOREM CleanCorrect == FilesSpec => []CleanWhenClosed
<1>1. ASSUME FilesInv PROVE CleanWhenClosed
  <2>1. ASSUME Running, NEW n \in Node, inode[n].dirty PROVE inode[n].open > 0
    <3>1. Fits(inode[n], n, RefsOf(files, lost)[n], OpensOf(files)[n])
      BY <1>1, <2>1 DEF FilesInv, Sound, Counted, Now, Ok, Running
    <3> QED BY <2>1, <3>1 DEF Fits
  <2> QED BY <2>1 DEF CleanWhenClosed
<1> QED BY <1>1, FilesInvCorrect, PTL

-----------------------------------------------------------------------------
(***************************************************************************)
(* Proofs about StdIn, for any readers, any size of the ring and any       *)
(* amount of typing: no reader sleeps beside characters, and the ring with *)
(* its two offsets is the queue that Keyboard promises.                    *)
(***************************************************************************)
B == STDIN_BUFSIZE

Char == 1 .. MaxTyped

\* The ring between its offsets: what has been typed and not read.
RingInv ==
    /\ typed \in 0 .. MaxTyped
    /\ stdin_buffer \in [Slots -> 0 .. MaxTyped]
    /\ p_rpos \in Nat /\ p_wpos \in Nat
    /\ p_rpos <= p_wpos /\ p_wpos <= p_rpos + B
    /\ \A k \in p_rpos .. p_wpos - 1 : stdin_buffer[k % B] \in Char

\* Who waits, and for what.
QueueInv ==
    /\ queue \in Seq(Reader)
    /\ \A i \in DOMAIN queue : Reading(queue[i])
    /\ \A i, j \in DOMAIN queue : queue[i] = queue[j] => i = j
    /\ \A r \in Reader : Asleep(r) => p_rpos = p_wpos /\ \E i \in DOMAIN queue : queue[i] = r

ReaderInv ==
    /\ wait_state \in [Reader -> {"0", "WT_KBD"}]
    /\ wakeup_flags \in [Reader -> {"none", "WT_INTERRUPTED", "WT_KBD"}]
    /\ len \in [Reader -> 0 .. MaxLen]
    /\ buf \in [Reader -> Seq(Char)]
    /\ killed \in [Reader -> BOOLEAN]

StdInInv == RingInv /\ QueueInv /\ ReaderInv

-----------------------------------------------------------------------------
\* A multiple of b is at least b, or at most 0.
LEMMA Multiple ==
    ASSUME NEW b \in Nat \ {0}, NEW d \in Int
    PROVE  (d >= 1 => b * d >= b) /\ (d <= 0 => b * d <= 0) /\ b * d \in Int
<1>1. CASE d >= 1
  <2>1. PICK e \in Nat : d = 1 + e
    BY <1>1
  <2>2. b * d = b + b * e /\ b * e >= 0
    BY <2>1
  <2> QED BY <1>1, <2>2
<1>2. CASE d <= 0
  <2>1. PICK e \in Nat : d = -e
    BY <1>2
  <2>2. b * d = -(b * e) /\ b * e >= 0
    BY <2>1
  <2> QED BY <1>2, <2>2
<1> QED BY <1>1, <1>2

\* Offsets nearer than the size of the ring have different slots.
LEMMA SlotsDiffer ==
    ASSUME NEW k \in Nat, NEW l \in Nat, k < l, l < k + B
    PROVE  k % B # l % B
<1>1. B \in Nat \ {0}
  BY StdInAssumption DEF B
<1> HIDE DEF B
<1>2. /\ k = B * (k \div B) + (k % B) /\ l = B * (l \div B) + (l % B)
      /\ k % B \in 0 .. B - 1 /\ l % B \in 0 .. B - 1 /\ (k \div B) \in Int /\ (l \div B) \in Int
  BY <1>1
<1>3. PICK c \in Int, d \in Int : k = B * c + (k % B) /\ l = B * d + (l % B)
  BY <1>2
<1>4. SUFFICES ASSUME k % B = l % B PROVE FALSE
  OBVIOUS
<1>5. B * (d - c) = B * d - B * c
  BY <1>1
<1>6. l - k = B * (d - c)
  BY <1>1, <1>2, <1>3, <1>4, <1>5
<1> QED BY <1>1, <1>6, Multiple

\* Once around the ring is the same slot.
LEMMA SlotsRepeat ==
    ASSUME NEW k \in Nat
    PROVE  k % B \in Slots /\ (k + B) % B = k % B
<1>1. B \in Nat \ {0}
  BY StdInAssumption DEF B
<1> HIDE DEF B
<1>2. /\ k = B * (k \div B) + (k % B) /\ k + B = B * ((k + B) \div B) + ((k + B) % B)
      /\ k % B \in 0 .. B - 1 /\ (k + B) % B \in 0 .. B - 1
      /\ (k \div B) \in Int /\ ((k + B) \div B) \in Int
  BY <1>1
<1>3. PICK c \in Int, d \in Int, x \in 0 .. B - 1, y \in 0 .. B - 1 :
        /\ k = B * c + x /\ k + B = B * d + y
        /\ x = k % B /\ y = (k + B) % B
  BY <1>2
<1>4. B * (d - c - 1) = B * d - B * c - B /\ B * (1 + c - d) = B * c - B * d + B
  BY <1>1
<1>5. B * (d - c - 1) = x - y /\ B * (1 + c - d) = y - x
  BY <1>1, <1>3, <1>4
<1>6. d - c - 1 = 0
  <2>1. ~(d - c - 1 >= 1)
    BY <1>1, <1>5, Multiple
  <2>2. ~(1 + c - d >= 1)
    BY <1>1, <1>5, Multiple
  <2> QED BY <2>1, <2>2
<1>7. x = y
  <2>1. B * (d - c - 1) = 0
    BY <1>1, <1>6
  <2> QED BY <1>5, <2>1
<1> QED BY <1>1, <1>3, <1>7 DEF Slots, B

\* The characters of a ring from an offset on, as a sequence.
Ring(ring, rpos, n) == [i \in 1 .. n |-> ring[(rpos + i - 1) % B]]

LEMMA RingIsSeq ==
    ASSUME NEW ring, NEW rpos \in Nat, NEW n \in Nat, NEW S,
           \A k \in rpos .. rpos + n - 1 : ring[k % B] \in S
    PROVE  /\ Ring(ring, rpos, n) \in Seq(S)
           /\ Len(Ring(ring, rpos, n)) = n
           /\ \A i \in 1 .. n : Ring(ring, rpos, n)[i] = ring[(rpos + i - 1) % B]
<1>1. \A i \in 1 .. n : ring[(rpos + i - 1) % B] \in S
  OBVIOUS
<1>2. Ring(ring, rpos, n) \in [1 .. n -> S]
  BY <1>1 DEF Ring
<1>3. Ring(ring, rpos, n) \in Seq(S)
  BY <1>2, SeqDef
<1>4. DOMAIN Ring(ring, rpos, n) = 1 .. n
  BY DEF Ring
<1>5. Len(Ring(ring, rpos, n)) = n
  BY <1>3, <1>4, LenProperties
<1> QED BY <1>3, <1>5 DEF Ring

\* The queue without one of its members: the others stay, once each.
LEMMA OthersFacts ==
    ASSUME QueueInv, NEW r \in Reader
    PROVE  /\ Others(r) \in Seq(Reader)
           /\ \A i \in DOMAIN Others(r) : Others(r)[i] # r
           /\ \A i \in DOMAIN Others(r) : \E j \in DOMAIN queue : Others(r)[i] = queue[j]
           /\ \A i, j \in DOMAIN Others(r) : Others(r)[i] = Others(r)[j] => i = j
           /\ \A j \in DOMAIN queue : queue[j] # r => \E i \in DOMAIN Others(r) : Others(r)[i] = queue[j]
<1>1. /\ queue \in Seq(Reader) /\ Len(queue) \in Nat /\ DOMAIN queue = 1 .. Len(queue)
      /\ \A i, j \in DOMAIN queue : queue[i] = queue[j] => i = j
      /\ \A i \in DOMAIN queue : queue[i] \in Reader
  BY LenProperties, ElementOfSeq DEF QueueInv
<1>2. CASE ~\E i \in 1 .. Len(queue) : queue[i] = r
  <2>1. Others(r) = queue
    BY <1>2 DEF Others, RemoveFirst
  <2> QED BY <1>1, <1>2, <2>1
<1>3. ASSUME NEW m \in 1 .. Len(queue), queue[m] = r
      PROVE  /\ Others(r) \in Seq(Reader) /\ Len(Others(r)) = Len(queue) - 1
             /\ \A i \in 1 .. Len(queue) - 1 : Others(r)[i] = queue[IF i < m THEN i ELSE i + 1]
  <2>1. {j \in 1 .. Len(queue) : queue[j] = r} = {m}
    BY <1>1, <1>3
  <2>2. Min({j \in 1 .. Len(queue) : queue[j] = r}) = m
    BY <2>1 DEF Min
  <2>3. SelectInSeq(queue, LAMBDA v : v = r) = Min({j \in 1 .. Len(queue) : queue[j] = r})
    BY <2>1 DEF SelectInSeq
  <2>4. Others(r) = SubSeq(queue, 1, m - 1) \o SubSeq(queue, m + 1, Len(queue))
    BY <1>3, <2>2, <2>3 DEF Others, RemoveFirst, RemoveAt
  <2>5. PICK s, t : s = SubSeq(queue, 1, m - 1) /\ t = SubSeq(queue, m + 1, Len(queue))
    OBVIOUS
  <2>6. /\ s \in Seq(Reader) /\ Len(s) = m - 1 /\ \A i \in 1 .. m - 1 : s[i] = queue[i]
    <3>1. \A i \in 1 .. m - 1 : queue[i] \in Reader
      BY <1>1
    <3>2. /\ s \in Seq(Reader) /\ Len(s) = IF 1 <= m - 1 THEN m - 1 - 1 + 1 ELSE 0
          /\ \A i \in 1 .. m - 1 - 1 + 1 : s[i] = queue[1 + i - 1]
      BY <1>1, <2>5, <3>1, SubSeqProperties
    <3> QED BY <1>1, <3>2
  <2>7. /\ t \in Seq(Reader) /\ Len(t) = Len(queue) - m
        /\ \A i \in 1 .. Len(queue) - m : t[i] = queue[m + i]
    <3>1. \A i \in m + 1 .. Len(queue) : queue[i] \in Reader
      BY <1>1
    <3>2. /\ t \in Seq(Reader)
          /\ Len(t) = IF m + 1 <= Len(queue) THEN Len(queue) - (m + 1) + 1 ELSE 0
          /\ \A i \in 1 .. Len(queue) - (m + 1) + 1 : t[i] = queue[m + 1 + i - 1]
      BY <1>1, <2>5, <3>1, SubSeqProperties
    <3>3. Len(t) = Len(queue) - m
      <4>1. PICK n \in Nat : n = Len(queue)
        BY <1>1
      <4>2. Len(t) = IF m + 1 <= n THEN n - (m + 1) + 1 ELSE 0
        BY <3>2, <4>1
      <4>3. m \in 1 .. n
        BY <4>1
      <4>4. Len(t) = n - m
        BY <4>2, <4>3
      <4> QED BY <4>1, <4>4
    <3>4. ASSUME NEW i \in 1 .. Len(queue) - m PROVE t[i] = queue[m + i]
      <4>1. i \in 1 .. Len(queue) - (m + 1) + 1 /\ m + 1 + i - 1 = m + i
        BY <1>1
      <4> QED BY <3>2, <4>1
    <3> QED BY <3>2, <3>3, <3>4
  <2>8. /\ s \o t \in Seq(Reader) /\ Len(s \o t) = Len(queue) - 1
        /\ \A i \in 1 .. Len(queue) - 1 : (s \o t)[i] = IF i <= m - 1 THEN s[i] ELSE t[i - (m - 1)]
    <3>1. Len(s) + Len(t) = Len(queue) - 1 /\ Len(s) = m - 1
      BY <1>1, <2>6, <2>7
    <3>2. /\ s \o t \in Seq(Reader) /\ Len(s \o t) = Len(s) + Len(t)
          /\ \A i \in 1 .. Len(s) + Len(t) :
               (s \o t)[i] = IF i <= Len(s) THEN s[i] ELSE t[i - Len(s)]
      BY <2>6, <2>7, ConcatProperties
    <3> QED BY <3>1, <3>2
  <2>9. ASSUME NEW i \in 1 .. Len(queue) - 1
        PROVE  (s \o t)[i] = queue[IF i < m THEN i ELSE i + 1]
    <3>1. CASE i < m
      BY <1>1, <2>6, <2>8, <3>1
    <3>2. CASE ~(i < m)
      <4>1. i - (m - 1) \in 1 .. Len(queue) - m /\ m + (i - (m - 1)) = i + 1
        BY <1>1, <3>2
      <4>2. (s \o t)[i] = t[i - (m - 1)]
        BY <1>1, <2>8, <3>2
      <4> QED BY <2>7, <3>2, <4>1, <4>2
    <3> QED BY <3>1, <3>2
  <2> QED BY <2>4, <2>5, <2>8, <2>9
<1>4. CASE \E i \in 1 .. Len(queue) : queue[i] = r
  <2>1. PICK m \in 1 .. Len(queue) : queue[m] = r
    BY <1>4
  <2>2. PICK q : q = Others(r)
    OBVIOUS
  <2>3. /\ q \in Seq(Reader) /\ DOMAIN q = 1 .. Len(queue) - 1
        /\ \A i \in 1 .. Len(queue) - 1 : q[i] = queue[IF i < m THEN i ELSE i + 1]
    BY <1>3, <2>1, <2>2, LenProperties
  <2>4. ASSUME NEW j \in DOMAIN queue, queue[j] # r
        PROVE  \E i \in DOMAIN q : q[i] = queue[j]
    <3>1. j < m \/ (j > m /\ j - 1 \in DOMAIN q /\ ~(j - 1 < m) /\ j - 1 + 1 = j)
      BY <1>1, <2>1, <2>3, <2>4
    <3> QED BY <1>1, <2>3, <3>1
  <2>7. \A i \in DOMAIN q : \E j \in DOMAIN queue :
           i \in Int /\ q[i] = queue[j] /\ j # m /\ j = IF i < m THEN i ELSE i + 1
    BY <1>1, <2>3
  <2>5. \A i \in DOMAIN q : q[i] # r /\ \E j \in DOMAIN queue : q[i] = queue[j]
    BY <1>1, <2>1, <2>7
  <2>6. ASSUME NEW i \in DOMAIN q, NEW j \in DOMAIN q, q[i] = q[j]
        PROVE  i = j
    <3>1. PICK k \in DOMAIN queue : i \in Int /\ q[i] = queue[k] /\ k = IF i < m THEN i ELSE i + 1
      BY <2>7
    <3>2. PICK l \in DOMAIN queue : j \in Int /\ q[j] = queue[l] /\ l = IF j < m THEN j ELSE j + 1
      BY <2>7
    <3>3. k = l
      BY <1>1, <2>6, <3>1, <3>2
    <3> QED BY <3>1, <3>2, <3>3
  <2> QED BY <2>2, <2>3, <2>4, <2>5, <2>6
<1> QED BY <1>2, <1>4

\* The first k characters of a ring, and the others.
LEMMA RingSplits ==
    ASSUME NEW ring, NEW rpos \in Nat, NEW n \in Nat, NEW k \in 0 .. n, NEW S,
           \A j \in rpos .. rpos + n - 1 : ring[j % B] \in S
    PROVE  /\ Ring(ring, rpos, k) = SubSeq(Ring(ring, rpos, n), 1, k)
           /\ Ring(ring, rpos + k, n - k) = SubSeq(Ring(ring, rpos, n), k + 1, n)
<1>1. PICK all : all = Ring(ring, rpos, n)
  OBVIOUS
<1>2. /\ all \in Seq(S) /\ Len(all) = n /\ n - k \in Nat /\ rpos + k \in Nat /\ k \in Nat
      /\ \A i \in 1 .. n : all[i] = ring[(rpos + i - 1) % B]
      /\ \A i \in 1 .. n : all[i] \in S
  <2>1. /\ all \in Seq(S) /\ Len(all) = n
        /\ \A i \in 1 .. n : all[i] = ring[(rpos + i - 1) % B]
    BY <1>1, RingIsSeq
  <2>2. \A i \in 1 .. n : all[i] \in S
    BY <2>1, ElementOfSeq
  <2> QED BY <2>1, <2>2
<1>3. Ring(ring, rpos, k) = SubSeq(all, 1, k)
  <2>1. PICK s : s = Ring(ring, rpos, k)
    OBVIOUS
  <2>2. s \in Seq(S) /\ Len(s) = k /\ \A i \in 1 .. k : s[i] = ring[(rpos + i - 1) % B]
    <3>1. \A j \in rpos .. rpos + k - 1 : ring[j % B] \in S
      OBVIOUS
    <3> QED BY <1>2, <2>1, <3>1, RingIsSeq
  <2>3. PICK t : t = SubSeq(all, 1, k)
    OBVIOUS
  <2>4. t \in Seq(S) /\ Len(t) = k /\ \A i \in 1 .. k : t[i] = all[i]
    <3>1. \A i \in 1 .. k : all[i] \in S
      BY <1>2
    <3>2. /\ t \in Seq(S) /\ Len(t) = IF 1 <= k THEN k - 1 + 1 ELSE 0
          /\ \A i \in 1 .. k - 1 + 1 : t[i] = all[1 + i - 1]
      BY <1>2, <2>3, <3>1, SubSeqProperties
    <3>3. k \in Nat /\ k - 1 + 1 = k /\ (1 <= k \/ k = 0)
      BY <1>2
    <3>4. Len(t) = k
      BY <3>2, <3>3
    <3>5. ASSUME NEW i \in 1 .. k PROVE t[i] = all[i]
      <4>1. i \in 1 .. k - 1 + 1 /\ 1 + i - 1 = i
        BY <3>3
      <4> QED BY <3>2, <4>1
    <3> QED BY <3>2, <3>4, <3>5
  <2>5. ASSUME NEW i \in 1 .. k PROVE s[i] = t[i]
    <3>1. i \in 1 .. n
      BY <1>2
    <3> QED BY <1>2, <2>2, <2>4, <3>1
  <2> QED BY <2>1, <2>2, <2>3, <2>4, <2>5, SeqEqual
<1>4. Ring(ring, rpos + k, n - k) = SubSeq(all, k + 1, n)
  <2>1. PICK s : s = Ring(ring, rpos + k, n - k)
    OBVIOUS
  <2>2. /\ s \in Seq(S) /\ Len(s) = n - k
        /\ \A i \in 1 .. n - k : s[i] = ring[(rpos + k + i - 1) % B]
    <3>1. (rpos + k) + (n - k) - 1 = rpos + n - 1
      OBVIOUS
    <3>2. \A j \in rpos + k .. rpos + n - 1 : j \in rpos .. rpos + n - 1
      OBVIOUS
    <3>3. \A j \in rpos + k .. (rpos + k) + (n - k) - 1 : ring[j % B] \in S
      BY <3>1, <3>2
    <3>4. rpos + k \in Nat /\ n - k \in Nat
      BY <1>2
    <3>5. /\ Ring(ring, rpos + k, n - k) \in Seq(S)
         /\ Len(Ring(ring, rpos + k, n - k)) = n - k
         /\ \A i \in 1 .. n - k : Ring(ring, rpos + k, n - k)[i] = ring[(rpos + k + i - 1) % B]
      BY <3>3, <3>4, RingIsSeq
    <3> QED BY <2>1, <3>5
  <2>3. PICK t : t = SubSeq(all, k + 1, n)
    OBVIOUS
  <2>4. t \in Seq(S) /\ Len(t) = n - k /\ \A i \in 1 .. n - k : t[i] = all[k + i]
    <3>1. \A i \in k + 1 .. n : all[i] \in S
      BY <1>2
    <3>2. /\ t \in Seq(S) /\ Len(t) = IF k + 1 <= n THEN n - (k + 1) + 1 ELSE 0
          /\ \A i \in 1 .. n - (k + 1) + 1 : t[i] = all[k + 1 + i - 1]
      BY <1>2, <2>3, <3>1, SubSeqProperties
    <3>3. ASSUME NEW i \in 1 .. n - k PROVE t[i] = all[k + i]
      <4>1. i \in 1 .. n - (k + 1) + 1 /\ k + 1 + i - 1 = k + i
        OBVIOUS
      <4> QED BY <3>2, <4>1
    <3> QED BY <1>2, <3>2, <3>3
  <2>5. ASSUME NEW i \in 1 .. n - k PROVE s[i] = t[i]
    <3>1. k + i \in 1 .. n /\ rpos + (k + i) - 1 = rpos + k + i - 1
      OBVIOUS
    <3>2. all[k + i] = ring[(rpos + (k + i) - 1) % B]
      BY <1>2, <3>1
    <3> QED BY <2>2, <2>4, <3>1, <3>2
  <2> QED BY <2>1, <2>2, <2>3, <2>4, <2>5, SeqEqual
<1> QED BY <1>1, <1>3, <1>4

\* What a character does to the ring, as a sequence: it comes last, or, when the ring is
\* full, takes the place of the first.
LEMMA StoreStep ==
    ASSUME RingInv, NEW c \in Char, Store(c)
    PROVE  /\ p_wpos' \in Nat /\ p_rpos <= p_wpos' /\ p_wpos' <= p_rpos + B /\ p_rpos < p_wpos'
           /\ stdin_buffer' \in [Slots -> 0 .. MaxTyped]
           /\ \A k \in p_rpos .. p_wpos' - 1 : stdin_buffer'[k % B] \in Char
           /\ LET pending == Ring(stdin_buffer, p_rpos, p_wpos - p_rpos)
              IN  Ring(stdin_buffer', p_rpos, p_wpos' - p_rpos) =
                    IF Len(pending) < B THEN Append(pending, c) ELSE [pending EXCEPT ![1] = c]
<1>1. /\ p_rpos \in Nat /\ p_wpos \in Nat /\ p_rpos <= p_wpos /\ p_wpos <= p_rpos + B
      /\ B \in Nat \ {0} /\ MaxTyped \in Nat
      /\ stdin_buffer \in [Slots -> 0 .. MaxTyped]
      /\ \A k \in p_rpos .. p_wpos - 1 : stdin_buffer[k % B] \in Char
      /\ stdin_buffer' = [stdin_buffer EXCEPT ![p_wpos % B] = c]
      /\ p_wpos' = IF p_wpos - p_rpos < B THEN p_wpos + 1 ELSE p_wpos
      /\ Char \subseteq 0 .. MaxTyped
  BY StdInAssumption DEF RingInv, Store, B, Char
<1> HIDE DEF B
<1>2. p_wpos % B \in Slots /\ stdin_buffer'[p_wpos % B] = c
  BY <1>1, SlotsRepeat
<1>3. ASSUME NEW k \in p_rpos .. p_wpos - 1, k # p_wpos - B
      PROVE  stdin_buffer'[k % B] = stdin_buffer[k % B]
  <2>1. k \in Nat /\ k < p_wpos /\ p_wpos < k + B
    BY <1>1, <1>3
  <2>2. k % B # p_wpos % B /\ k % B \in Slots
    BY <1>1, <2>1, SlotsDiffer, SlotsRepeat
  <2> QED BY <1>1, <2>2
<1>4. PICK n \in Nat : n = p_wpos - p_rpos /\ n <= B
  BY <1>1
<1>5. PICK pending : pending = Ring(stdin_buffer, p_rpos, n)
  OBVIOUS
<1>6. /\ pending \in Seq(Char) /\ Len(pending) = n
      /\ \A i \in 1 .. n : pending[i] = stdin_buffer[(p_rpos + i - 1) % B]
  <2>0. p_rpos + n - 1 = p_wpos - 1
    BY <1>1, <1>4
  <2>1. \A k \in p_rpos .. p_rpos + n - 1 : stdin_buffer[k % B] \in Char
    BY <1>1, <2>0
  <2>2. p_rpos \in Nat
    BY <1>1
  <2>3. /\ Ring(stdin_buffer, p_rpos, n) \in Seq(Char)
       /\ Len(Ring(stdin_buffer, p_rpos, n)) = n
       /\ \A i \in 1 .. n : Ring(stdin_buffer, p_rpos, n)[i] = stdin_buffer[(p_rpos + i - 1) % B]
    BY <2>1, <2>2, RingIsSeq
  <2> QED BY <1>5, <2>3
<1>7. CASE n < B
  <2>1. p_wpos' = p_wpos + 1 /\ p_wpos' - p_rpos = n + 1
    BY <1>1, <1>4, <1>7
  <2>2. ASSUME NEW k \in p_rpos .. p_wpos - 1
        PROVE  stdin_buffer'[k % B] = stdin_buffer[k % B]
    <3>1. k # p_wpos - B
      BY <1>1, <1>4, <1>7
    <3> QED BY <1>3, <3>1
  <2>3. \A k \in p_rpos .. p_wpos : stdin_buffer'[k % B] \in Char
    <3>1. \A k \in p_rpos .. p_wpos : k = p_wpos \/ k \in p_rpos .. p_wpos - 1
      BY <1>1
    <3> QED BY <1>1, <1>2, <2>2, <3>1
  <2>4. PICK after : after = Ring(stdin_buffer', p_rpos, n + 1)
    OBVIOUS
  <2>5. /\ after \in Seq(Char) /\ Len(after) = n + 1
        /\ \A i \in 1 .. n + 1 : after[i] = stdin_buffer'[(p_rpos + i - 1) % B]
    <3>1. p_rpos + (n + 1) - 1 = p_wpos
      BY <1>1, <1>4
    <3>2. \A k \in p_rpos .. p_rpos + (n + 1) - 1 : stdin_buffer'[k % B] \in Char
      BY <2>3, <3>1
    <3>3. p_rpos \in Nat /\ n + 1 \in Nat
      BY <1>1
    <3>4. /\ Ring(stdin_buffer', p_rpos, n + 1) \in Seq(Char)
         /\ Len(Ring(stdin_buffer', p_rpos, n + 1)) = n + 1
         /\ \A i \in 1 .. n + 1 : Ring(stdin_buffer', p_rpos, n + 1)[i] = stdin_buffer'[(p_rpos + i - 1) % B]
      BY <3>2, <3>3, RingIsSeq
    <3> QED BY <2>4, <3>4
  <2>6. /\ Append(pending, c) \in Seq(Char) /\ Len(Append(pending, c)) = n + 1
        /\ \A i \in 1 .. n : Append(pending, c)[i] = pending[i]
        /\ Append(pending, c)[n + 1] = c
    BY <1>6, AppendProperties
  <2>7. ASSUME NEW i \in 1 .. n + 1 PROVE after[i] = Append(pending, c)[i]
    <3>0. i = n + 1 \/ i \in 1 .. n
      OBVIOUS
    <3>1. CASE i = n + 1
      <4>1. p_rpos + i - 1 = p_wpos
        BY <1>1, <1>4, <3>1
      <4> QED BY <1>2, <2>5, <2>6, <3>1, <4>1
    <3>2. CASE i \in 1 .. n
      <4>1. p_rpos + i - 1 \in p_rpos .. p_wpos - 1
        BY <1>1, <1>4, <3>2
      <4>2. after[i] = stdin_buffer'[(p_rpos + i - 1) % B]
        BY <2>5
      <4>3. pending[i] = stdin_buffer[(p_rpos + i - 1) % B]
        BY <1>6, <3>2
      <4>4. stdin_buffer'[(p_rpos + i - 1) % B] = stdin_buffer[(p_rpos + i - 1) % B]
        BY <2>2, <4>1
      <4> QED BY <2>6, <3>2, <4>2, <4>3, <4>4
    <3> QED BY <3>0, <3>1, <3>2
  <2>8. after = Append(pending, c)
    BY <2>5, <2>6, <2>7, SeqEqual
  <2>9. \A k \in p_rpos .. p_wpos' - 1 : stdin_buffer'[k % B] \in Char
    <3>1. p_wpos' - 1 = p_wpos
      BY <1>1, <2>1
    <3> QED BY <2>3, <3>1
  <2>10. stdin_buffer' \in [Slots -> 0 .. MaxTyped]
    BY <1>1
  <2>11. p_wpos' \in Nat /\ p_rpos <= p_wpos' /\ p_wpos' <= p_rpos + B /\ p_rpos < p_wpos'
    BY <1>1, <1>4, <1>7, <2>1
  <2>12. n = p_wpos - p_rpos
    BY <1>4
  <2>13. Ring(stdin_buffer', p_rpos, p_wpos' - p_rpos) = Append(pending, c)
    BY <2>1, <2>4, <2>8
  <2> QED BY <1>5, <1>6, <1>7, <2>9, <2>10, <2>11, <2>12, <2>13
<1>8. CASE n = B
  <2>1. p_wpos' = p_wpos /\ p_wpos' - p_rpos = n /\ p_wpos = p_rpos + B
    BY <1>1, <1>4, <1>8
  <2>2. p_rpos % B = p_wpos % B
    BY <1>1, <2>1, SlotsRepeat
  <2>3. ASSUME NEW k \in p_rpos .. p_wpos - 1
        PROVE  stdin_buffer'[k % B] = IF k = p_rpos THEN c ELSE stdin_buffer[k % B]
    <3>1. p_wpos - B = p_rpos
      BY <1>1, <2>1
    <3>2. CASE k = p_rpos
      BY <1>2, <2>2, <3>2
    <3>3. CASE k # p_rpos
      BY <1>3, <3>1, <3>3
    <3> QED BY <3>2, <3>3
  <2>4. PICK after : after = Ring(stdin_buffer', p_rpos, n)
    OBVIOUS
  <2>5. \A k \in p_rpos .. p_wpos - 1 : stdin_buffer'[k % B] \in Char
    BY <1>1, <2>3
  <2>6. /\ after \in Seq(Char) /\ Len(after) = n
        /\ \A i \in 1 .. n : after[i] = stdin_buffer'[(p_rpos + i - 1) % B]
    <3>0. p_rpos + n - 1 = p_wpos - 1
      BY <1>1, <1>4
    <3>1. \A k \in p_rpos .. p_rpos + n - 1 : stdin_buffer'[k % B] \in Char
      BY <2>5, <3>0
    <3>2. p_rpos \in Nat
      BY <1>1
    <3>3. /\ Ring(stdin_buffer', p_rpos, n) \in Seq(Char)
         /\ Len(Ring(stdin_buffer', p_rpos, n)) = n
         /\ \A i \in 1 .. n : Ring(stdin_buffer', p_rpos, n)[i] = stdin_buffer'[(p_rpos + i - 1) % B]
      BY <3>1, <3>2, RingIsSeq
    <3> QED BY <2>4, <3>3
  <2>7. PICK changed : changed = [pending EXCEPT ![1] = c]
    OBVIOUS
  <2>8. /\ changed \in Seq(Char) /\ Len(changed) = n
        /\ \A i \in 1 .. n : changed[i] = IF i = 1 THEN c ELSE pending[i]
    <3>1. 1 \in 1 .. Len(pending)
      BY <1>1, <1>6, <1>8
    <3> QED BY <1>6, <2>7, <3>1, ExceptSeq
  <2>9. ASSUME NEW i \in 1 .. n PROVE after[i] = changed[i]
    <3>1. p_rpos + i - 1 \in p_rpos .. p_wpos - 1 /\ (p_rpos + i - 1 = p_rpos <=> i = 1)
      BY <1>1, <1>4
    <3> QED BY <1>6, <2>3, <2>6, <2>8, <3>1
  <2>10. after = changed
    BY <2>6, <2>8, <2>9, SeqEqual
  <2>11. stdin_buffer' \in [Slots -> 0 .. MaxTyped]
    BY <1>1
  <2>12. p_wpos' \in Nat /\ p_rpos <= p_wpos' /\ p_wpos' <= p_rpos + B /\ p_rpos < p_wpos'
    BY <1>1, <2>1
  <2>13. n = p_wpos - p_rpos /\ ~(Len(pending) < B)
    BY <1>1, <1>4, <1>6, <1>8
  <2>14. Ring(stdin_buffer', p_rpos, p_wpos' - p_rpos) = [pending EXCEPT ![1] = c]
    BY <2>1, <2>4, <2>7, <2>10
  <2>15. \A k \in p_rpos .. p_wpos' - 1 : stdin_buffer'[k % B] \in Char
    BY <2>1, <2>5
  <2> QED BY <1>5, <2>11, <2>12, <2>13, <2>14, <2>15
<1>9. n < B \/ n = B
  BY <1>1, <1>4
<1> QED BY <1>7, <1>8, <1>9

-----------------------------------------------------------------------------
LEMMA StdInInitInv == Init => StdInInv
<1> SUFFICES ASSUME Init PROVE StdInInv
  OBVIOUS
<1>1. RingInv
  BY StdInAssumption DEF Init, RingInv, B
<1>2. QueueInv
  BY DEF Init, QueueInv, Asleep
<1>3. ReaderInv
  BY StdInAssumption DEF Init, ReaderInv
<1> QED BY <1>1, <1>2, <1>3 DEF StdInInv

\* A key wakes everybody that waits, so nobody is asleep.
LEMMA WriteKeeps ==
    ASSUME StdInInv, dev_stdin_write
    PROVE  StdInInv'
<1>1. /\ Store(typed + 1) /\ typed' = typed + 1 /\ typed + 1 \in Char
      /\ WakeupQueue /\ UNCHANGED <<p_rpos, len, buf, killed>>
  BY StdInAssumption DEF dev_stdin_write, StdInInv, RingInv, Char
<1>2. RingInv'
  <2>1. /\ p_wpos' \in Nat /\ p_rpos <= p_wpos' /\ p_wpos' <= p_rpos + B
        /\ stdin_buffer' \in [Slots -> 0 .. MaxTyped]
        /\ \A k \in p_rpos .. p_wpos' - 1 : stdin_buffer'[k % B] \in Char
    BY <1>1, StoreStep DEF StdInInv
  <2>2. typed' \in 0 .. MaxTyped /\ p_rpos' \in Nat /\ p_rpos' = p_rpos
    BY <1>1, StdInAssumption DEF StdInInv, RingInv, Char
  <2> QED BY <2>1, <2>2 DEF RingInv, B, Slots, Char
<1>3. \A r \in Reader : ~Asleep(r)'
  BY <1>1 DEF WakeupQueue, Asleep, StdInInv, QueueInv
<1>4. QueueInv'
  BY <1>1, <1>3 DEF WakeupQueue, QueueInv
<1>5. ReaderInv'
  BY <1>1 DEF WakeupQueue, StdInInv, ReaderInv
<1> QED BY <1>2, <1>4, <1>5 DEF StdInInv

\* How much a reader takes: what it wants, or all there is.
LEMMA TakesMin ==
    ASSUME RingInv, NEW n \in 1 .. MaxLen
    PROVE  LET k == Min({n, p_wpos - p_rpos})
           IN  /\ k \in 0 .. n /\ k <= p_wpos - p_rpos
               /\ k = n \/ k = p_wpos - p_rpos
<1>1. n \in Nat /\ p_wpos - p_rpos \in Nat
  BY StdInAssumption DEF RingInv
<1>2. PICK m \in Nat : m = p_wpos - p_rpos
  BY <1>1
<1>3. \E x \in {n, m} : \A y \in {n, m} : x <= y
  BY <1>1
<1>4. Min({n, m}) \in {n, m} /\ \A y \in {n, m} : Min({n, m}) <= y
  BY <1>3 DEF Min
<1> QED BY <1>1, <1>2, <1>4

\* The loop of a reader, from where it starts or wakes up.
LEMMA ReadLoopKeeps ==
    ASSUME StdInInv, NEW r \in Reader, NEW n \in 1 .. MaxLen, NEW before \in Seq(Char),
           NEW others \in Seq(Reader),
           \A i \in DOMAIN others : others[i] # r,
           \A i \in DOMAIN others : \E j \in DOMAIN queue : others[i] = queue[j],
           \A i, j \in DOMAIN others : others[i] = others[j] => i = j,
           \A j \in DOMAIN queue : queue[j] # r => \E i \in DOMAIN others : others[i] = queue[j],
           ~Asleep(r), ReadLoop(r, n, before, others)
    PROVE  StdInInv'
<1>1. PICK k : k = Min({n, p_wpos - p_rpos})
  OBVIOUS
<1>2. /\ p_rpos \in Nat /\ p_wpos \in Nat /\ p_rpos <= p_wpos /\ p_wpos <= p_rpos + B
      /\ B \in Nat /\ MaxLen \in Nat
      /\ \A j \in p_rpos .. p_wpos - 1 : stdin_buffer[j % B] \in Char
      /\ ReaderInv /\ QueueInv
  BY StdInAssumption DEF StdInInv, RingInv, B
<1>3. k \in 0 .. n /\ n \in Nat /\ n >= 1 /\ k <= p_wpos - p_rpos /\ (k = n \/ k = p_wpos - p_rpos)
  BY <1>1, <1>2, TakesMin DEF StdInInv
<1>4. /\ buf' = [buf EXCEPT ![r] = before \o Unread(k)]
      /\ p_rpos' = p_rpos + k /\ len' = [len EXCEPT ![r] = n - k]
      /\ UNCHANGED <<typed, stdin_buffer, p_wpos, killed>>
  BY <1>1 DEF ReadLoop
<1>5. RingInv'
  <2>1. p_rpos' \in Nat /\ p_rpos' <= p_wpos' /\ p_wpos' <= p_rpos' + B
    <3>1. p_rpos' = p_rpos + k /\ p_wpos' = p_wpos
      BY <1>4
    <3>2. k \in Nat /\ k <= p_wpos - p_rpos
      BY <1>3
    <3>3. p_rpos \in Nat /\ p_wpos \in Nat /\ p_rpos <= p_wpos /\ p_wpos <= p_rpos + B /\ B \in Nat
      BY <1>2
    <3> QED BY <3>1, <3>2, <3>3
  <2>2. \A j \in p_rpos' .. p_wpos' - 1 : j \in p_rpos .. p_wpos - 1
    BY <1>2, <1>3, <1>4
  <2>3. typed' \in 0 .. MaxTyped /\ stdin_buffer' \in [Slots -> 0 .. MaxTyped] /\ p_wpos' \in Nat
    BY <1>4 DEF StdInInv, RingInv
  <2>4. \A j \in p_rpos' .. p_wpos' - 1 : stdin_buffer'[j % B] \in Char
    BY <1>2, <1>4, <2>2
  <2> QED BY <2>1, <2>3, <2>4 DEF RingInv, B, Slots, Char
<1>6. buf' \in [Reader -> Seq(Char)]
  <2>1. Ring(stdin_buffer, p_rpos, k) \in Seq(Char)
    <3>1. \A j \in p_rpos .. p_rpos + k - 1 : j \in p_rpos .. p_wpos - 1
      BY <1>2, <1>3
    <3>2. \A j \in p_rpos .. p_rpos + k - 1 : stdin_buffer[j % B] \in Char
      BY <1>2, <3>1
    <3>3. p_rpos \in Nat /\ k \in Nat
      BY <1>2, <1>3
    <3> QED BY <3>2, <3>3, RingIsSeq
  <2>2. Unread(k) = Ring(stdin_buffer, p_rpos, k)
    BY DEF Unread, Ring, B
  <2>3. before \o Unread(k) \in Seq(Char)
    BY <2>1, <2>2, ConcatProperties
  <2> QED BY <1>2, <1>4, <2>3 DEF ReaderInv
<1>7. /\ len' \in [Reader -> 0 .. MaxLen] /\ len'[r] = n - k
      /\ \A q \in Reader : q # r => len'[q] = len[q]
  BY <1>2, <1>3, <1>4 DEF ReaderInv
<1>8. ASSUME NEW i \in DOMAIN others
      PROVE  others[i] \in Reader /\ others[i] # r /\ len'[others[i]] > 0
  <2>1. others[i] \in Reader
    BY ElementOfSeq, LenProperties
  <2>2. len[others[i]] > 0
    BY <1>2 DEF QueueInv, Reading
  <2> QED BY <1>7, <2>1, <2>2
<1>9. CASE k < n
  <2>1. /\ queue' = Append(others, r)
        /\ wait_state' = [wait_state EXCEPT ![r] = "WT_KBD"]
        /\ wakeup_flags' = [wakeup_flags EXCEPT ![r] = "WT_INTERRUPTED"]
    BY <1>1, <1>9 DEF ReadLoop
  <2>2. p_rpos' = p_wpos /\ p_wpos' = p_wpos
    BY <1>2, <1>3, <1>4, <1>9
  <2>3. PICK q : q = Append(others, r)
    OBVIOUS
  <2>4. /\ q \in Seq(Reader) /\ DOMAIN q = 1 .. Len(others) + 1
        /\ Len(others) \in Nat /\ DOMAIN others = 1 .. Len(others)
        /\ \A i \in DOMAIN others : q[i] = others[i]
        /\ q[Len(others) + 1] = r
    BY <2>3, AppendProperties, LenProperties
  <2>5. \A i \in DOMAIN q : i \in DOMAIN others \/ i = Len(others) + 1
    BY <2>4
  <2>6. \A i \in DOMAIN q : len'[q[i]] > 0
    <3>1. len'[r] > 0
      BY <1>3, <1>7, <1>9
    <3> QED BY <1>8, <2>4, <2>5, <3>1
  <2>7. \A i, j \in DOMAIN q : q[i] = q[j] => i = j
    BY <2>4, <2>5
  <2>8. ASSUME NEW x \in Reader, wait_state'[x] # "0"
        PROVE  \E i \in DOMAIN q : q[i] = x
    <3>1. CASE x = r
      <4>1. Len(others) + 1 \in DOMAIN q
        BY <2>4
      <4> QED BY <2>4, <3>1, <4>1
    <3>2. CASE x # r
      <4>1. PICK j \in DOMAIN queue : queue[j] = x
        BY <1>2, <2>1, <2>8, <3>2 DEF QueueInv, Asleep, ReaderInv
      <4>2. PICK i \in DOMAIN others : others[i] = x
        BY <3>2, <4>1
      <4>3. i \in DOMAIN q
        BY <2>4
      <4> QED BY <2>4, <4>2, <4>3
    <3> QED BY <3>1, <3>2
  <2>9. QueueInv'
    BY <2>1, <2>2, <2>3, <2>4, <2>6, <2>7, <2>8 DEF QueueInv, Reading, Asleep
  <2>10. ReaderInv'
    BY <1>2, <1>4, <1>6, <1>7, <2>1 DEF ReaderInv, Char
  <2> QED BY <1>5, <2>9, <2>10 DEF StdInInv
<1>10. CASE k = n
  <2>1. /\ queue' = others /\ wait_state' = wait_state
        /\ wakeup_flags' = [wakeup_flags EXCEPT ![r] = "none"]
    BY <1>1, <1>3, <1>10 DEF ReadLoop
  <2>2. \A x \in Reader : ~Asleep(x)
    BY <1>2, <1>3, <1>10 DEF QueueInv
  <2>3. QueueInv'
    BY <1>8, <2>1, <2>2 DEF QueueInv, Reading, Asleep
  <2>4. ReaderInv'
    BY <1>2, <1>4, <1>6, <1>7, <2>1 DEF ReaderInv, Char
  <2> QED BY <1>5, <2>3, <2>4 DEF StdInInv
<1> QED BY <1>3, <1>9, <1>10

\* Where a reader comes to the loop from.
LEMMA ReadersKeep ==
    ASSUME StdInInv, NEW r \in Reader, Read(r) \/ TryAgain(r)
    PROVE  StdInInv'
<1>1. QueueInv /\ buf[r] \in Seq(Char) /\ len[r] \in 0 .. MaxLen /\ MaxLen \in Nat
  BY StdInAssumption DEF StdInInv, ReaderInv
<1>2. CASE Read(r)
  <2>1. ~Reading(r)
    BY <1>2 DEF Read
  <2>2. PICK n \in 1 .. MaxLen : ReadLoop(r, n, <<>>, queue)
    BY <1>2 DEF Read
  <2>3. ~Asleep(r) /\ \A i \in DOMAIN queue : queue[i] # r
    BY <1>1, <2>1 DEF QueueInv
  <2>4. <<>> \in Seq(Char)
    OBVIOUS
  <2> QED BY <1>1, <2>2, <2>3, <2>4, ReadLoopKeeps DEF QueueInv
<1>3. CASE TryAgain(r)
  <2>1. len[r] \in 1 .. MaxLen /\ ~Asleep(r) /\ ReadLoop(r, len[r], buf[r], Others(r))
    BY <1>1, <1>3 DEF TryAgain, Reading
  <2>2. /\ Others(r) \in Seq(Reader)
        /\ \A i \in DOMAIN Others(r) : Others(r)[i] # r
        /\ \A i \in DOMAIN Others(r) : \E j \in DOMAIN queue : Others(r)[i] = queue[j]
        /\ \A i, j \in DOMAIN Others(r) : Others(r)[i] = Others(r)[j] => i = j
        /\ \A j \in DOMAIN queue : queue[j] # r => \E i \in DOMAIN Others(r) : Others(r)[i] = queue[j]
    BY <1>1, OthersFacts
  <2> QED BY <1>1, <2>1, <2>2, ReadLoopKeeps
<1> QED BY <1>2, <1>3

LEMMA InterruptedKeeps ==
    ASSUME StdInInv, NEW r \in Reader, Interrupted(r)
    PROVE  StdInInv'
<1>1. /\ len' = [len EXCEPT ![r] = 0] /\ queue' = Others(r) /\ ~Asleep(r)
      /\ wakeup_flags' = [wakeup_flags EXCEPT ![r] = "none"]
      /\ UNCHANGED <<typed, stdin_buffer, p_rpos, p_wpos, wait_state, buf, killed>>
  BY DEF Interrupted
<1>2. PICK q : q = Others(r)
  OBVIOUS
<1>3. /\ q \in Seq(Reader)
      /\ \A i \in DOMAIN q : q[i] # r
      /\ \A i \in DOMAIN q : \E j \in DOMAIN queue : q[i] = queue[j]
      /\ \A i, j \in DOMAIN q : q[i] = q[j] => i = j
      /\ \A j \in DOMAIN queue : queue[j] # r => \E i \in DOMAIN q : q[i] = queue[j]
  BY <1>2, OthersFacts DEF StdInInv
<1>4. QueueInv'
  <2>1. len \in [Reader -> 0 .. MaxLen] /\ \A i \in DOMAIN q : q[i] \in Reader
    BY <1>3, ElementOfSeq, LenProperties DEF StdInInv, ReaderInv
  <2>2. \A i \in DOMAIN q : len'[q[i]] > 0
    BY <1>1, <1>3, <2>1 DEF StdInInv, QueueInv, Reading
  <2>3. \A x \in Reader : wait_state[x] # "0" =>
          p_rpos = p_wpos /\ \E i \in DOMAIN q : q[i] = x
    BY <1>1, <1>3 DEF StdInInv, QueueInv, Asleep
  <2> QED BY <1>1, <1>2, <1>3, <2>2, <2>3 DEF QueueInv, Reading, Asleep
<1>5. RingInv'
  BY <1>1 DEF StdInInv, RingInv, B, Slots, Char
<1>6. ReaderInv'
  BY <1>1, StdInAssumption DEF StdInInv, ReaderInv, Char
<1> QED BY <1>4, <1>5, <1>6 DEF StdInInv

\* Who is killed is awake, and still in the queue.
LEMMA KillKeeps ==
    ASSUME StdInInv, NEW r \in Reader, Kill(r)
    PROVE  StdInInv'
<1>1. /\ wait_state' = [wait_state EXCEPT ![r] = "0"] /\ killed' = [killed EXCEPT ![r] = TRUE]
      /\ UNCHANGED <<typed, stdin_buffer, p_rpos, p_wpos, queue, wakeup_flags, len, buf>>
  BY DEF Kill
<1>2. QueueInv'
  BY <1>1 DEF StdInInv, QueueInv, ReaderInv, Reading, Asleep
<1>3. RingInv'
  BY <1>1 DEF StdInInv, RingInv, B, Slots, Char
<1>4. ReaderInv'
  BY <1>1 DEF StdInInv, ReaderInv, Char
<1> QED BY <1>2, <1>3, <1>4 DEF StdInInv

LEMMA StdInNextInv == StdInInv /\ [Next]_vars => StdInInv'
<1> SUFFICES ASSUME StdInInv, [Next]_vars PROVE StdInInv'
  OBVIOUS
<1>1. CASE Next
  BY <1>1, WriteKeeps, ReadersKeep, InterruptedKeeps, KillKeeps DEF Next
<1>2. CASE UNCHANGED vars
  BY <1>2 DEF vars, StdInInv, RingInv, QueueInv, ReaderInv, Reading, Asleep, B, Slots, Char
<1> QED BY <1>1, <1>2

\* Through every key, read and kill the ring, its offsets, the wait queue and the
\* reasons of wakeups agree.
THEOREM StdInInvCorrect == Spec => []StdInInv
<1> QED BY StdInInitInv, StdInNextInv, PTL DEF Spec

\* No wake-up is lost: dev_stdin_read looks at the ring and goes to sleep with interrupts
\* off, and a key wakes everybody.  A killed reader's wait_t is out of the queue when its
\* read() returns.
THEOREM NobodySleepsCorrect == Spec => []NobodySleepsOnData
<1>1. StdInInv => NobodySleepsOnData
  <2> SUFFICES ASSUME StdInInv PROVE NobodySleepsOnData
    OBVIOUS
  <2>1. TypeOK
    BY DEF StdInInv, RingInv, QueueInv, ReaderInv, TypeOK, B, Char
  <2> QED BY <2>1 DEF StdInInv, QueueInv, NobodySleepsOnData
<1> QED BY <1>1, StdInInvCorrect, PTL

-----------------------------------------------------------------------------
\* What Keyboard sees of the ring.
Pending == Ring(stdin_buffer, p_rpos, p_wpos - p_rpos)

LEMMA PendingIsUnread == Unread(p_wpos - p_rpos) = Pending
<1> QED BY DEF Unread, Pending, Ring, B

\* Typing is a step of Keyboard's Type.
LEMMA TypeStep ==
    ASSUME StdInInv, dev_stdin_write
    PROVE  Promise!Type
<1>1. /\ Store(typed + 1) /\ typed' = typed + 1 /\ typed + 1 \in Char /\ typed < MaxTyped
      /\ UNCHANGED <<p_rpos, buf>>
  BY StdInAssumption DEF dev_stdin_write, StdInInv, RingInv, Char
<1>2. Ring(stdin_buffer', p_rpos, p_wpos' - p_rpos) =
        IF Len(Pending) < B THEN Append(Pending, typed + 1) ELSE [Pending EXCEPT ![1] = typed + 1]
  BY <1>1, StoreStep DEF StdInInv, Pending
<1>3. Pending' = IF Len(Pending) < B
                 THEN Append(Pending, typed + 1) ELSE [Pending EXCEPT ![1] = typed + 1]
  BY <1>1, <1>2 DEF Pending, Ring, B
<1>4. Unread(p_wpos - p_rpos)' = Pending'
  BY DEF Unread, Pending, Ring, B
<1> QED BY <1>1, <1>3, <1>4, PendingIsUnread DEF Promise!Type, B

\* A reader's loop is a step of Keyboard's Take, whether it then returns or sleeps.
LEMMA TakeStep ==
    ASSUME StdInInv, NEW r \in Reader, NEW n \in 1 .. MaxLen, NEW before \in {buf[r], <<>>},
           NEW others, ReadLoop(r, n, before, others)
    PROVE  Promise!KNext
<1>1. PICK k : k = Min({n, p_wpos - p_rpos})
  OBVIOUS
<1>2. PICK m \in Nat : m = p_wpos - p_rpos
  BY DEF StdInInv, RingInv
<1>3. /\ k \in 0 .. n /\ n \in Nat /\ k <= m /\ (k = n \/ k = m) /\ k \in 0 .. m
      /\ p_rpos \in Nat /\ p_wpos \in Nat
  <2>1. n \in Nat
    BY StdInAssumption
  <2>2. k \in 0 .. n /\ k <= p_wpos - p_rpos /\ (k = n \/ k = p_wpos - p_rpos)
    BY <1>1, TakesMin DEF StdInInv
  <2> QED BY <1>2, <2>1, <2>2 DEF StdInInv, RingInv
<1>4. /\ buf' = [buf EXCEPT ![r] = before \o Unread(k)] /\ p_rpos' = p_rpos + k
      /\ UNCHANGED <<typed, stdin_buffer, p_wpos>>
  BY <1>1 DEF ReadLoop
<1>5. Pending = Ring(stdin_buffer, p_rpos, m)
  BY <1>2 DEF Pending
<1>6. \A j \in p_rpos .. p_rpos + m - 1 : stdin_buffer[j % B] \in Char
  <2>1. p_rpos + m - 1 = p_wpos - 1
    BY <1>2, <1>3
  <2> QED BY <2>1 DEF StdInInv, RingInv
<1>7. /\ Ring(stdin_buffer, p_rpos, m) \in Seq(Char)
      /\ Len(Ring(stdin_buffer, p_rpos, m)) = m
  BY <1>3, <1>6, RingIsSeq
<1>8. /\ Ring(stdin_buffer, p_rpos, k) = SubSeq(Ring(stdin_buffer, p_rpos, m), 1, k)
      /\ Ring(stdin_buffer, p_rpos + k, m - k) = SubSeq(Ring(stdin_buffer, p_rpos, m), k + 1, m)
  BY <1>3, <1>6, RingSplits
<1>9. Unread(k) = SubSeq(Pending, 1, k)
  <2>1. Unread(k) = Ring(stdin_buffer, p_rpos, k)
    BY DEF Unread, Ring, B
  <2> QED BY <1>5, <1>8, <2>1
<1>10. Pending' = SubSeq(Pending, k + 1, Len(Pending))
  <2>1. p_wpos' - p_rpos' = m - k
    BY <1>2, <1>3, <1>4
  <2>2. Pending' = Ring(stdin_buffer', p_rpos', p_wpos' - p_rpos')
    BY DEF Pending, Ring, B
  <2>3. Pending' = Ring(stdin_buffer, p_rpos + k, m - k)
    BY <1>4, <2>1, <2>2
  <2> QED BY <1>5, <1>7, <1>8, <2>3
<1>11. Unread(p_wpos - p_rpos)' = Pending'
  BY DEF Unread, Pending, Ring, B
<1>12. /\ k \in 0 .. n /\ (k = n \/ k = Len(Pending)) /\ k <= Len(Pending)
       /\ buf' = [buf EXCEPT ![r] = before \o SubSeq(Pending, 1, k)]
       /\ Pending' = SubSeq(Pending, k + 1, Len(Pending)) /\ UNCHANGED typed
  BY <1>3, <1>4, <1>5, <1>7, <1>9, <1>10
<1>13. Promise!Take(r, n)
  BY <1>11, <1>12, PendingIsUnread DEF Promise!Take
<1> QED BY <1>13 DEF Promise!KNext

\* Every step is a step of Keyboard, or changes nothing that Keyboard sees.
LEMMA StepPromise ==
    ASSUME StdInInv, [Next]_vars
    PROVE  [Promise!KNext]_(Promise!keyboardVars)
<1>1. CASE dev_stdin_write
  BY <1>1, TypeStep DEF Promise!KNext
<1>2. ASSUME NEW r \in Reader, Read(r) PROVE Promise!KNext
  BY <1>2, TakeStep DEF Read
<1>3. ASSUME NEW r \in Reader, TryAgain(r) PROVE Promise!KNext
  <2>1. len[r] \in 1 .. MaxLen /\ ReadLoop(r, len[r], buf[r], Others(r))
    BY <1>3, StdInAssumption DEF TryAgain, Reading, StdInInv, ReaderInv
  <2> QED BY <2>1, TakeStep
<1>4. CASE UNCHANGED <<typed, stdin_buffer, p_rpos, p_wpos, buf>>
  <2>1. Unread(p_wpos - p_rpos)' = Unread(p_wpos - p_rpos)
    BY <1>4 DEF Unread
  <2> QED BY <1>4, <2>1 DEF Promise!keyboardVars
<1>5. ASSUME NEW r \in Reader, Interrupted(r) \/ Kill(r)
      PROVE  UNCHANGED <<typed, stdin_buffer, p_rpos, p_wpos, buf>>
  BY <1>5 DEF Interrupted, Kill
<1> QED BY <1>1, <1>2, <1>3, <1>4, <1>5 DEF Next, vars

\* Every character goes to one reader, in the order of typing, unless it is overwritten:
\* the ring buffer with its offsets is a bounded queue.
THEOREM DeliversCorrect == Spec => DeliversInOrder
<1>1. Init => Promise!KInit
  <2> SUFFICES ASSUME Init PROVE Promise!KInit
    OBVIOUS
  <2>1. p_wpos - p_rpos = 0
    BY DEF Init
  <2>2. Unread(p_wpos - p_rpos) = <<>>
    BY <2>1 DEF Unread
  <2> QED BY <2>2 DEF Init, Promise!KInit
<1> QED BY <1>1, StepPromise, StdInInvCorrect, PTL DEF Spec, DeliversInOrder, Promise!KSpec
=============================================================================
