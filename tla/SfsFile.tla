------------------------------ MODULE SfsFile ------------------------------
(***************************************************************************)
(* Files on the Simple FS: the blocks of a file (sfs_inode.c), the inode   *)
(* in memory and on the disk, the free map, and the positions of open      *)
(* files (file.c).  Nothing inside these operations sleeps while the disk  *)
(* is polled, so each is one step.  A disk that fails panics in            *)
(* dev_disk0.c; the error that is left is a full disk.                     *)
(*                                                                         *)
(* The existing files are there from the start, and no directory changes:  *)
(* the file system has no way to create, link or remove a file.            *)
(***************************************************************************)
EXTENDS Integers, FiniteSets, FiniteSetsExt

CONSTANTS
    File, Fd, NoFile,
    SFS_BLKSIZE,         \* 4096 in the source
    SFS_NDIRECT,         \* 12
    SFS_BLK_NENTRY,      \* 1024
    SFS_MAX_FILE_SIZE,   \* 128 MB, which is more than a file has blocks for
    NBlocks,             \* blocks of the disk for the contents of files
    IOSizes,             \* bound: bytes in one read or write
    Seeks                \* bound: positions that file_seek goes to

ASSUME SfsAssumption ==
    /\ NoFile \notin File
    /\ Seeks \subseteq 0 .. SFS_MAX_FILE_SIZE - 1
    /\ IOSizes \subseteq Nat
    /\ NBlocks \in Nat
    /\ {SFS_BLKSIZE, SFS_NDIRECT, SFS_BLK_NENTRY, SFS_MAX_FILE_SIZE} \subseteq Nat \ {0}

VARIABLES
    freemap,         \* the free blocks
    unused_blocks,   \* super.unused_blocks
    super_dirty,
    on_disk,         \* freemap and unused_blocks as they are on the disk
    mounted,
    entry,           \* of each file, the contents of its indirect block, on disk
    disk,            \* of each file, its sfs_disk_inode on the disk
    sin,             \* of each file, its inode in memory: din and dirty
    node,            \* of each descriptor, the file it is open on
    pos,             \* of each descriptor, file->pos
    halted           \* "no", or the assertion or panic that stopped the kernel

super == <<freemap, unused_blocks, super_dirty>>
vars == <<super, on_disk, mounted, entry, disk, sin, node, pos, halted>>

Blocks == 1 .. NBlocks
Capacity == SFS_NDIRECT + SFS_BLK_NENTRY
Sizes == 0 .. SFS_MAX_FILE_SIZE

DiskInode == [size : Sizes, blocks : 0 .. Capacity,
              direct : [0 .. SFS_NDIRECT - 1 -> Blocks \cup {0}],
              indirect : Blocks \cup {0}]
Entries == [SFS_NDIRECT .. Capacity - 1 -> Blocks \cup {0}]

TypeOK ==
    /\ freemap \subseteq Blocks
    /\ unused_blocks \in 0 .. NBlocks
    /\ on_disk \in [free : SUBSET Blocks, unused : 0 .. NBlocks]
    /\ {super_dirty, mounted} \subseteq BOOLEAN
    /\ entry \in [File -> Entries]
    /\ disk \in [File -> DiskInode]
    /\ sin \in [File -> [din : DiskInode, dirty : BOOLEAN]]
    /\ node \in [Fd -> File \cup {NoFile}]
    /\ pos \in [Fd -> Sizes]

Opens(f) == {d \in Fd : node[d] = f}

\* In the list of inodes, with a reference for each descriptor.
InMemory(f) == Opens(f) # {}

\* The blocks that n bytes take: ROUNDUP_DIV(n, SFS_BLKSIZE).
BlocksFor(n) == (n + SFS_BLKSIZE - 1) \div SFS_BLKSIZE

-----------------------------------------------------------------------------
(***************************************************************************)
(* The operations on one inode, on records of all that they change; res is *)
(* "ok", "full" (-E_NO_MEM) or the place where the kernel stops.           *)
(***************************************************************************)
State(f) ==
    [free |-> freemap, unused |-> unused_blocks, changed |-> super_dirty,
     entry |-> entry[f], din |-> sin[f].din, dirty |-> sin[f].dirty, res |-> "ok"]

Pointer(s, i) == IF i < SFS_NDIRECT THEN s.din.direct[i] ELSE s.entry[i]

SetPointer(s, i, b) ==
    IF i < SFS_NDIRECT
    THEN [s EXCEPT !.din.direct[i] = b, !.dirty = TRUE]
    ELSE [s EXCEPT !.entry[i] = b]

\* sfs_block_alloc: the first free block.
Alloc(s) ==
    IF s.free = {} THEN [s EXCEPT !.res = "full"]
    ELSE IF s.unused = 0 THEN [s EXCEPT !.res = "unused_blocks > 0"]
    ELSE [s EXCEPT !.free = @ \ {Min(@)}, !.unused = @ - 1, !.changed = TRUE]

\* Mutant: that a block is free again is not worth saving.
sfs_block_free_Unsaved(s, b) == [s EXCEPT !.free = @ \cup {b}, !.unused = @ + 1]

sfs_block_free(s, b) ==
    [s EXCEPT !.free = @ \cup {b}, !.unused = @ + 1, !.changed = TRUE]

\* The indirect block, made on its first use.  It is given back, and the file does
\* not get it, if there is no block left for what it is to point to.
AllocIndirect(s) ==
    IF s.din.indirect # 0 THEN s
    ELSE LET t == Alloc(s)
         IN  IF t.res # "ok" THEN t
             ELSE IF t.free = {} THEN [s EXCEPT !.res = "full"]
             ELSE [t EXCEPT !.din.indirect = Min(s.free), !.dirty = TRUE]

\* sfs_bmap_get_nolock, for a block that the file does not have yet.
NewBlock(s, i) ==
    LET t == IF i < SFS_NDIRECT THEN s ELSE AllocIndirect(s)
        u == IF t.res = "ok" THEN Alloc(t) ELSE t
    IN  IF u.res = "ok" THEN SetPointer(u, i, Min(t.free)) ELSE u

\* Mutant: the block is counted before it is known that there is one.
sfs_bmap_load_nolock_Counts(s, i) ==
    LET create == i = s.din.blocks
        t == IF Pointer(s, i) = 0 /\ create THEN NewBlock(s, i) ELSE s
    IN  IF s.res # "ok" THEN s
        ELSE IF i > s.din.blocks THEN [s EXCEPT !.res = "index <= din->blocks"]
        ELSE IF i >= Capacity THEN [s EXCEPT !.res = "index out of range"]
        ELSE IF create THEN [t EXCEPT !.din.blocks = @ + 1] ELSE t

\* sfs_bmap_load_nolock: block i of the file, made if it is the one after the last.
sfs_bmap_load_nolock(s, i) ==
    LET create == i = s.din.blocks
        t == IF Pointer(s, i) = 0 /\ create THEN NewBlock(s, i) ELSE s
    IN  IF s.res # "ok" THEN s
        ELSE IF i > s.din.blocks THEN [s EXCEPT !.res = "index <= din->blocks"]
        ELSE IF i >= Capacity THEN [s EXCEPT !.res = "index out of range"]
        ELSE IF t.res = "ok" /\ create THEN [t EXCEPT !.din.blocks = @ + 1] ELSE t

\* sfs_bmap_truncate_nolock: the last block is freed, an indirect block never.
sfs_bmap_truncate_nolock(s) ==
    LET i == s.din.blocks - 1
        t == IF Pointer(s, i) = 0 THEN s
             ELSE SetPointer(sfs_block_free(s, Pointer(s, i)), i, 0)
    IN  [t EXCEPT !.din.blocks = i, !.dirty = TRUE]

\* The loops over them: n blocks from block a on, and the last n blocks.
LoadAll(s, a, n) ==
    LET load[k \in 0 .. n] == IF k = 0 THEN s ELSE sfs_bmap_load_nolock(load[k - 1], a + k - 1)
    IN  load[n]

TruncateAll(s, n) ==
    LET trunc[k \in 0 .. n] == IF k = 0 THEN s ELSE sfs_bmap_truncate_nolock(trunc[k - 1])
    IN  trunc[n]

\* sfs_truncfile: to len bytes.
sfs_truncfile(s, len) ==
    LET t == IF s.din.blocks <= BlocksFor(len)
             THEN LoadAll(s, s.din.blocks, BlocksFor(len) - s.din.blocks)
             ELSE TruncateAll(s, s.din.blocks - BlocksFor(len))
    IN  IF s.din.size = len
        THEN IF s.din.blocks = BlocksFor(len) THEN s
             ELSE [s EXCEPT !.res = "tblks == din->blocks"]
        ELSE IF t.res = "ok" THEN [t EXCEPT !.din.size = len, !.dirty = TRUE] ELSE t

\* sfs_io_nolock: n bytes from offset on.  The blocks that could be had are used,
\* and alen says how many bytes that were; the size grows to the end of them.
IoEnd(s, offset, n, write) ==
    LET end == Min({offset + n, SFS_MAX_FILE_SIZE})
    IN  IF write THEN end ELSE Min({end, s.din.size})

sfs_io_nolock(s, offset, n, write) ==
    LET end == IoEnd(s, offset, n, write)
        first == offset \div SFS_BLKSIZE
        last == (end - 1) \div SFS_BLKSIZE
        upto(k) == LoadAll(s, first, k - first + 1)
        done == {k \in first .. last : upto(k).res = "ok"}
        alen == IF done = {} THEN 0
                ELSE Min({end, (Max(done) + 1) * SFS_BLKSIZE}) - offset
        t == upto(last)
    IN  IF offset >= SFS_MAX_FILE_SIZE \/ n = 0 \/ (~write /\ offset >= s.din.size)
        THEN [s |-> s, alen |-> 0]
        ELSE [s |-> IF offset + alen > t.din.size /\ t.res \in {"ok", "full"}
                    THEN [t EXCEPT !.din.size = offset + alen, !.dirty = TRUE] ELSE t,
              alen |-> alen]

-----------------------------------------------------------------------------
\* The inode of f after an operation that ends in s, or the end of the kernel.
Becomes(f, s) ==
    /\ freemap' = s.free
    /\ unused_blocks' = s.unused
    /\ super_dirty' = s.changed
    /\ entry' = [entry EXCEPT ![f] = s.entry]
    /\ sin' = [sin EXCEPT ![f] = [din |-> s.din, dirty |-> s.dirty]]
    /\ halted' = IF s.res \in {"ok", "full"} THEN halted ELSE s.res

Running == halted = "no" /\ mounted

\* file_open of a file that exists, with sfs_load_inode if it is not in memory.
\* O_TRUNC, and O_CREAT too, empty it; O_APPEND puts the position at its end.
file_open(d, f, trunc, append) ==
    LET loaded == IF InMemory(f) THEN State(f)
                  ELSE [State(f) EXCEPT !.din = disk[f], !.dirty = FALSE]
        s == IF trunc THEN sfs_truncfile(loaded, 0) ELSE loaded
    IN  /\ Running
        /\ node[d] = NoFile
        /\ Becomes(f, s)
        /\ node' = [node EXCEPT ![d] = f]
        /\ pos' = [pos EXCEPT ![d] = IF append THEN s.din.size ELSE 0]
        /\ UNCHANGED disk

\* file_read and file_write.
Io(d, n, write) ==
    LET io == sfs_io_nolock(State(node[d]), pos[d], n, write)
    IN  /\ Running
        /\ node[d] # NoFile
        /\ Becomes(node[d], io.s)
        /\ pos' = [pos EXCEPT ![d] = @ + io.alen]
        /\ UNCHANGED <<disk, node>>

\* file_seek: going past the end makes the file longer.
file_seek(d, to) ==
    LET s == State(node[d])
        t == IF to > s.din.size THEN sfs_truncfile(s, to) ELSE s
    IN  /\ Running
        /\ node[d] # NoFile
        /\ Becomes(node[d], t)
        /\ pos' = [pos EXCEPT ![d] = IF t.res = "ok" THEN to ELSE @]
        /\ UNCHANGED <<disk, node>>

\* Mutant: what is dirty is not written.
sfs_fsync_Nothing(f) == UNCHANGED disk

sfs_fsync(f) ==
    disk' = IF sin[f].dirty THEN [disk EXCEPT ![f] = sin[f].din] ELSE disk

file_fsync(d) ==
    /\ Running
    /\ node[d] # NoFile
    /\ sfs_fsync(node[d])
    /\ sin' = [sin EXCEPT ![node[d]].dirty = FALSE]
    /\ UNCHANGED <<super, entry, node, pos, halted>>

EmptyInode ==
    [size |-> 0, blocks |-> 0, direct |-> [i \in 0 .. SFS_NDIRECT - 1 |-> 0], indirect |-> 0]

\* What stands for an inode that is not in memory.
Freed == [din |-> EmptyInode, dirty |-> FALSE]

\* file_close: the last one saves the inode (sfs_close) and frees it (sfs_reclaim).
file_close(d) ==
    /\ Running
    /\ node[d] # NoFile
    /\ IF Opens(node[d]) = {d}
       THEN sfs_fsync(node[d]) /\ sin' = [sin EXCEPT ![node[d]] = Freed]
       ELSE UNCHANGED <<disk, sin>>
    /\ node' = [node EXCEPT ![d] = NoFile]
    /\ pos' = [pos EXCEPT ![d] = 0]
    /\ UNCHANGED <<super, entry, halted>>

\* fs_cleanup, which initproc calls when all processes have quit: sfs_sync.  No inode
\* is dirty then.
fs_cleanup ==
    /\ Running
    /\ \A d \in Fd : node[d] = NoFile
    /\ on_disk' = IF super_dirty THEN [free |-> freemap, unused |-> unused_blocks] ELSE on_disk
    /\ super_dirty' = FALSE
    /\ mounted' = FALSE
    /\ UNCHANGED <<freemap, unused_blocks, entry, disk, sin, node, pos, halted>>

\* sfs_do_mount, when the machine is switched on again.
sfs_do_mount ==
    /\ halted = "no"
    /\ ~mounted
    /\ freemap' = on_disk.free
    /\ unused_blocks' = on_disk.unused
    /\ super_dirty' = FALSE
    /\ mounted' = TRUE
    /\ halted' = IF Cardinality(on_disk.free) = on_disk.unused THEN "no"
                 ELSE "unused_blocks == sfs->super.unused_blocks"
    /\ UNCHANGED <<on_disk, entry, disk, sin, node, pos>>

-----------------------------------------------------------------------------
\* Empty files, and none in memory.
Init ==
    /\ freemap = Blocks
    /\ unused_blocks = NBlocks
    /\ super_dirty = FALSE
    /\ on_disk = [free |-> Blocks, unused |-> NBlocks]
    /\ mounted = TRUE
    /\ entry = [f \in File |-> [i \in SFS_NDIRECT .. Capacity - 1 |-> 0]]
    /\ disk = [f \in File |-> EmptyInode]
    /\ sin = [f \in File |-> Freed]
    /\ node = [d \in Fd |-> NoFile]
    /\ pos = [d \in Fd |-> 0]
    /\ halted = "no"

Calls(d) ==
    \/ \E f \in File : \E trunc, append \in BOOLEAN : file_open(d, f, trunc, append)
    \/ \E n \in IOSizes : \E write \in BOOLEAN : Io(d, n, write)
    \/ \E to \in Seeks : file_seek(d, to)
    \/ file_fsync(d)
    \/ file_close(d)

Next ==
    \/ \E d \in Fd : Calls(d) /\ UNCHANGED <<on_disk, mounted>>
    \/ fs_cleanup
    \/ sfs_do_mount

Spec == Init /\ [][Next]_vars

-----------------------------------------------------------------------------
Inode(f) == IF InMemory(f) THEN sin[f].din ELSE disk[f]

\* The blocks that a file has, by their places in it; its indirect block has a
\* place after the others.
Places == 0 .. Capacity
At(f, i) ==
    IF i < SFS_NDIRECT THEN Inode(f).direct[i]
    ELSE IF i < Capacity THEN entry[f][i]
    ELSE Inode(f).indirect

\* Every block that is not free is at one place in one file, and the free ones are
\* at none and are counted: also after a disk full half way through a write, with
\* some inodes in memory and others on the disk, and after the machine has been
\* switched off and on.
BlocksOwnedOnce ==
    /\ TypeOK
    /\ \A b \in Blocks :
         LET owners == {x \in File \X Places : At(x[1], x[2]) = b}
         IN  Cardinality(owners) = IF b \in freemap THEN 0 ELSE 1
    /\ unused_blocks = Cardinality(freemap)

\* Below its number of blocks a file has no hole.  (Above it, it may have a block
\* in the indirect block: a seek on a full disk does not mark the inode dirty for
\* such a block, and the count that is saved is one too low.)
NoHoles ==
    \A f \in File : \A i \in 0 .. Inode(f).blocks - 1 : At(f, i) # 0

\* A block of a file, and so what was written to it, stays at its place until the
\* file is opened with O_TRUNC, whatever happens to inodes and other files.  (Those
\* behind the end, which a seek on a full disk has left there, a later seek frees.)
BlocksStay ==
    [][\A f \in File : \A i \in 0 .. BlocksFor(Inode(f).size) - 1 :
          At(f, i) # 0 /\ At(f, i)' # At(f, i) =>
              At(f, i)' = 0 /\ \E d \in Fd : node[d] = NoFile /\ node'[d] = f]_vars

\* No assertion of sfs_inode.c fails.
NoAssertFails == halted = "no"
=============================================================================
