-------------------------------- MODULE Files --------------------------------
(***************************************************************************)
(* Open files: the descriptors and working directories of processes        *)
(* (file.c, fs.c, vfsfile.c, vfspath.c) and the inodes in memory that they *)
(* share, with the counts that say when an inode is closed and when it is  *)
(* freed (inode.c, sfs_inode.c).                                           *)
(*                                                                         *)
(* Each system call is one step.  What a process may be put to sleep for   *)
(* in one, the locks of SFS and a key, keeps no other process from the     *)
(* calls here, and the counts are not touched while it sleeps.             *)
(***************************************************************************)
EXTENDS Integers, FiniteSets, FiniteSetsExt

CONSTANTS
    Proc,      \* the user processes; initproc is next to them
    initproc,
    File,      \* the regular files on the disk
    Dir,       \* the root directory and the directories in it
    root,
    Device,    \* stdin; stdout has the same counts, and is opened with O_WRONLY only
    NFd,       \* FILES_STRUCT_NENTRY
    Modes,     \* bound: the sets of flags that open is called with
    Exclusive, \* bound: the nodes that an open with O_EXCL finds,
    MaxLost    \* and how often one does

Node == File \cup Dir \cup Device
Fd == 0 .. NFd - 1
Flags == {"O_WRONLY", "O_CREAT", "O_EXCL", "O_TRUNC", "O_APPEND"}
NONE == "none"

ASSUME FilesAssumption ==
    /\ root \in Dir
    /\ File \cap Dir = {} /\ (File \cup Dir) \cap Device = {}
    /\ NONE \notin Node
    /\ IsFiniteSet(Proc) /\ initproc \notin Proc
    /\ NFd \in Nat /\ NFd > 2
    /\ Modes \subseteq SUBSET Flags
    /\ Exclusive \subseteq Node /\ MaxLost \in Nat

NoFiles == [pwd |-> NONE, fd |-> [i \in Fd |-> NONE]]
NoInode == [ref |-> 0, open |-> 0, reclaim |-> 0, dirty |-> FALSE]

VARIABLES
    inode,   \* of each node: ref_count, open_count, reclaim_count, dirty
    files,   \* of each process: pwd, and the node of each descriptor
    lost,    \* of each node, references that a failed open has kept
    halted   \* "ok", or where the kernel has stopped

filesVars == <<inode, files, lost, halted>>

Alive(p) == files[p].pwd # NONE
Running == halted = "ok"

-----------------------------------------------------------------------------
(***************************************************************************)
(* The functions of inode.c and sfs_inode.c, on a record s of inode and    *)
(* halted.  After the kernel has stopped they do nothing.                  *)
(***************************************************************************)
Now == [inode |-> inode, res |-> halted]
Stop(s, what) == IF s.res = "ok" THEN [s EXCEPT !.res = what] ELSE s
Ok(s) == s.res = "ok"

\* vop_ref_inc of an inode that is in memory.
RefInc(s, n) ==
    IF ~Ok(s) \/ s.inode[n].ref = 0 THEN Stop(s, "freed inode")
    ELSE [s EXCEPT !.inode[n].ref = @ + 1]

\* sfs_reclaim, for an inode without links to it from anywhere in memory.
sfs_reclaim(s, n) ==
    LET reclaim == s.inode[n].reclaim - 1
    IN  IF n \in Device THEN Stop(s, "vop_reclaim")
        ELSE IF reclaim < 0 THEN Stop(s, "reclaim_count > 0")
        ELSE IF reclaim > 0 THEN [s EXCEPT !.inode[n].reclaim = reclaim]
        ELSE IF s.inode[n].open # 0 THEN Stop(s, "inode_kill")
        ELSE [s EXCEPT !.inode[n] = NoInode]

\* inode_ref_dec
RefDec(s, n) ==
    LET t == [s EXCEPT !.inode[n].ref = @ - 1]
    IN  IF ~Ok(s) \/ s.inode[n].ref = 0 THEN Stop(s, "ref_count > 0")
        ELSE IF t.inode[n].ref = 0 THEN sfs_reclaim(t, n) ELSE t

OpenInc(s, n) ==
    IF ~Ok(s) \/ s.inode[n].ref = 0 THEN Stop(s, "freed inode")
    ELSE [s EXCEPT !.inode[n].open = @ + 1]

\* Mutant: the last close leaves the inode to reclaim.
OpenDec_NoSync(s, n) ==
    IF ~Ok(s) \/ s.inode[n].open = 0 THEN Stop(s, "open_count > 0")
    ELSE [s EXCEPT !.inode[n].open = @ - 1]

\* inode_open_dec: the last one calls sfs_close, which writes the inode.
OpenDec(s, n) ==
    IF ~Ok(s) \/ s.inode[n].open = 0 THEN Stop(s, "open_count > 0")
    ELSE [s EXCEPT !.inode[n].open = @ - 1,
                   !.inode[n].dirty = @ /\ s.inode[n].open # 1]

\* vfs_lookup, with sfs_load_inode or, for a device, vfs_get_root.  The directory
\* it starts from is held by its caller and is what it was in the end.
Lookup(s, n) ==
    IF ~Ok(s) \/ n \in Device THEN RefInc(s, n)
    ELSE IF s.inode[n] = NoInode
    THEN [s EXCEPT !.inode[n] = [ref |-> 1, open |-> 0, reclaim |-> 1, dirty |-> FALSE]]
    ELSE [s EXCEPT !.inode[n].ref = @ + 1,
                   !.inode[n].reclaim = IF s.inode[n].ref = 0 THEN @ + 1 ELSE @]

\* vop_open: sfs_opendir, sfs_openfile, or dev_open and stdin_open.
Refuses(n, flags) ==
    \/ n \in Dir /\ flags \cap {"O_WRONLY", "O_APPEND"} # {}
    \/ n \in Device /\ flags # {}

\* vop_truncate, of a file that may be empty already.
Truncate(s, n, empty) ==
    IF n \in File THEN [s EXCEPT !.inode[n].dirty = @ \/ ~empty] ELSE Stop(s, "vop_truncate")

\* The flags with which vfs_open looks nothing up.
BadMode(flags) == "O_TRUNC" \in flags /\ "O_WRONLY" \notin flags
OnlyNew(flags) == {"O_CREAT", "O_EXCL"} \subseteq flags

\* Mutant: the reference of the lookup is kept when vop_open refuses.
vfs_open_Keeps(s, n, flags, empty) ==
    LET t == Lookup(s, n)
    IN  IF BadMode(flags) THEN s
        ELSE IF OnlyNew(flags) \/ Refuses(n, flags) THEN t
        ELSE IF flags \cap {"O_TRUNC", "O_CREAT"} # {} THEN Truncate(OpenInc(t, n), n, empty)
        ELSE OpenInc(t, n)

\* vfs_open of a node that exists.
vfs_open(s, n, flags, empty) ==
    LET t == Lookup(s, n)
    IN  IF BadMode(flags) THEN s
        ELSE IF OnlyNew(flags) THEN t
        ELSE IF Refuses(n, flags) THEN RefDec(t, n)
        ELSE IF flags \cap {"O_TRUNC", "O_CREAT"} # {} THEN Truncate(OpenInc(t, n), n, empty)
        ELSE OpenInc(t, n)

Opens(n, flags) == ~BadMode(flags) /\ ~OnlyNew(flags) /\ ~Refuses(n, flags)

vfs_close(s, n) == RefDec(OpenDec(s, n), n)

\* fd_array_dup and fd_array_close, for the node of a descriptor.
fd_array_dup(s, n) == IF n = NONE THEN s ELSE OpenInc(RefInc(s, n), n)
fd_array_close(s, n) == IF n = NONE THEN s ELSE vfs_close(s, n)

-----------------------------------------------------------------------------
\* The inodes are as in s once the call is over.
Becomes(s) == inode' = s.inode /\ halted' = s.res

Calls(p) == Running /\ Alive(p)
FreeFds(p) == {i \in Fd : files[p].fd[i] = NONE}

\* file_open
file_open(p, n, flags, empty) ==
    /\ Calls(p)
    /\ FreeFds(p) # {}
    /\ Becomes(vfs_open(Now, n, flags, empty))
    /\ files' = IF Opens(n, flags) THEN [files EXCEPT ![p].fd[Min(FreeFds(p))] = n] ELSE files
    /\ lost' = IF OnlyNew(flags) /\ ~BadMode(flags) THEN [lost EXCEPT ![n] = @ + 1] ELSE lost

\* file_open of a name that is missing: inodes of SFS have no vop_create.
file_create(p, flags) ==
    /\ Calls(p)
    /\ FreeFds(p) # {}
    /\ "O_CREAT" \in flags
    /\ ~BadMode(flags)
    /\ Becomes(Stop(Now, "vop_create"))
    /\ UNCHANGED <<files, lost>>

file_close(p, i) ==
    /\ Calls(p)
    /\ files[p].fd[i] # NONE
    /\ Becomes(fd_array_close(Now, files[p].fd[i]))
    /\ files' = [files EXCEPT ![p].fd[i] = NONE]
    /\ UNCHANGED lost

\* file_dup, to a descriptor that is not in use.
file_dup(p, i, j) ==
    /\ Calls(p)
    /\ files[p].fd[i] # NONE
    /\ files[p].fd[j] = NONE
    /\ Becomes(fd_array_dup(Now, files[p].fd[i]))
    /\ files' = [files EXCEPT ![p].fd[j] = files[p].fd[i]]
    /\ UNCHANGED lost

\* file_write, and file_seek past the end, which a file opened to be read allows too.
\* Directories have no operations for these, nor for file_read.
file_write(p, i) ==
    /\ Calls(p)
    /\ files[p].fd[i] \in File \cup Dir
    /\ Becomes(IF files[p].fd[i] \in File
               THEN [Now EXCEPT !.inode[files[p].fd[i]].dirty = TRUE]
               ELSE Stop(Now, "vop_tryseek"))
    /\ UNCHANGED <<files, lost>>

file_fsync(p, i) ==
    /\ Calls(p)
    /\ files[p].fd[i] \in File
    /\ inode' = [inode EXCEPT ![files[p].fd[i]].dirty = FALSE]
    /\ UNCHANGED <<files, lost, halted>>

\* vfs_chdir: a directory, or what is none and is given back.
vfs_chdir(p, n) ==
    LET s == Lookup(Now, n)
    IN  /\ Calls(p)
        /\ IF n \in Dir \ {files[p].pwd}
           THEN /\ Becomes(RefDec(RefDec(RefInc(s, n), files[p].pwd), n))
                /\ files' = [files EXCEPT ![p].pwd = n]
           ELSE Becomes(RefDec(s, n)) /\ UNCHANGED files
        /\ UNCHANGED lost

\* One pass of sfs_namefile, from the directory d to that which it is in.
Climb(s, d) == RefDec(Lookup(s, root), d)

\* sfs_namefile of d, which climbs to the root.
sfs_namefile(s, d) ==
    LET t == RefInc(s, d)
    IN  RefDec(IF d = root THEN Climb(t, root) ELSE Climb(Climb(t, d), root), root)

\* vfs_getcwd, with the reference of vfs_get_curdir.
vfs_getcwd(p) ==
    /\ Calls(p)
    /\ Becomes(LET d == files[p].pwd IN RefDec(sfs_namefile(RefInc(Now, d), d), d))
    /\ UNCHANGED <<files, lost>>

\* dup_files, from the table f.
dup_files(s, f) ==
    LET dup[k \in 0 .. NFd] ==
          IF k = 0 THEN RefInc(s, f.pwd) ELSE fd_array_dup(dup[k - 1], f.fd[k - 1])
    IN  dup[NFd]

\* do_fork
do_fork(p, q) ==
    /\ Calls(p)
    /\ ~Alive(q)
    /\ Becomes(dup_files(Now, files[p]))
    /\ files' = [files EXCEPT ![q] = files[p]]
    /\ UNCHANGED lost

\* The descriptors of the table f from the first one on: files_closeall, files_destroy.
CloseFrom(s, f, first) ==
    LET close[k \in first .. NFd] ==
          IF k = first THEN s ELSE fd_array_close(close[k - 1], f.fd[k - 1])
    IN  close[NFd]

\* files_destroy, as do_exit of p calls it when its table is f.
Exits(p, s, f) ==
    /\ Becomes(CloseFrom(RefDec(s, f.pwd), f, 0))
    /\ files' = [files EXCEPT ![p] = NoFiles]

do_exit(p) == Calls(p) /\ Exits(p, Now, files[p]) /\ UNCHANGED lost

\* What files_closeall leaves of a table.
Standard(f) == [f EXCEPT !.fd = [i \in Fd |-> IF i < 2 THEN f.fd[i] ELSE NONE]]

\* do_execve, as far as it closes and opens files.  load_icode seeks in the file,
\* past its end if the file says so, and closes it when it is done, or leaves it to do_exit.
do_execve(p, n) ==
    LET f == Standard(files[p])
        fd == Min({i \in Fd : f.fd[i] = NONE})
        s == vfs_open(CloseFrom(Now, files[p], 2), n, {}, TRUE)
    IN  /\ Calls(p)
        /\ UNCHANGED lost
        /\ \/ /\ n \in File
              /\ Becomes(vfs_close(s, n))
              /\ files' = [files EXCEPT ![p] = f]
           \/ /\ n \in File \cup Device
              /\ \E dirty \in IF n \in File THEN BOOLEAN ELSE {FALSE} :
                   Exits(p, IF dirty THEN [s EXCEPT !.inode[n].dirty = TRUE] ELSE s,
                            [f EXCEPT !.fd[fd] = n])
           \/ /\ n \in Dir
              /\ Becomes(Stop(s, "vop_tryseek"))
              /\ files' = [files EXCEPT ![p] = [f EXCEPT !.fd[fd] = n]]

\* do_execve of a name that is missing.
ExecNothing(p) ==
    Calls(p) /\ Exits(p, CloseFrom(Now, files[p], 2), Standard(files[p])) /\ UNCHANGED lost

-----------------------------------------------------------------------------
\* After vfs_set_bootfs in init_main: initproc is in the root directory, which the
\* boot file system holds too, and each device is held by its entry.
FilesInit ==
    /\ inode = [n \in Node |->
                 IF n = root THEN [ref |-> 2, open |-> 0, reclaim |-> 1, dirty |-> FALSE]
                 ELSE IF n \in Device THEN [NoInode EXCEPT !.ref = 1] ELSE NoInode]
    /\ files = [p \in Proc \cup {initproc} |->
                 IF p = initproc THEN [NoFiles EXCEPT !.pwd = root] ELSE NoFiles]
    /\ lost = [n \in Node |-> 0]
    /\ halted = "ok"

FilesNext ==
    \/ \E q \in Proc : do_fork(initproc, q)
    \/ \E p \in Proc :
        \/ \E n \in Node : \E flags \in Modes :
             /\ OnlyNew(flags) =>
                  n \in Exclusive /\ MapThenSumSet(LAMBDA m : lost[m], Node) < MaxLost
             /\ \E empty \in IF flags \cap {"O_TRUNC", "O_CREAT"} = {} THEN {TRUE} ELSE BOOLEAN :
                  file_open(p, n, flags, empty)
        \/ \E flags \in Modes : file_create(p, flags)
        \/ \E i \in Fd : file_close(p, i) \/ file_write(p, i) \/ file_fsync(p, i)
        \/ \E i, j \in Fd : file_dup(p, i, j)
        \/ \E n \in Node : vfs_chdir(p, n) \/ do_execve(p, n)
        \/ vfs_getcwd(p)
        \/ \E q \in Proc : do_fork(p, q)
        \/ do_exit(p)
        \/ ExecNothing(p)

FilesSpec == FilesInit /\ [][FilesNext]_filesVars

-----------------------------------------------------------------------------
Procs == Proc \cup {initproc}
Descriptors(n) == {x \in Procs \X Fd : files[x[1]].fd[x[2]] = n}
Cwds(n) == {p \in Procs : files[p].pwd = n}
Base(n) == IF n \in {root} \cup Device THEN 1 ELSE 0

FilesTypeOK ==
    /\ inode \in [Node -> [ref : Nat, open : Nat, reclaim : Nat, dirty : BOOLEAN]]
    /\ files \in [Procs -> [pwd : Dir \cup {NONE}, fd : [Fd -> Node \cup {NONE}]]]
    /\ lost \in [Node -> Nat]

\* ref_count counts exactly those who hold an inode, open_count its descriptors, and
\* it is in memory, to be reclaimed once, while somebody holds it: after any order of
\* opens that fail or not, dups, forks, execs, chdirs and exits.  None of the asserts
\* about the counts fails; the kernel stops for operations that are missing only.
ReferencesCounted ==
    /\ FilesTypeOK
    /\ halted \in {"ok", "vop_create", "vop_truncate", "vop_tryseek"}
    /\ Running =>
        \A n \in Node :
          /\ inode[n].ref = Base(n) + Cardinality(Descriptors(n)) + Cardinality(Cwds(n)) + lost[n]
          /\ inode[n].open = Cardinality(Descriptors(n))
          /\ n \notin Device => inode[n].reclaim = IF inode[n].ref > 0 THEN 1 ELSE 0

\* What was written to a file is on its way to the disk when the last descriptor is
\* closed, by whatever call: an inode that nobody has open is clean, even if failed
\* opens or a failed exec touched it.
CleanWhenClosed ==
    Running => \A n \in Node : inode[n].dirty => inode[n].open > 0
=============================================================================
