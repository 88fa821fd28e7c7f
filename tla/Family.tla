------------------------------- MODULE Family -------------------------------
(***************************************************************************)
(* The process table of proc.c: the list of all processes, from which      *)
(* get_pid finds a number that is not in use, the hash list that find_proc *)
(* searches, and the pointers cptr, yptr and optr between a parent and its *)
(* children.                                                               *)
(*                                                                         *)
(* get_pid and the end of do_exit are loops that run with interrupts off.  *)
(* Here each pass is a step, and nothing else happens until the last one.  *)
(***************************************************************************)
EXTENDS Integers, Sequences, FiniteSets, SequencesExt

CONSTANTS
    Proc,          \* the structs that kmalloc can hand out
    initproc,
    NULL,
    MAX_PROCESS,   \* 4096 in the source, with idleproc
    MAX_PID        \* twice as many

ASSUME FamilyAssumption ==
    /\ IsFiniteSet(Proc)
    /\ initproc \notin Proc
    /\ NULL \notin Proc \cup {initproc}
    /\ MAX_PROCESS \in Nat /\ MAX_PID \in Nat
    /\ 2 < MAX_PROCESS /\ MAX_PROCESS < MAX_PID    \* the static_assert of get_pid

VARIABLES
    state,       \* "free", "new" (without a pid), "alive" or "zombie"
    pid,
    parent, cptr, yptr, optr,
    proc_list,   \* the processes that have a pid, the newest first
    hash_list,   \* the set of those that find_proc finds
    nr_process,  \* with idleproc, which is in no list
    last_pid, next_safe,
    child,       \* the struct that get_pid runs for, or NULL
    le,          \* its place in proc_list
    leaver       \* the process that gives its children away in do_exit, or NULL

vars == <<state, pid, parent, cptr, yptr, optr, proc_list, hash_list, nr_process,
          last_pid, next_safe, child, le, leaver>>
links == <<parent, cptr, yptr, optr>>
scan == <<last_pid, next_safe, child, le>>

Procs == Proc \cup {initproc}
Listed == {proc_list[i] : i \in DOMAIN proc_list}

TypeOK ==
    /\ state \in [Procs -> {"free", "new", "alive", "zombie"}]
    /\ pid \in [Procs -> {-1} \cup 1 .. MAX_PID - 1]
    /\ parent \in [Proc -> Procs \cup {NULL}]
    /\ {cptr, yptr, optr} \subseteq [Procs -> Procs \cup {NULL}]
    /\ proc_list \in Seq(Procs)
    /\ hash_list \subseteq Procs
    /\ nr_process \in 2 .. MAX_PROCESS
    /\ last_pid \in 1 .. MAX_PID - 1
    /\ next_safe \in 1 .. MAX_PID
    /\ child \in Proc \cup {NULL}
    /\ le \in Nat
    /\ leaver \in Proc \cup {NULL}

\* Interrupts are on, and somebody may call in.
Ready == child = NULL /\ leaver = NULL

-----------------------------------------------------------------------------
\* do_fork by p into the struct q, up to its call of get_pid and the tests before
\* the loop there.
do_fork(p, q) ==
    /\ Ready
    /\ state[p] = "alive"
    /\ nr_process < MAX_PROCESS
    /\ state[q] = "free"
    /\ state' = [state EXCEPT ![q] = "new"]
    /\ pid' = [pid EXCEPT ![q] = -1]
    /\ parent' = [parent EXCEPT ![q] = p]
    /\ cptr' = [cptr EXCEPT ![q] = NULL]
    /\ yptr' = [yptr EXCEPT ![q] = NULL]
    /\ optr' = [optr EXCEPT ![q] = NULL]
    /\ child' = q
    /\ last_pid' = IF last_pid + 1 >= MAX_PID THEN 1 ELSE last_pid + 1
    /\ LET safe == last_pid' # 1 /\ last_pid' < next_safe
       IN  /\ next_safe' = IF safe THEN next_safe ELSE MAX_PID
           /\ le' = IF safe THEN Len(proc_list) + 1 ELSE 1
    /\ UNCHANGED <<proc_list, hash_list, nr_process, leaver>>

\* Mutant: the search goes on where it is, with those before it not looked at again.
NextPid_GoesOn(last) ==
    /\ last_pid' = IF last >= MAX_PID THEN 1 ELSE last
    /\ next_safe' = IF last >= next_safe THEN MAX_PID ELSE next_safe
    /\ le' = le + 1

\* Mutant: the search starts again at 1 whenever it starts again.
NextPid_FromOne(last) ==
    IF last >= next_safe
    THEN last_pid' = 1 /\ next_safe' = MAX_PID /\ le' = 1
    ELSE last_pid' = last /\ le' = le + 1 /\ UNCHANGED next_safe

\* The pid last_pid is taken: with the next one, the search starts again if that
\* one is no longer known to be safe.
NextPid(last) ==
    IF last >= next_safe
    THEN /\ last_pid' = IF last >= MAX_PID THEN 1 ELSE last
         /\ next_safe' = MAX_PID
         /\ le' = 1
    ELSE last_pid' = last /\ le' = le + 1 /\ UNCHANGED next_safe

\* One process that the loop of get_pid looks at.
get_pid ==
    /\ child # NULL
    /\ le \in DOMAIN proc_list
    /\ LET found == pid[proc_list[le]]
       IN  IF found = last_pid THEN NextPid(last_pid + 1)
           ELSE /\ next_safe' = IF found > last_pid /\ next_safe > found
                                THEN found ELSE next_safe
                /\ le' = le + 1
                /\ UNCHANGED last_pid
    /\ UNCHANGED <<state, pid, links, proc_list, hash_list, nr_process, child, leaver>>

\* yptr with q in front of the children of p.
InFrontOf(p, q) ==
    [s \in Procs |-> IF s = q THEN NULL ELSE IF s = cptr[p] THEN q ELSE yptr[s]]

\* The rest of do_fork: hash_proc and set_links.
set_links ==
    /\ child # NULL
    /\ le \notin DOMAIN proc_list
    /\ state' = [state EXCEPT ![child] = "alive"]
    /\ pid' = [pid EXCEPT ![child] = last_pid]
    /\ hash_list' = hash_list \cup {child}
    /\ proc_list' = <<child>> \o proc_list
    /\ nr_process' = nr_process + 1
    /\ LET p == parent[child]
       IN  /\ cptr' = [cptr EXCEPT ![p] = child]
           /\ optr' = [optr EXCEPT ![child] = cptr[p]]
           /\ yptr' = InFrontOf(p, child)
    /\ child' = NULL
    /\ le' = 0
    /\ UNCHANGED <<parent, last_pid, next_safe, leaver>>

\* do_exit, up to the loop over the children.
do_exit(p) ==
    /\ Ready
    /\ state[p] = "alive"
    /\ state' = [state EXCEPT ![p] = "zombie"]
    /\ leaver' = p
    /\ UNCHANGED <<pid, links, proc_list, hash_list, nr_process, scan>>

\* Mutant: the children that initproc had do not learn of the new first one.
Adopt_NoYptr(p, q) ==
    /\ cptr' = [cptr EXCEPT ![p] = optr[q], ![initproc] = q]
    /\ optr' = [optr EXCEPT ![q] = cptr[initproc]]
    /\ yptr' = [yptr EXCEPT ![q] = NULL]

\* One pass of the loop: the first child q of p goes to initproc.
Adopt(p, q) ==
    /\ cptr' = [cptr EXCEPT ![p] = optr[q], ![initproc] = q]
    /\ optr' = [optr EXCEPT ![q] = cptr[initproc]]
    /\ yptr' = InFrontOf(initproc, q)

GiveChildAway ==
    /\ leaver # NULL
    /\ cptr[leaver] # NULL
    /\ Adopt(leaver, cptr[leaver])
    /\ parent' = [parent EXCEPT ![cptr[leaver]] = initproc]
    /\ UNCHANGED <<state, pid, proc_list, hash_list, nr_process, scan, leaver>>

Gone ==
    /\ leaver # NULL
    /\ cptr[leaver] = NULL
    /\ leaver' = NULL
    /\ UNCHANGED <<state, pid, links, proc_list, hash_list, nr_process, scan>>

\* The k-th child of p, the way do_wait looks for it: from cptr on along optr.
KthChild(p, k) ==
    LET c[i \in Nat] ==
          IF i = 0 THEN cptr[p]
          ELSE IF c[i - 1] = NULL THEN NULL ELSE optr[c[i - 1]]
    IN  c[k]

\* The first zombie of them: do_wait(0).
FirstZombie(p, q) ==
    \E k \in 0 .. nr_process :
        /\ KthChild(p, k) = q
        /\ \A i \in 0 .. k - 1 : state[KthChild(p, i)] # "zombie"

\* do_wait with the pid of q.
FoundByPid(p, q) == q \in hash_list /\ parent[q] = p

\* do_wait, where it has found the zombie q: unhash_proc, remove_links, kfree.
do_wait(p, q) ==
    /\ Ready
    /\ state[p] = "alive"
    /\ state[q] = "zombie"
    /\ FirstZombie(p, q) \/ FoundByPid(p, q)
    /\ state' = [state EXCEPT ![q] = "free"]
    /\ hash_list' = hash_list \ {q}
    /\ \E i \in DOMAIN proc_list : proc_list[i] = q /\ proc_list' = RemoveAt(proc_list, i)
    /\ nr_process' = nr_process - 1
    /\ yptr' = IF optr[q] # NULL THEN [yptr EXCEPT ![optr[q]] = yptr[q]] ELSE yptr
    /\ IF yptr[q] # NULL
       THEN optr' = [optr EXCEPT ![yptr[q]] = optr[q]] /\ UNCHANGED cptr
       ELSE cptr' = [cptr EXCEPT ![parent[q]] = optr[q]] /\ UNCHANGED optr
    /\ UNCHANGED <<pid, parent, scan, leaver>>

-----------------------------------------------------------------------------
\* After proc_init: initproc has been given its pid with the lists empty.
Init ==
    /\ state = [p \in Procs |-> IF p = initproc THEN "alive" ELSE "free"]
    /\ pid = [p \in Procs |-> IF p = initproc THEN 1 ELSE -1]
    /\ parent = [p \in Proc |-> NULL]
    /\ cptr = [p \in Procs |-> NULL]
    /\ yptr = [p \in Procs |-> NULL]
    /\ optr = [p \in Procs |-> NULL]
    /\ proc_list = <<initproc>>
    /\ hash_list = {initproc}
    /\ nr_process = 2
    /\ last_pid = 1
    /\ next_safe = MAX_PID
    /\ child = NULL
    /\ le = 0
    /\ leaver = NULL

Next ==
    \/ \E p \in Procs, q \in Proc : do_fork(p, q) \/ do_wait(p, q)
    \/ get_pid
    \/ set_links
    \/ \E p \in Proc : do_exit(p)
    \/ GiveChildAway
    \/ Gone

\* A loop that has begun goes on.
Spec == Init /\ [][Next]_vars /\ WF_vars(get_pid \/ set_links) /\ WF_vars(GiveChildAway \/ Gone)

-----------------------------------------------------------------------------
\* The pids that the next calls of get_pid hand out without a search are free.
WindowFree ==
    child = NULL => \A p \in Listed : pid[p] \notin last_pid + 1 .. next_safe - 1

\* No two processes have the same pid, even after the pids have wrapped around
\* with old processes still alive, and get_pid's cached bound next_safe is right.
PidsUnique ==
    /\ TypeOK
    /\ \A p, q \in Listed : pid[p] = pid[q] => p = q
    /\ \A p \in Listed : pid[p] # -1
    /\ WindowFree

Children(p) == {q \in Listed \ {initproc} : parent[q] = p}
Chain(p) == {KthChild(p, k) : k \in 0 .. nr_process} \ {NULL}

\* What do_wait and do_exit reach over cptr and optr are the children of a process,
\* each once, whatever forks, exits and waits came before; and the asserts at the
\* end of init_main hold: without a child initproc is alone.
LinksAreChildren ==
    leaver = NULL =>
        /\ \A p \in Procs : state[p] # "free" =>
             /\ Chain(p) = Children(p)
             /\ KthChild(p, Cardinality(Children(p))) = NULL
             /\ cptr[p] # NULL => yptr[cptr[p]] = NULL
        /\ \A q \in Listed : optr[q] # NULL => yptr[optr[q]] = q
        /\ hash_list = Listed /\ IsInjective(proc_list)
        /\ nr_process = Cardinality(Listed) + 1
        /\ cptr[initproc] = NULL /\ child = NULL =>
             /\ yptr[initproc] = NULL /\ optr[initproc] = NULL
             /\ nr_process = 2 /\ proc_list = <<initproc>>

\* get_pid, which starts its search again and again, and the loop of do_exit end.
LoopsEnd == (~Ready) ~> Ready
=============================================================================
