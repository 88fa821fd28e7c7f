------------------------------- MODULE Stride -------------------------------
(***************************************************************************)
(* The stride scheduler (default_sched.c) on its skew heap (skew_heap.h).  *)
(* Strides are unsigned words that wrap around.  Two of them are compared  *)
(* by the sign of their difference, which orders them as long as no two    *)
(* are more than BIG_STRIDE apart.                                         *)
(***************************************************************************)
EXTENDS Integers, Sequences, FiniteSets

CONSTANTS
    Proc,        \* the process structs, without idleproc
    Idle,        \* idleproc, which is never in the heap
    NULL,
    HalfWords,   \* half of the values of lab6_stride; 2 ^ 31 in the source
    Priorities   \* arguments of lab6_set_priority

Words == 0 .. 2 * HalfWords - 1

ASSUME StrideAssumption ==
    /\ IsFiniteSet(Proc)
    /\ {Idle, NULL} \cap Proc = {}
    /\ HalfWords \in Nat \ {0, 1}
    /\ Priorities \subseteq Words

VARIABLES
    state,      \* "free", "runnable" (queued or current), "sleeping"
    current,    \* the process on the CPU
    stride,     \* lab6_stride
    priority,   \* lab6_priority
    heap        \* rq->lab6_run_pool, and the lab6_run_pool of each process

strideVars == <<state, current, stride, priority, heap>>

\* Mutant: the largest word, as if strides were compared unsigned.
BIG_STRIDE_Max == 2 * HalfWords - 1

BIG_STRIDE == HalfWords - 1

Runnable == {p \in Proc : state[p] = "runnable"}

\* How far the word a is ahead of the word b, going up and around.
Ahead(a, b) == (a - b) % (2 * HalfWords)

-----------------------------------------------------------------------------
\* proc_stride_comp_f(a, b) = -1 under the strides s: the difference, as a signed
\* word, is negative.
Before(s, a, b) == Ahead(s[a], s[b]) >= HalfWords

Link == Proc \cup {NULL}
Heap == [root : Link, left : [Proc -> Link], right : [Proc -> Link],
         parent : [Proc -> Link]]

NoLinks == [p \in Proc |-> NULL]
NoHeap == [root |-> NULL, left |-> NoLinks, right |-> NoLinks, parent |-> NoLinks]

\* skew_heap_init.
Clear(h, p) == [h EXCEPT !.left[p] = NULL, !.right[p] = NULL, !.parent[p] = NULL]

\* c becomes the left heap of x, or the root.
Hang(h, x, c) ==
    IF x = NULL THEN [h EXCEPT !.root = c]
    ELSE IF c = NULL THEN [h EXCEPT !.left[x] = NULL]
    ELSE [h EXCEPT !.left[x] = c, !.parent[c] = x]

\* Mutant: the left heap of p does not change sides, and is lost.
Turn_Loses(h, p) == [h EXCEPT !.left[p] = NULL]

\* The left heap of p goes to the right; there will be another on the left.
Turn(h, p) == [h EXCEPT !.right[p] = h.left[p], !.left[p] = NULL]

\* The calls of skew_heap_merge, from the outermost in: the heaps a and b that it gets,
\* and heap, with those merged so far below its root, the last one at.
Calls == [stride : [Proc -> Words], heap : Heap, at : Link, a : Link, b : Link]

\* One call of skew_heap_merge: of the heaps a and b, the one with the smaller root
\* stays, on the left of the last that did, and what was on its right goes on.
Descend[t \in Calls] ==
    LET p == IF Before(t.stride, t.a, t.b) THEN t.a ELSE t.b
        below == t.heap.right[p]
    IN  IF NULL \in {t.a, t.b} THEN t
        ELSE [t EXCEPT !.heap = Turn(Hang(t.heap, t.at, p), p), !.at = p,
                       !.a = IF p = t.a THEN below ELSE t.a,
                       !.b = IF p = t.a THEN t.b ELSE below]

\* skew_heap_merge of the heaps a and b, under the strides s: its calls, which are
\* no more than there are processes, until one of the two is empty.
skew_heap_merge(s, h, a, b) ==
    LET start == [stride |-> s, heap |-> h, at |-> NULL, a |-> a, b |-> b]
        call[k \in 0 .. Cardinality(Proc)] ==
            IF k = 0 THEN start ELSE Descend[call[k - 1]]
        merged[t \in Calls] == Hang(t.heap, t.at, IF t.a = NULL THEN t.b ELSE t.a)
    IN  merged[call[Cardinality(Proc)]]

skew_heap_insert(s, h, p) == skew_heap_merge(s, Clear(h, p), h.root, p)

\* skew_heap_remove; the pointers of p are reset at once, not by the next insert.
skew_heap_remove(s, h, p) ==
    LET t == skew_heap_merge(s, Clear(h, p), h.left[p], h.right[p])
        rep == t.root
        up == h.parent[p]
        u == IF rep = NULL THEN t ELSE [t EXCEPT !.parent[rep] = up]
    IN  IF up = NULL THEN u
        ELSE IF u.left[up] = p THEN [u EXCEPT !.root = h.root, !.left[up] = rep]
        ELSE [u EXCEPT !.root = h.root, !.right[up] = rep]

-----------------------------------------------------------------------------
\* Mutant: priority 0 costs nothing.
Pass_Zero(p) ==
    IF priority[p] = 0 THEN 0
    ELSE IF priority[p] > BIG_STRIDE THEN 1
    ELSE BIG_STRIDE \div priority[p]

\* What a turn on the CPU costs.
Pass(p) ==
    IF priority[p] = 0 THEN BIG_STRIDE
    ELSE IF priority[p] > BIG_STRIDE THEN 1
    ELSE BIG_STRIDE \div priority[p]

\* stride_pick_next and stride_dequeue: the root of h runs next, or idleproc.
PickNext(h) ==
    IF h.root = NULL
    THEN current' = Idle /\ heap' = h /\ UNCHANGED stride
    ELSE /\ current' = h.root
         /\ stride' = [stride EXCEPT ![h.root] = (@ + Pass(h.root)) % (2 * HalfWords)]
         /\ heap' = skew_heap_remove(stride', h, h.root)

\* The heap that schedule() picks from: the current process is put back first if
\* it can go on.
Pool == IF current \in Runnable THEN skew_heap_insert(stride, heap, current) ELSE heap

\* schedule() of a process that can go on, of one that goes to sleep, and of one
\* that exits (its struct is freed later, and made anew by alloc_proc).
Resched ==
    /\ \E h \in {Pool} : PickNext(h)
    /\ UNCHANGED <<state, priority>>

Sleep ==
    /\ current \in Proc
    /\ state' = [state EXCEPT ![current] = "sleeping"]
    /\ PickNext(heap)
    /\ UNCHANGED priority

Exit ==
    /\ current \in Proc
    /\ state' = [state EXCEPT ![current] = "free"]
    /\ PickNext(heap)
    /\ UNCHANGED priority

\* wakeup_proc of a sleeper, which still has the stride it went to sleep with.
Wakeup(p) ==
    /\ state[p] = "sleeping"
    /\ state' = [state EXCEPT ![p] = "runnable"]
    /\ heap' = skew_heap_insert(stride, heap, p)
    /\ UNCHANGED <<current, stride, priority>>

\* do_fork: alloc_proc gives the child stride 0 and priority 0.
Fork(p) ==
    /\ current \in Proc
    /\ state[p] = "free"
    /\ state' = [state EXCEPT ![p] = "runnable"]
    /\ stride' = [stride EXCEPT ![p] = 0]
    /\ priority' = [priority EXCEPT ![p] = 0]
    /\ heap' = skew_heap_insert(stride', heap, p)
    /\ UNCHANGED current

lab6_set_priority(n) ==
    /\ current \in Proc
    /\ priority' = [priority EXCEPT ![current] = IF n = 0 THEN 1 ELSE n]
    /\ UNCHANGED <<state, current, stride, heap>>

-----------------------------------------------------------------------------
\* The first process has been picked once, with the priority of a new process.
StrideInit ==
    \E p \in Proc :
        /\ state = [q \in Proc |-> IF q = p THEN "runnable" ELSE "free"]
        /\ current = p
        /\ stride = [q \in Proc |-> IF q = p THEN BIG_STRIDE ELSE 0]
        /\ priority = [q \in Proc |-> 0]
        /\ heap = NoHeap

Spin == Resched \/ \E n \in Priorities : lab6_set_priority(n)

StrideNext ==
    \/ Spin \/ Sleep \/ Exit
    \/ \E p \in Proc : Wakeup(p) \/ Fork(p)

StrideSpec == StrideInit /\ [][StrideNext]_strideVars

\* The tick makes schedule() happen again and again, and processes are not created
\* for ever.
StrideLiveSpec ==
    /\ StrideSpec
    /\ WF_strideVars(Resched)
    /\ \A p \in Proc : <>[][~Fork(p)]_strideVars

-----------------------------------------------------------------------------
StrideTypeOK ==
    /\ state \in [Proc -> {"free", "runnable", "sleeping"}]
    /\ current \in Proc \cup {Idle}
    /\ stride \in [Proc -> Words]
    /\ priority \in [Proc -> Words]
    /\ heap \in Heap

\* The pointers of the processes in M make a tree: the root alone has no parent, the
\* children of each are those that have it as their parent, and going up ends.
IsTree(h, M) ==
    /\ {p \in M : h.parent[p] = NULL} = {h.root} \ {NULL}
    /\ \A p \in M :
         /\ h.parent[p] \in M \cup {NULL}
         /\ {h.left[p], h.right[p]} \ {NULL} = {c \in M : h.parent[c] = p}
         /\ h.left[p] = h.right[p] => h.left[p] = NULL
    /\ \A X \in SUBSET M : X # {} => \E p \in X : h.parent[p] \notin X

\* The heap is a tree of the runnable processes off the CPU, even while the
\* comparison is no order.
HeapHoldsRunnable == StrideTypeOK /\ IsTree(heap, Runnable \ {current})

\* No process in the heap comes before the one above it.
Sorted ==
    \A p \in Runnable \ {current} :
        heap.parent[p] # NULL => ~Before(stride, p, heap.parent[p])

\* The strides are in one half of the circle of words, where the comparison is an
\* order.
StridesClose ==
    \E first \in Runnable : \A p \in Runnable : Ahead(stride[p], stride[first]) < HalfWords

\* Going from the stride of the process that schedule() picks by less than half of
\* the words, one gets to every other process of the pool: it is the minimum.
Minimal == \A p \in Runnable : Ahead(stride[p], stride[current']) < HalfWords

\* Once strides are close and the heap is sorted, computing alone leaves the
\* strides close however often they wrap around, schedule() picks the minimum, and
\* whoever comes or goes, the heap is sorted until a stride is too far away.
KeepsOrder ==
    [][StridesClose /\ Sorted =>
         /\ Spin => StridesClose'
         /\ Resched => Minimal
         /\ (StridesClose => Sorted)']_strideVars

\* Although a sleeper that comes back, or a new process, may break the order, no
\* runnable process waits for ever, whatever the priorities: those that are picked
\* instead of it move on around the circle, and end up after it.
NobodyStarves == \A p \in Proc : state[p] = "runnable" ~> current = p
=============================================================================
