---------------------------- MODULE FamilyProofs ----------------------------
(***************************************************************************)
(* PidsUnique and LinksAreChildren for any number of processes and pids.   *)
(* The first needs who is in proc_list and what the search of get_pid has  *)
(* found out; the second, for every process, a sequence of its children    *)
(* that cptr, optr and yptr link, and an order: parents come after their   *)
(* children in proc_list, with initproc at its end.                        *)
(***************************************************************************)
EXTENDS Family, SequenceTheorems, FunctionTheorems, FiniteSetTheorems,
        WellFoundedInduction, TLAPS

NoRepeats == \A i, j \in DOMAIN proc_list : proc_list[i] = proc_list[j] => i = j

\* Who is in the list, and who is about to be.
ListInv ==
    /\ NoRepeats
    /\ \E i \in DOMAIN proc_list : proc_list[i] = initproc
    /\ \A i \in DOMAIN proc_list : state[proc_list[i]] \in {"alive", "zombie"}
    /\ nr_process = Len(proc_list) + 1
    /\ child # NULL =>
         /\ state[child] = "new"
         /\ parent[child] \in Procs
         /\ nr_process < MAX_PROCESS

\* Those that get_pid has looked at, all of them when it is not running, have no pid
\* that it would hand out without a new search.
ScanInv ==
    /\ child # NULL => le >= 1 /\ last_pid < next_safe
    /\ child # NULL =>
         \A i \in DOMAIN proc_list : i < le => pid[proc_list[i]] \notin last_pid .. next_safe - 1
    /\ child = NULL =>
         \A i \in DOMAIN proc_list : pid[proc_list[i]] \notin last_pid + 1 .. next_safe - 1

UniqueInv ==
    /\ \A i, j \in DOMAIN proc_list : pid[proc_list[i]] = pid[proc_list[j]] => i = j
    /\ \A i \in DOMAIN proc_list : pid[proc_list[i]] # -1

Inv == TypeOK /\ ListInv /\ ScanInv /\ UniqueInv

-----------------------------------------------------------------------------
\* A list without its i-th element.
LEMMA RemoveAtFacts ==
    ASSUME NEW S, NEW s \in Seq(S), NEW i \in DOMAIN s
    PROVE  /\ RemoveAt(s, i) \in Seq(S)
           /\ Len(RemoveAt(s, i)) = Len(s) - 1
           /\ \A j \in DOMAIN RemoveAt(s, i) :
                /\ j < i => j \in DOMAIN s /\ RemoveAt(s, i)[j] = s[j]
                /\ ~(j < i) => j + 1 \in DOMAIN s /\ RemoveAt(s, i)[j] = s[j + 1]
<1> DEFINE a == SubSeq(s, 1, i - 1)
           b == SubSeq(s, i + 1, Len(s))
<1>1. Len(s) \in Nat /\ DOMAIN s = 1 .. Len(s) /\ i \in 1 .. Len(s)
  OBVIOUS
<1>2. a \in Seq(S) /\ Len(a) = i - 1 /\ \A j \in 1 .. i - 1 : a[j] = s[j]
  BY <1>1
<1>3. b \in Seq(S) /\ Len(b) = Len(s) - i /\ \A j \in 1 .. Len(s) - i : b[j] = s[j + i]
  BY <1>1
<1> HIDE DEF a, b
<1>4. /\ a \o b \in Seq(S)
      /\ Len(a \o b) = Len(s) - 1
      /\ \A j \in 1 .. Len(s) - 1 :
           (a \o b)[j] = IF j < i THEN a[j] ELSE b[j - (i - 1)]
  <2>1. Len(a) + Len(b) = Len(s) - 1 /\ Len(a) \in Nat /\ Len(b) \in Nat
    BY <1>1, <1>2, <1>3
  <2>2. \A j \in 1 .. Len(a) + Len(b) :
          (a \o b)[j] = IF j <= Len(a) THEN a[j] ELSE b[j - Len(a)]
    BY <1>2, <1>3, ConcatProperties
  <2>3. a \o b \in Seq(S) /\ Len(a \o b) = Len(a) + Len(b)
    BY <1>2, <1>3, ConcatProperties
  <2> QED BY <2>1, <2>2, <2>3, <1>1, <1>2
<1>5. RemoveAt(s, i) = a \o b
  BY DEF RemoveAt, a, b
<1>6. ASSUME NEW j \in 1 .. Len(s) - 1
      PROVE  /\ j < i => (a \o b)[j] = s[j]
             /\ ~(j < i) => (a \o b)[j] = s[j + 1]
  <2>1. CASE j < i
    BY <2>1, <1>1, <1>2, <1>4
  <2>2. CASE ~(j < i)
    <3>1. j - (i - 1) \in 1 .. Len(s) - i /\ j - (i - 1) + i = j + 1
      BY <2>2, <1>1
    <3> QED BY <3>1, <2>2, <1>3, <1>4
  <2> QED BY <2>1, <2>2
<1>7. DOMAIN (a \o b) = 1 .. Len(s) - 1
  BY <1>1, <1>4, LenProperties
<1>8. \A j \in 1 .. Len(s) - 1 : j \in DOMAIN s /\ j + 1 \in DOMAIN s
  BY <1>1
<1> HIDE DEF RemoveAt
<1> QED BY <1>4, <1>5, <1>6, <1>7, <1>8

\* A list with a new first element.
LEMMA PrependFacts ==
    ASSUME NEW S, NEW s \in Seq(S), NEW c \in S
    PROVE  /\ <<c>> \o s \in Seq(S)
           /\ Len(<<c>> \o s) = Len(s) + 1
           /\ (<<c>> \o s)[1] = c
           /\ \A j \in DOMAIN (<<c>> \o s) :
                j # 1 => j - 1 \in DOMAIN s /\ (<<c>> \o s)[j] = s[j - 1]
           /\ \A j \in DOMAIN s : j + 1 \in DOMAIN (<<c>> \o s) /\ (<<c>> \o s)[j + 1] = s[j]
  OBVIOUS

Prepended(l, S, s, c) ==
    /\ l \in Seq(S) /\ Len(l) = Len(s) + 1 /\ l[1] = c
    /\ \A j \in DOMAIN s : j + 1 \in DOMAIN l /\ l[j + 1] = s[j]

LEMMA PrependMakes ==
    ASSUME NEW S, NEW s \in Seq(S), NEW c \in S
    PROVE  Prepended(<<c>> \o s, S, s, c)
<1>1. <<c>> \o s \in Seq(S) /\ Len(<<c>> \o s) = Len(s) + 1 /\ (<<c>> \o s)[1] = c
  OBVIOUS
<1>2. ASSUME NEW j \in DOMAIN s
      PROVE  j + 1 \in DOMAIN (<<c>> \o s) /\ (<<c>> \o s)[j + 1] = s[j]
  OBVIOUS
<1> QED BY <1>1, <1>2 DEF Prepended

-----------------------------------------------------------------------------
LEMMA InitInv == Init => Inv
<1> SUFFICES ASSUME Init PROVE Inv
  OBVIOUS
<1>1. TypeOK
  BY FamilyAssumption DEF Init, TypeOK, Procs
<1>2. Len(proc_list) = 1 /\ DOMAIN proc_list = {1} /\ proc_list[1] = initproc
  BY DEF Init
<1>3. state[initproc] = "alive" /\ pid[initproc] = 1
  BY DEF Init, Procs
<1>4. ListInv
  BY <1>2, <1>3 DEF Init, ListInv, NoRepeats
<1>5. ScanInv /\ UniqueInv
  BY <1>2, <1>3 DEF Init, ScanInv, UniqueInv
<1> QED BY <1>1, <1>4, <1>5 DEF Inv

\* What the actions find in a state with Inv.
LEMMA TypeFacts ==
    ASSUME Inv
    PROVE  /\ Len(proc_list) \in Nat
           /\ DOMAIN proc_list = 1 .. Len(proc_list)
           /\ \A i \in DOMAIN proc_list :
                proc_list[i] \in Procs /\ pid[proc_list[i]] \in 1 .. MAX_PID - 1
BY FamilyAssumption DEF Inv, TypeOK, UniqueInv

\* do_fork starts a search for a struct that is not in the list.
LEMMA ForkKeeps ==
    ASSUME Inv, NEW p \in Procs, NEW q \in Proc, do_fork(p, q)
    PROVE  Inv'
<1>1. TypeOK'
  BY FamilyAssumption DEF Inv, TypeOK, do_fork, Procs
<1>2. \A i \in DOMAIN proc_list : proc_list[i] # q
  BY DEF Inv, ListInv, do_fork
<1>3. \A i \in DOMAIN proc_list :
        /\ proc_list[i] \in Procs
        /\ state'[proc_list[i]] = state[proc_list[i]]
        /\ pid'[proc_list[i]] = pid[proc_list[i]]
  BY <1>2, TypeFacts DEF Inv, TypeOK, do_fork
<1>4. ListInv'
  <2>1. NoRepeats' /\ nr_process' = Len(proc_list') + 1
    BY DEF Inv, ListInv, NoRepeats, do_fork
  <2>2. child' = q /\ state'[q] = "new" /\ parent'[q] = p /\ nr_process' < MAX_PROCESS
    BY DEF Inv, TypeOK, do_fork, Procs
  <2> QED BY <1>3, <2>1, <2>2 DEF Inv, ListInv, do_fork, Procs
<1>5. ScanInv'
  <2>1. child = NULL /\ child' # NULL
    BY FamilyAssumption DEF do_fork, Ready
  <2>2. CASE last_pid' # 1 /\ last_pid' < next_safe
    <3>1. last_pid' = last_pid + 1 /\ next_safe' = next_safe /\ le' = Len(proc_list) + 1
      BY <2>2, FamilyAssumption DEF do_fork, Inv, TypeOK
    <3>2. \A i \in DOMAIN proc_list : pid[proc_list[i]] \notin last_pid + 1 .. next_safe - 1
      BY <2>1 DEF Inv, ScanInv
    <3>3. last_pid' < next_safe' /\ le' >= 1
      BY <2>2, <3>1, TypeFacts
    <3> QED BY <2>1, <3>1, <3>2, <3>3, <1>3 DEF ScanInv, do_fork
  <2>3. CASE ~(last_pid' # 1 /\ last_pid' < next_safe)
    <3>1. next_safe' = MAX_PID /\ le' = 1
      BY <2>3 DEF do_fork
    <3>2. last_pid' < MAX_PID
      BY FamilyAssumption DEF do_fork, Inv, TypeOK
    <3>3. \A i \in DOMAIN proc_list : ~(i < 1)
      BY TypeFacts
    <3> QED BY <2>1, <3>1, <3>2, <3>3 DEF ScanInv, do_fork
  <2> QED BY <2>2, <2>3
<1>6. UniqueInv'
  BY <1>3 DEF Inv, UniqueInv, do_fork
<1> QED BY <1>1, <1>4, <1>5, <1>6 DEF Inv

\* A pass of the search keeps what the passes before it have found out.
LEMMA GetPidKeeps ==
    ASSUME Inv, get_pid
    PROVE  Inv'
<1> DEFINE found == pid[proc_list[le]]
<1>1. /\ le \in DOMAIN proc_list /\ le \in 1 .. Len(proc_list)
      /\ found \in 1 .. MAX_PID - 1
      /\ last_pid \in 1 .. MAX_PID - 1 /\ next_safe \in 1 .. MAX_PID
      /\ last_pid < next_safe /\ MAX_PID \in Nat /\ MAX_PID > 2
  BY TypeFacts, FamilyAssumption DEF get_pid, Inv, TypeOK, ScanInv
<1>2. \A i \in DOMAIN proc_list :
        /\ i \in Nat /\ i >= 1 /\ pid[proc_list[i]] \in Int
        /\ i < le => pid[proc_list[i]] \notin last_pid .. next_safe - 1
  BY TypeFacts DEF get_pid, Inv, ScanInv
<1>3. /\ UNCHANGED <<state, pid, links, proc_list, hash_list, nr_process, child, leaver>>
      /\ child' # NULL
  BY DEF get_pid
<1>4. ListInv' /\ UniqueInv'
  BY <1>3 DEF Inv, ListInv, NoRepeats, UniqueInv, links
<1>5. /\ last_pid' \in 1 .. MAX_PID - 1 /\ next_safe' \in 1 .. MAX_PID
      /\ le' \in Nat /\ le' >= 1 /\ last_pid' < next_safe'
      /\ \A i \in DOMAIN proc_list : i < le' => pid[proc_list[i]] \notin last_pid' .. next_safe' - 1
  <2>1. CASE found = last_pid /\ last_pid + 1 >= next_safe
    <3>1. /\ last_pid' = IF last_pid + 1 >= MAX_PID THEN 1 ELSE last_pid + 1
          /\ next_safe' = MAX_PID
          /\ le' = 1
      BY <2>1 DEF get_pid, NextPid
    <3> QED BY <3>1, <1>1, <1>2
  <2>2. CASE found = last_pid /\ ~(last_pid + 1 >= next_safe)
    <3>1. last_pid' = last_pid + 1 /\ le' = le + 1 /\ next_safe' = next_safe
      BY <2>2 DEF get_pid, NextPid
    <3>2. \A i \in DOMAIN proc_list : i < le + 1 => i < le \/ i = le
      BY <1>1, <1>2
    <3> QED BY <2>2, <3>1, <3>2, <1>1, <1>2
  <2>3. CASE found # last_pid
    <3>1. /\ last_pid' = last_pid /\ le' = le + 1
          /\ next_safe' = IF found > last_pid /\ next_safe > found THEN found ELSE next_safe
      BY <2>3 DEF get_pid
    <3>2. \A i \in DOMAIN proc_list : i < le + 1 => i < le \/ i = le
      BY <1>1, <1>2
    <3>3. found \notin last_pid' .. next_safe' - 1 /\ next_safe' <= next_safe
      BY <2>3, <3>1, <1>1
    <3> HIDE DEF found
    <3>4. last_pid' < next_safe' /\ next_safe' \in 1 .. MAX_PID
      BY <3>1, <1>1
    <3>5. ASSUME NEW i \in DOMAIN proc_list, i < le'
          PROVE  pid[proc_list[i]] \notin last_pid' .. next_safe' - 1
      <4>1. CASE i = le
        BY <4>1, <3>3 DEF found
      <4>2. CASE i < le
        BY <4>2, <1>1, <1>2, <3>1, <3>3, <3>4
      <4> QED BY <3>1, <3>2, <3>5, <4>1, <4>2
    <3> QED BY <3>1, <3>4, <3>5, <1>1
  <2> QED BY <2>1, <2>2, <2>3
<1>6. TypeOK'
  BY <1>3, <1>5 DEF Inv, TypeOK, links
<1>7. ScanInv'
  BY <1>3, <1>5 DEF ScanInv
<1> QED BY <1>4, <1>6, <1>7 DEF Inv

\* The search is over: its pid is nobody else's.
LEMMA SetLinksKeeps ==
    ASSUME Inv, set_links
    PROVE  Inv'
<1> DEFINE new == <<child>> \o proc_list
<1>1. /\ child # NULL /\ child \in Proc /\ child \in Procs
      /\ le \in Nat /\ le >= 1 /\ le \notin DOMAIN proc_list
      /\ last_pid \in 1 .. MAX_PID - 1 /\ next_safe \in 1 .. MAX_PID
      /\ MAX_PID \in Nat /\ MAX_PROCESS \in Nat
  BY FamilyAssumption DEF set_links, Inv, TypeOK, ScanInv, Procs
<1>2. /\ state[child] = "new" /\ parent[child] \in Procs
      /\ nr_process < MAX_PROCESS /\ nr_process = Len(proc_list) + 1
  BY <1>1 DEF Inv, ListInv
<1>3. \A i \in DOMAIN proc_list :
        /\ i < le /\ proc_list[i] # child /\ proc_list[i] \in Procs
        /\ pid[proc_list[i]] \in 1 .. MAX_PID - 1
        /\ pid[proc_list[i]] \notin last_pid .. next_safe - 1
        /\ pid[proc_list[i]] # last_pid
  <2>1. \A i \in DOMAIN proc_list : i < le
    BY <1>1, TypeFacts
  <2>2. last_pid < next_safe
    BY <1>1 DEF Inv, ScanInv
  <2>3. \A i \in DOMAIN proc_list : proc_list[i] # child
    BY <1>2 DEF Inv, ListInv
  <2>4. \A i \in DOMAIN proc_list : pid[proc_list[i]] \notin last_pid .. next_safe - 1
    BY <1>1, <2>1 DEF Inv, ScanInv
  <2>5. last_pid \in last_pid .. next_safe - 1
    BY <1>1, <2>2
  <2> QED BY <2>1, <2>3, <2>4, <2>5, TypeFacts
<1>4. /\ new \in Seq(Procs) /\ Len(new) = Len(proc_list) + 1 /\ new[1] = child
      /\ DOMAIN new = 1 .. Len(proc_list) + 1
      /\ \A j \in DOMAIN new :
           j # 1 => j - 1 \in DOMAIN proc_list /\ new[j] = proc_list[j - 1]
      /\ \A j \in DOMAIN proc_list : j + 1 \in DOMAIN new /\ new[j + 1] = proc_list[j]
  <2>1. proc_list \in Seq(Procs)
    BY DEF Inv, TypeOK
  <2>2. /\ new \in Seq(Procs) /\ Len(new) = Len(proc_list) + 1 /\ new[1] = child
        /\ \A j \in DOMAIN new :
             j # 1 => j - 1 \in DOMAIN proc_list /\ new[j] = proc_list[j - 1]
        /\ \A j \in DOMAIN proc_list : j + 1 \in DOMAIN new /\ new[j + 1] = proc_list[j]
    BY <2>1, <1>1, PrependFacts
  <2>3. DOMAIN new = 1 .. Len(proc_list) + 1
    BY <2>2, LenProperties
  <2> QED BY <2>2, <2>3
<1>5. /\ proc_list' = new /\ child' = NULL /\ nr_process' = nr_process + 1
      /\ last_pid' = last_pid /\ next_safe' = next_safe
      /\ state' = [state EXCEPT ![child] = "alive"]
      /\ pid' = [pid EXCEPT ![child] = last_pid]
  BY DEF set_links
<1> HIDE DEF new
<1>6. \A j \in DOMAIN new :
        /\ j = 1 => pid'[new[j]] = last_pid /\ state'[new[j]] = "alive"
        /\ j # 1 => /\ pid'[new[j]] = pid[proc_list[j - 1]]
                    /\ state'[new[j]] = state[proc_list[j - 1]]
  BY <1>1, <1>3, <1>4, <1>5 DEF Inv, TypeOK
<1>7. TypeOK'
  <2>1. /\ cptr[parent[child]] \in Procs \cup {NULL}
        /\ cptr' = [cptr EXCEPT ![parent[child]] = child]
        /\ optr' = [optr EXCEPT ![child] = cptr[parent[child]]]
        /\ yptr' = InFrontOf(parent[child], child)
    BY <1>2 DEF set_links, Inv, TypeOK
  <2>2. {cptr', yptr', optr'} \subseteq [Procs -> Procs \cup {NULL}]
    BY <2>1, <1>1, <1>2 DEF Inv, TypeOK, InFrontOf
  <2>3. nr_process' \in 2 .. MAX_PROCESS
    BY <1>1, <1>2, <1>5 DEF Inv, TypeOK
  <2>4. state' \in [Procs -> {"free", "new", "alive", "zombie"}]
    BY <1>1, <1>5 DEF Inv, TypeOK
  <2>5. pid' \in [Procs -> {-1} \cup 1 .. MAX_PID - 1]
    BY <1>1, <1>5 DEF Inv, TypeOK
  <2> QED BY <2>2, <2>3, <2>4, <2>5, <1>1, <1>4, <1>5 DEF Inv, TypeOK, set_links
<1>8. NoRepeats'
  <2>1. ASSUME NEW i \in DOMAIN new, NEW j \in DOMAIN new, new[i] = new[j] PROVE i = j
    BY <2>1, <1>3, <1>4 DEF Inv, ListInv, NoRepeats
  <2> QED BY <2>1, <1>5 DEF NoRepeats
<1>9. ListInv'
  <2>1. \E i \in DOMAIN new : new[i] = initproc
    BY <1>4 DEF Inv, ListInv
  <2>2. \A i \in DOMAIN new : state'[new[i]] \in {"alive", "zombie"}
    BY <1>4, <1>6 DEF Inv, ListInv
  <2> QED BY <2>1, <2>2, <1>2, <1>4, <1>5, <1>8 DEF ListInv
<1>10. ScanInv'
  <2>1. last_pid \notin last_pid + 1 .. next_safe - 1
    BY <1>1
  <2>2. \A i \in DOMAIN proc_list : pid[proc_list[i]] \notin last_pid + 1 .. next_safe - 1
    BY <1>1, <1>3
  <2>3. \A i \in DOMAIN new : pid'[new[i]] \notin last_pid + 1 .. next_safe - 1
    BY <2>1, <2>2, <1>4, <1>6
  <2> QED BY <2>3, <1>5 DEF ScanInv
<1>11. UniqueInv'
  <2>1. ASSUME NEW i \in DOMAIN new, NEW j \in DOMAIN new, pid'[new[i]] = pid'[new[j]]
        PROVE  i = j
    <3>1. CASE i = 1 \/ j = 1
      <4>1. ASSUME NEW k \in DOMAIN new, k # 1 PROVE pid'[new[k]] # last_pid
        <5>1. k - 1 \in DOMAIN proc_list /\ pid'[new[k]] = pid[proc_list[k - 1]]
          BY <1>4, <1>6, <4>1
        <5> QED BY <1>3, <5>1
      <4>2. \A k \in DOMAIN new : k = 1 => pid'[new[k]] = last_pid
        BY <1>6
      <4> QED BY <2>1, <3>1, <4>1, <4>2
    <3>2. CASE i # 1 /\ j # 1
      <4>1. /\ i - 1 \in DOMAIN proc_list /\ j - 1 \in DOMAIN proc_list
            /\ pid[proc_list[i - 1]] = pid[proc_list[j - 1]]
        BY <3>2, <2>1, <1>4, <1>6
      <4>2. i - 1 = j - 1
        BY <4>1 DEF Inv, UniqueInv
      <4> QED BY <4>2, <1>4, TypeFacts
    <3> QED BY <3>1, <3>2
  <2>2. \A i \in DOMAIN new : pid'[new[i]] # -1
    BY <1>1, <1>3, <1>4, <1>6
  <2> QED BY <2>1, <2>2, <1>5 DEF UniqueInv
<1> QED BY <1>7, <1>9, <1>10, <1>11 DEF Inv

\* Nothing that matters here changes while a process gives its children away.
LEMMA ExitKeeps ==
    ASSUME Inv, GiveChildAway \/ Gone \/ (\E p \in Proc : do_exit(p))
    PROVE  Inv'
<1>1. CASE GiveChildAway
  <2>1. UNCHANGED <<state, pid, proc_list, hash_list, nr_process, scan, leaver>>
    BY <1>1 DEF GiveChildAway
  <2>2. leaver \in Proc /\ cptr[leaver] \in Procs
    BY <1>1, FamilyAssumption DEF GiveChildAway, Inv, TypeOK, Procs
  <2>3. {cptr', yptr', optr'} \subseteq [Procs -> Procs \cup {NULL}]
    BY <1>1, <2>2 DEF GiveChildAway, Adopt, InFrontOf, Inv, TypeOK, Procs
  <2>4. parent' = [parent EXCEPT ![cptr[leaver]] = initproc]
    BY <1>1 DEF GiveChildAway
  <2>5. child # NULL /\ parent[child] \in Procs => parent'[child] \in Procs
    BY <2>4 DEF Inv, TypeOK, Procs
  <2>6. TypeOK'
    BY <2>1, <2>3, <2>4 DEF Inv, TypeOK, Procs, scan
  <2>7. ListInv'
    BY <2>1, <2>5 DEF Inv, ListInv, NoRepeats, scan
  <2>8. ScanInv' /\ UniqueInv'
    BY <2>1 DEF Inv, ScanInv, UniqueInv, scan
  <2> QED BY <2>6, <2>7, <2>8 DEF Inv
<1>2. CASE Gone
  BY <1>2, FamilyAssumption DEF Gone, Inv, TypeOK, ListInv, NoRepeats, ScanInv, UniqueInv, links, scan
<1>3. ASSUME NEW p \in Proc, do_exit(p) PROVE Inv'
  <2>1. /\ UNCHANGED <<pid, links, proc_list, hash_list, nr_process, scan>>
        /\ state' = [state EXCEPT ![p] = "zombie"]
        /\ state[p] = "alive" /\ leaver' = p /\ child = NULL
    BY <1>3 DEF do_exit, Ready
  <2>2. TypeOK'
    BY <2>1 DEF Inv, TypeOK, Procs, links, scan
  <2>3. \A i \in DOMAIN proc_list : state'[proc_list[i]] \in {"alive", "zombie"}
    BY <2>1, TypeFacts DEF Inv, ListInv, TypeOK
  <2>4. ListInv'
    BY <2>1, <2>3 DEF Inv, ListInv, NoRepeats, links, scan
  <2>5. ScanInv' /\ UniqueInv'
    BY <2>1 DEF Inv, ScanInv, UniqueInv, links, scan
  <2> QED BY <2>2, <2>4, <2>5 DEF Inv
<1> QED BY <1>1, <1>2, <1>3

\* do_wait takes a process off the list, and its pid with it.
LEMMA WaitKeeps ==
    ASSUME Inv, NEW p \in Procs, NEW q \in Proc, do_wait(p, q)
    PROVE  Inv'
<1>1. PICK k \in DOMAIN proc_list :
        proc_list[k] = q /\ proc_list' = RemoveAt(proc_list, k)
  BY DEF do_wait
<1>2. /\ proc_list' \in Seq(Procs) /\ Len(proc_list') = Len(proc_list) - 1
      /\ \A j \in DOMAIN proc_list' :
           /\ j < k => j \in DOMAIN proc_list /\ proc_list'[j] = proc_list[j]
           /\ ~(j < k) => j + 1 \in DOMAIN proc_list /\ proc_list'[j] = proc_list[j + 1]
  BY <1>1, RemoveAtFacts DEF Inv, TypeOK
<1>3. DOMAIN proc_list' = 1 .. Len(proc_list) - 1
  BY <1>2, LenProperties
<1>4. /\ UNCHANGED <<pid, parent, scan, leaver>> /\ child = NULL
      /\ state' = [state EXCEPT ![q] = "free"]
      /\ nr_process' = nr_process - 1
  BY DEF do_wait, Ready
<1> DEFINE old(j) == IF j < k THEN j ELSE j + 1
<1>5. /\ \A j \in DOMAIN proc_list' :
           old(j) \in DOMAIN proc_list /\ old(j) # k /\ proc_list'[j] = proc_list[old(j)]
      /\ \A i, j \in DOMAIN proc_list' : old(i) = old(j) => i = j
  BY <1>1, <1>2, <1>3, TypeFacts
<1> HIDE DEF old
<1>6. \A i \in DOMAIN proc_list : i # k => proc_list[i] # q
  BY <1>1 DEF Inv, ListInv, NoRepeats
<1>7. PICK m \in DOMAIN proc_list : proc_list[m] = initproc
  BY DEF Inv, ListInv
<1>8. m # k
  BY <1>1, <1>7, FamilyAssumption
<1>9. \E i \in DOMAIN proc_list' : proc_list'[i] = initproc
  <2>1. CASE m < k
    <3>1. m \in DOMAIN proc_list' /\ proc_list'[m] = proc_list[m]
      BY <2>1, <1>1, <1>2, <1>3, <1>7, TypeFacts
    <3> QED BY <3>1, <1>7
  <2>2. CASE ~(m < k)
    <3>1. m - 1 \in DOMAIN proc_list' /\ ~(m - 1 < k) /\ m - 1 + 1 = m
      BY <2>2, <1>1, <1>3, <1>7, <1>8, TypeFacts
    <3>2. proc_list'[m - 1] = proc_list[m]
      BY <3>1, <1>2
    <3> QED BY <3>1, <3>2, <1>7
  <2> QED BY <2>1, <2>2
<1>10. \A j \in DOMAIN proc_list' : state'[proc_list'[j]] \in {"alive", "zombie"}
  BY <1>4, <1>5, <1>6, TypeFacts DEF Inv, ListInv, TypeOK
<1>11. ListInv'
  <2>1. NoRepeats'
    BY <1>5 DEF Inv, ListInv, NoRepeats
  <2>2. nr_process' = Len(proc_list') + 1
    BY <1>2, <1>4, TypeFacts DEF Inv, ListInv
  <2> QED BY <2>1, <2>2, <1>4, <1>9, <1>10 DEF ListInv, scan
<1>12. TypeOK'
  <2>1. nr_process' \in 2 .. MAX_PROCESS
    <3>1. Len(proc_list) >= 2
      BY <1>1, <1>7, <1>8, TypeFacts
    <3> QED BY <3>1, <1>4, TypeFacts, FamilyAssumption DEF Inv, TypeOK, ListInv
  <2>2. {cptr', yptr', optr'} \subseteq [Procs -> Procs \cup {NULL}]
    <3>1. q \in Procs /\ optr[q] \in Procs \cup {NULL} /\ yptr[q] \in Procs \cup {NULL}
      BY DEF Inv, TypeOK, Procs
    <3>2. yptr' \in [Procs -> Procs \cup {NULL}]
      BY <3>1 DEF do_wait, Inv, TypeOK
    <3>3. cptr' \in [Procs -> Procs \cup {NULL}] /\ optr' \in [Procs -> Procs \cup {NULL}]
      BY <3>1 DEF do_wait, Inv, TypeOK
    <3> QED BY <3>2, <3>3
  <2>3. state' \in [Procs -> {"free", "new", "alive", "zombie"}] /\ hash_list' \subseteq Procs
    BY <1>4 DEF do_wait, Inv, TypeOK
  <2> QED BY <2>1, <2>2, <2>3, <1>2, <1>4 DEF Inv, TypeOK, scan
<1>13. ScanInv'
  <2>1. \A j \in DOMAIN proc_list' : pid[proc_list'[j]] \notin last_pid + 1 .. next_safe - 1
    BY <1>4, <1>5 DEF Inv, ScanInv
  <2> QED BY <2>1, <1>4 DEF ScanInv, scan
<1>14. UniqueInv'
  BY <1>4, <1>5 DEF Inv, UniqueInv
<1> QED BY <1>11, <1>12, <1>13, <1>14 DEF Inv

LEMMA StepInv == Inv /\ [Next]_vars => Inv'
<1> SUFFICES ASSUME Inv, [Next]_vars PROVE Inv'
  OBVIOUS
<1>1. CASE UNCHANGED vars
  BY <1>1 DEF vars, links, Inv, TypeOK, ListInv, NoRepeats, ScanInv, UniqueInv
<1>2. CASE Next
  BY <1>2, ForkKeeps, GetPidKeeps, SetLinksKeeps, ExitKeeps, WaitKeeps DEF Next
<1> QED BY <1>1, <1>2

LEMMA InvUnique == Inv => PidsUnique
BY TypeFacts DEF Inv, UniqueInv, ScanInv, PidsUnique, WindowFree, Listed

\* No two processes have one pid, however many have been created and whichever of
\* them are still there when the pids come around: get_pid's next_safe bounds a range
\* that is really free (proc.c:196-227).
THEOREM UniquePids == Spec => []PidsUnique
BY InitInv, StepInv, InvUnique, PTL DEF Spec

-----------------------------------------------------------------------------
(***************************************************************************)
(* The pointers between relatives: for every process there is a sequence   *)
(* of its children that they link.                                         *)
(***************************************************************************)
Item(s, i) == IF i \in 1 .. Len(s) THEN s[i] ELSE NULL

\* The list of s that begins at first, along o, and back along y but for its first.
Linked(s, first, o, y) ==
    /\ first = Item(s, 1)
    /\ \A i \in 1 .. Len(s) : o[s[i]] = Item(s, i + 1)
    /\ \A i \in 2 .. Len(s) : y[s[i]] = s[i - 1]

Distinct(s) == \A i, j \in 1 .. Len(s) : s[i] = s[j] => i = j

\* do_exit leaves the yptr of a child that it has not come to yet.
KidsOf(kids) ==
    \A p \in Procs :
      /\ Linked(kids[p], cptr[p], optr, yptr)
      /\ Distinct(kids[p])
      /\ \A q \in Proc : q \in Children(p) <=> \E i \in 1 .. Len(kids[p]) : kids[p][i] = q
      /\ p # leaver /\ cptr[p] # NULL => yptr[cptr[p]] = NULL

\* A parent is older than its children, and initproc is the oldest of all.
OldestLast ==
    /\ proc_list[Len(proc_list)] = initproc
    /\ \A i \in DOMAIN proc_list : proc_list[i] # initproc =>
         \E j \in DOMAIN proc_list : i < j /\ proc_list[j] = parent[proc_list[i]]

\* Who is alive, and who has no children any more.
StateInv ==
    /\ \A p \in Procs : state[p] \in {"alive", "zombie"} => p \in Listed
    /\ \A p \in Procs : state[p] = "zombie" /\ p # leaver => cptr[p] = NULL
    /\ leaver # NULL => state[leaver] = "zombie" /\ child = NULL
    /\ child # NULL => state[parent[child]] = "alive"
    /\ state[initproc] = "alive"
    /\ yptr[initproc] = NULL /\ optr[initproc] = NULL
    /\ hash_list = Listed

TreeInv ==
    /\ \E kids \in [Procs -> Seq(Proc)] : KidsOf(kids)
    /\ OldestLast
    /\ StateInv

-----------------------------------------------------------------------------
\* Every set of natural numbers that has a member has a least one.
LEMMA LeastNat ==
    ASSUME NEW T \in SUBSET Nat, T # {}
    PROVE  \E m \in T : \A n \in T : m <= n
<1> DEFINE Below(n) == 1 .. n
           Sets == {Below(n) : n \in T}
<1>1. Sets \subseteq FiniteSubsetsOf(Nat)
  <2>1. \A n \in T : IsFiniteSet(Below(n)) /\ Below(n) \subseteq Nat
    BY FS_Interval
  <2> QED BY <2>1 DEF FiniteSubsetsOf
<1>2. IsWellFoundedOn(StrictSubsetOrdering(Nat), FiniteSubsetsOf(Nat))
  BY FS_StrictSubsetOrderingWellFounded
<1>3. PICK x \in Sets : \A y \in Sets : ~(<<y, x>> \in StrictSubsetOrdering(Nat))
  <2>1. Sets # {}
    OBVIOUS
  <2> HIDE DEF Sets
  <2> QED BY <1>1, <1>2, <2>1, WFMin
<1>4. PICK m \in T : x = Below(m)
  OBVIOUS
<1>5. ASSUME NEW n \in T, n < m PROVE FALSE
  <2>1. Below(n) \subseteq Below(m) /\ Below(n) \subseteq Nat /\ Below(m) \subseteq Nat
    BY <1>5
  <2>2. m \in Below(m) /\ m \notin Below(n)
    BY <1>5
  <2>3. <<Below(n), Below(m)>> \in StrictSubsetOrdering(Nat)
    BY <2>1, <2>2 DEF StrictSubsetOrdering
  <2> QED BY <1>3, <1>4, <2>3
<1> QED BY <1>5

\* What is in a sequence of children.
LEMMA KidFacts ==
    ASSUME NEW s \in Seq(Proc)
    PROVE  /\ Len(s) \in Nat
           /\ \A i \in 1 .. Len(s) : s[i] \in Proc /\ s[i] # NULL /\ Item(s, i) = s[i]
           /\ \A i : Item(s, i) \in Proc \cup {NULL}
           /\ \A i : Item(s, i) # NULL => i \in 1 .. Len(s) /\ Item(s, i) = s[i]
           /\ Item(s, 1) = NULL <=> Len(s) = 0
<1>1. Len(s) \in Nat
  BY LenProperties
<1>2. \A i \in 1 .. Len(s) : s[i] \in Proc /\ s[i] # NULL
  BY ElementOfSeq, FamilyAssumption
<1>3. \A i \in 1 .. Len(s) : Item(s, i) = s[i]
  BY DEF Item
<1>4. \A i : Item(s, i) \in Proc \cup {NULL}
  BY <1>2 DEF Item
<1>5. \A i : Item(s, i) # NULL => i \in 1 .. Len(s) /\ Item(s, i) = s[i]
  BY DEF Item
<1>6. Item(s, 1) = NULL <=> Len(s) = 0
  <2>1. Len(s) # 0 <=> 1 \in 1 .. Len(s)
    BY <1>1
  <2> QED BY <1>2, <2>1 DEF Item
<1> QED BY <1>1, <1>2, <1>3, <1>4, <1>5, <1>6

\* Pointers of others may change.
LEMMA FrameLinked ==
    ASSUME NEW s \in Seq(Proc), NEW f, NEW o, NEW y, NEW o2, NEW y2, Linked(s, f, o, y),
           \A i \in 1 .. Len(s) : o2[s[i]] = o[s[i]] /\ y2[s[i]] = y[s[i]]
    PROVE  Linked(s, f, o2, y2)
<1>1. Len(s) \in Nat
  BY KidFacts
<1>2. \A i \in 2 .. Len(s) : i \in 1 .. Len(s)
  BY <1>1
<1> QED BY <1>2 DEF Linked

\* The pointers o2 and y2 have q in front of s, which o and y link from f on.
Pushed(s, f, o, y, q, o2, y2) ==
    /\ o2[q] = f
    /\ f # NULL => y2[f] = q
    /\ \A i \in 1 .. Len(s) : o2[s[i]] = o[s[i]]
    /\ \A i \in 2 .. Len(s) : y2[s[i]] = y[s[i]]

\* A new first one.
LEMMA PushLinked ==
    ASSUME NEW s \in Seq(Proc), NEW f, NEW o, NEW y, NEW o2, NEW y2, NEW q \in Proc,
           Linked(s, f, o, y), Pushed(s, f, o, y, q, o2, y2)
    PROVE  Linked(<<q>> \o s, q, o2, y2)
<1> USE DEF Pushed
<1>1. PICK n \in Nat : n = Len(s)
  BY KidFacts
<1>2. PICK t : t = <<q>> \o s
  OBVIOUS
<1>3. /\ t \in Seq(Proc) /\ Len(t) = n + 1 /\ t[1] = q
      /\ \A j \in 1 .. n : t[j + 1] = s[j]
  <2>1. /\ t \in Seq(Proc) /\ Len(t) = Len(s) + 1 /\ t[1] = q
        /\ \A j \in DOMAIN s : j + 1 \in DOMAIN t /\ t[j + 1] = s[j]
    BY <1>2, PrependFacts
  <2>2. DOMAIN s = 1 .. n
    BY <1>1, LenProperties
  <2> QED BY <1>1, <2>1, <2>2
<1>4. \A j \in 1 .. n + 1 : j = 1 \/ \E i \in 1 .. n : j = i + 1
  <2>1. ASSUME NEW j \in 1 .. n + 1, j # 1 PROVE j - 1 \in 1 .. n /\ j = j - 1 + 1
    BY <2>1
  <2> QED BY <2>1
\* The place of a child of s in t is one further.
<1>5. Item(t, 1) = q
  <2>1. 1 \in 1 .. n + 1
    BY <1>1
  <2> QED BY <1>3, <2>1 DEF Item
<1>6. \A i \in 1 .. n + 1 : Item(t, i + 1) = Item(s, i)
  <2>1. ASSUME NEW i \in 1 .. n PROVE Item(t, i + 1) = Item(s, i)
    <3>1. i + 1 \in 1 .. n + 1
      OBVIOUS
    <3> QED BY <1>1, <1>3, <3>1 DEF Item
  <2>2. Item(t, n + 1 + 1) = Item(s, n + 1)
    <3>1. n + 1 + 1 \notin 1 .. n + 1 /\ n + 1 \notin 1 .. n
      OBVIOUS
    <3> QED BY <1>1, <1>3, <3>1 DEF Item
  <2>3. \A i \in 1 .. n + 1 : i = n + 1 \/ i \in 1 .. n
    OBVIOUS
  <2> QED BY <2>1, <2>2, <2>3
<1>7. ASSUME NEW j \in 1 .. n + 1 PROVE o2[t[j]] = Item(t, j + 1)
  <2>1. CASE j = 1
    <3>1. f = Item(s, 1)
      BY DEF Linked
    <3> QED BY <1>3, <1>6, <2>1, <3>1
  <2>2. CASE \E i \in 1 .. n : j = i + 1
    <3>1. PICK i \in 1 .. n : j = i + 1
      BY <2>2
    <3>2. o2[s[i]] = Item(s, i + 1) /\ t[j] = s[i]
      BY <1>1, <1>3, <3>1 DEF Linked
    <3> QED BY <1>6, <3>1, <3>2
  <2> QED BY <1>4, <2>1, <2>2
<1>8. ASSUME NEW j \in 2 .. n + 1 PROVE y2[t[j]] = t[j - 1]
  <2>1. CASE j = 2
    <3>1. 1 \in 1 .. n /\ j - 1 = 1
      BY <2>1
    <3>2. f = s[1] /\ f # NULL /\ t[1 + 1] = s[1]
      BY <1>1, <1>3, <3>1, KidFacts DEF Linked
    <3> QED BY <1>3, <2>1, <3>1, <3>2
  <2>2. CASE j # 2
    <3>1. PICK i \in 2 .. n : j = i + 1
      <4>1. j - 1 \in 2 .. n /\ j = j - 1 + 1
        BY <2>2
      <4> QED BY <4>1
    <3>2. i \in 1 .. n /\ i - 1 \in 1 .. n /\ i - 1 + 1 = i /\ j - 1 = i
      BY <3>1
    <3>3. t[i + 1] = s[i] /\ t[i - 1 + 1] = s[i - 1]
      BY <1>3, <3>2
    <3>4. y2[s[i]] = s[i - 1]
      BY <1>1 DEF Linked
    <3> QED BY <3>1, <3>2, <3>3, <3>4
  <2> QED BY <2>1, <2>2
<1> QED BY <1>2, <1>3, <1>5, <1>7, <1>8 DEF Linked

\* Without the first one.
LEMMA PopLinked ==
    ASSUME NEW s \in Seq(Proc), NEW f, NEW o, NEW y, NEW o2, NEW y2, Linked(s, f, o, y),
           f # NULL,
           \A i \in 2 .. Len(s) : o2[s[i]] = o[s[i]] /\ y2[s[i]] = y[s[i]]
    PROVE  /\ Tail(s) \in Seq(Proc) /\ Len(Tail(s)) = Len(s) - 1 /\ s # <<>> /\ s[1] = f
           /\ \A i \in 1 .. Len(s) - 1 : Tail(s)[i] = s[i + 1]
           /\ Linked(Tail(s), o[f], o2, y2)
<1>1. PICK n \in Nat : n = Len(s)
  BY KidFacts
<1>2. n # 0 /\ s # <<>> /\ 1 \in 1 .. n /\ s[1] = f
  <2>1. Item(s, 1) = f
    BY DEF Linked
  <2>2. 1 \in 1 .. n /\ s[1] = f
    BY <1>1, <2>1, KidFacts
  <2> QED BY <1>1, <2>2, EmptySeq
<1>3. PICK t : t = Tail(s)
  OBVIOUS
<1>4. t \in Seq(Proc) /\ Len(t) = n - 1 /\ \A i \in 1 .. n - 1 : t[i] = s[i + 1]
  BY <1>1, <1>2, <1>3, HeadTailProperties
<1>5. \A i \in 1 .. n : Item(t, i) = Item(s, i + 1)
  <2>1. ASSUME NEW i \in 1 .. n - 1 PROVE Item(t, i) = Item(s, i + 1)
    <3>1. i + 1 \in 1 .. n
      BY <1>1
    <3> QED BY <1>1, <1>4, <3>1 DEF Item
  <2>2. Item(t, n) = Item(s, n + 1)
    <3>1. n \notin 1 .. n - 1 /\ n + 1 \notin 1 .. n
      OBVIOUS
    <3> QED BY <1>1, <1>4, <3>1 DEF Item
  <2>3. \A i \in 1 .. n : i = n \/ i \in 1 .. n - 1
    OBVIOUS
  <2> QED BY <2>1, <2>2, <2>3
<1>6. o[f] = Item(t, 1)
  BY <1>1, <1>2, <1>5 DEF Linked
<1>7. ASSUME NEW i \in 1 .. n - 1 PROVE o2[t[i]] = Item(t, i + 1)
  <2>1. i + 1 \in 2 .. n /\ i + 1 \in 1 .. n
    BY <1>1
  <2>2. o2[s[i + 1]] = Item(s, i + 1 + 1)
    BY <1>1, <2>1 DEF Linked
  <2> QED BY <1>4, <1>5, <2>1, <2>2
<1>8. ASSUME NEW i \in 2 .. n - 1 PROVE y2[t[i]] = t[i - 1]
  <2>1. i + 1 \in 2 .. n /\ i \in 1 .. n - 1 /\ i - 1 \in 1 .. n - 1 /\ i - 1 + 1 = i /\ i + 1 - 1 = i
    BY <1>1
  <2>2. y2[s[i + 1]] = s[i + 1 - 1]
    BY <1>1, <2>1 DEF Linked
  <2>3. t[i] = s[i + 1] /\ t[i - 1] = s[i - 1 + 1]
    BY <1>4, <2>1
  <2> QED BY <2>1, <2>2, <2>3
<1>9. Linked(t, o[f], o2, y2)
  BY <1>4, <1>6, <1>7, <1>8 DEF Linked
<1> QED BY <1>1, <1>2, <1>3, <1>4, <1>9

\* The pointers o2 and y2, from f2 on, skip the k-th one of s, which o and y link from f on.
Skipped(s, f, o, y, k, f2, o2, y2) ==
    /\ IF k = 1 THEN f2 = o[s[k]] ELSE f2 = f /\ o2[s[k - 1]] = o[s[k]]
    /\ k < Len(s) => y2[s[k + 1]] = y[s[k]]
    /\ \A i \in 1 .. Len(s) : i # k /\ i # k - 1 => o2[s[i]] = o[s[i]]
    /\ \A i \in 1 .. Len(s) : i # k /\ i # k + 1 => y2[s[i]] = y[s[i]]

\* Without the k-th one.
LEMMA RemoveLinked ==
    ASSUME NEW s \in Seq(Proc), NEW f, NEW o, NEW y, NEW f2, NEW o2, NEW y2,
           NEW k \in 1 .. Len(s),
           Linked(s, f, o, y), Skipped(s, f, o, y, k, f2, o2, y2)
    PROVE  Linked(RemoveAt(s, k), f2, o2, y2)
<1> USE DEF Skipped
<1>1. PICK n \in Nat : n = Len(s)
  BY KidFacts
<1>2. PICK t : t = RemoveAt(s, k)
  OBVIOUS
<1>3. k \in 1 .. n /\ k \in Nat /\ k >= 1
  BY <1>1
<1>4. /\ t \in Seq(Proc) /\ Len(t) = n - 1
      /\ \A j \in 1 .. n - 1 : j < k => t[j] = s[j]
      /\ \A j \in 1 .. n - 1 : ~(j < k) => t[j] = s[j + 1]
  <2>1. k \in DOMAIN s
    BY LenProperties
  <2>2. /\ t \in Seq(Proc) /\ Len(t) = Len(s) - 1
        /\ \A j \in DOMAIN t :
             /\ j < k => t[j] = s[j]
             /\ ~(j < k) => t[j] = s[j + 1]
    BY <1>2, <2>1, RemoveAtFacts
  <2>3. DOMAIN t = 1 .. n - 1
    BY <1>1, <2>2, LenProperties
  <2> QED BY <1>1, <2>2, <2>3
<1>5. \A j \in 1 .. n : j < k => Item(t, j) = Item(s, j)
  <2>1. ASSUME NEW j \in 1 .. n, j < k PROVE j \in 1 .. n - 1
    BY <2>1, <1>3
  <2> QED BY <1>1, <1>4, <2>1 DEF Item
<1>6. \A j \in 1 .. n : ~(j < k) => Item(t, j) = Item(s, j + 1)
  <2>1. ASSUME NEW j \in 1 .. n, ~(j < k), j # n PROVE Item(t, j) = Item(s, j + 1)
    <3>1. j \in 1 .. n - 1 /\ j + 1 \in 1 .. n
      BY <2>1
    <3> QED BY <1>1, <1>4, <2>1, <3>1 DEF Item
  <2>2. Item(t, n) = Item(s, n + 1)
    <3>1. n \notin 1 .. n - 1 /\ n + 1 \notin 1 .. n
      OBVIOUS
    <3> QED BY <1>1, <1>4, <3>1 DEF Item
  <2> QED BY <2>1, <2>2
<1>7. \A j \in 1 .. n : o[s[j]] = Item(s, j + 1)
  BY <1>1 DEF Linked
<1>8. \A j \in 2 .. n : y[s[j]] = s[j - 1]
  BY <1>1 DEF Linked
<1>9. f2 = Item(t, 1)
  <2>1. 1 \in 1 .. n
    BY <1>3
  <2>2. CASE k = 1
    <3>1. Item(t, 1) = Item(s, 2)
      BY <1>6, <2>1, <2>2
    <3> QED BY <1>7, <2>1, <2>2, <3>1
  <2>3. CASE k # 1
    <3>1. Item(t, 1) = Item(s, 1)
      BY <1>3, <1>5, <2>1, <2>3
    <3> QED BY <2>3, <3>1 DEF Linked
  <2> QED BY <2>2, <2>3
<1>10. ASSUME NEW j \in 1 .. n - 1 PROVE o2[t[j]] = Item(t, j + 1)
  <2>1. CASE j + 1 < k
    <3>1. j \in 1 .. n /\ j + 1 \in 1 .. n /\ j # k /\ j # k - 1 /\ j < k
      BY <1>3, <2>1
    <3>2. o2[s[j]] = o[s[j]]
      BY <1>1, <3>1
    <3> QED BY <1>4, <1>5, <1>7, <2>1, <3>1, <3>2
  <2>2. CASE j + 1 = k
    <3>1. j \in 1 .. n /\ j < k /\ k # 1 /\ k - 1 = j /\ ~(k < k)
      BY <1>3, <2>2
    <3>2. o2[s[j]] = o[s[k]]
      BY <3>1
    <3>3. Item(t, k) = Item(s, k + 1)
      BY <1>3, <1>6, <3>1
    <3> QED BY <1>3, <1>4, <1>7, <2>2, <3>1, <3>2, <3>3
  <2>3. CASE k < j + 1
    <3>1. /\ j + 1 \in 1 .. n /\ j + 1 # k /\ j + 1 # k - 1
          /\ ~(j < k) /\ ~(j + 1 < k)
      BY <1>3, <2>3
    <3>2. o2[s[j + 1]] = o[s[j + 1]]
      BY <1>1, <3>1
    <3> QED BY <1>4, <1>6, <1>7, <3>1, <3>2
  <2> QED BY <1>3, <2>1, <2>2, <2>3
<1>11. ASSUME NEW j \in 2 .. n - 1 PROVE y2[t[j]] = t[j - 1]
  <2>1. j \in 1 .. n - 1 /\ j - 1 \in 1 .. n - 1 /\ j - 1 + 1 = j /\ j + 1 - 1 = j
    OBVIOUS
  <2>2. CASE j < k
    <3>1. j \in 1 .. n /\ j \in 2 .. n /\ j # k /\ j # k + 1 /\ j - 1 < k
      BY <1>3, <2>2
    <3>2. y2[s[j]] = y[s[j]]
      BY <1>1, <3>1
    <3> QED BY <1>4, <1>8, <2>1, <2>2, <3>1, <3>2
  <2>3. CASE j = k
    <3>1. k < n /\ k \in 2 .. n /\ k - 1 < k /\ ~(k < k)
      BY <1>3, <2>3
    <3>2. y2[s[k + 1]] = y[s[k]]
      BY <1>1, <3>1
    <3> QED BY <1>4, <1>8, <2>1, <2>3, <3>1, <3>2
  <2>4. CASE k < j
    <3>1. /\ j + 1 \in 1 .. n /\ j + 1 \in 2 .. n /\ j + 1 # k /\ j + 1 # k + 1
          /\ ~(j < k) /\ ~(j - 1 < k)
      BY <1>3, <2>4
    <3>2. y2[s[j + 1]] = y[s[j + 1]]
      BY <1>1, <3>1
    <3>3. t[j] = s[j + 1] /\ t[j - 1] = s[j - 1 + 1]
      BY <1>4, <2>1, <3>1
    <3> QED BY <1>8, <2>1, <3>1, <3>2, <3>3
  <2> QED BY <1>3, <2>2, <2>3, <2>4
<1> QED BY <1>2, <1>4, <1>9, <1>10, <1>11 DEF Linked

-----------------------------------------------------------------------------
\* What the pointers tell of the children.
LEMMA TreeFacts ==
    ASSUME Inv, NEW kids \in [Procs -> Seq(Proc)], KidsOf(kids)
    PROVE  /\ \A p \in Procs :
                /\ kids[p] \in Seq(Proc) /\ Len(kids[p]) \in Nat
                /\ Linked(kids[p], cptr[p], optr, yptr)
                /\ Distinct(kids[p])
                /\ cptr[p] = NULL <=> Len(kids[p]) = 0
                /\ cptr[p] # NULL => 1 \in 1 .. Len(kids[p]) /\ cptr[p] = kids[p][1]
           /\ \A p \in Procs : \A i \in 1 .. Len(kids[p]) :
                /\ kids[p][i] \in Proc /\ kids[p][i] # NULL /\ kids[p][i] # initproc
                /\ kids[p][i] \in Listed
                /\ parent[kids[p][i]] = p
           /\ \A p \in Procs : \A q \in Proc :
                q \in Listed /\ parent[q] = p => \E i \in 1 .. Len(kids[p]) : kids[p][i] = q
<1>1. \A p \in Procs : kids[p] \in Seq(Proc) /\ Len(kids[p]) \in Nat
  BY KidFacts
<1>2. \A p \in Procs :
        /\ Linked(kids[p], cptr[p], optr, yptr) /\ Distinct(kids[p])
        /\ \A q \in Proc : q \in Children(p) <=> \E i \in 1 .. Len(kids[p]) : kids[p][i] = q
  BY DEF KidsOf
<1>3. ASSUME NEW p \in Procs
      PROVE  /\ cptr[p] = NULL <=> Len(kids[p]) = 0
             /\ cptr[p] # NULL => 1 \in 1 .. Len(kids[p]) /\ cptr[p] = kids[p][1]
  <2>1. Item(kids[p], 1) = cptr[p]
    BY <1>2 DEF Linked
  <2> QED BY <1>1, <2>1, KidFacts
<1>4. \A p \in Procs : \A i \in 1 .. Len(kids[p]) :
        kids[p][i] \in Proc /\ kids[p][i] # NULL
  BY <1>1, KidFacts
<1>5. \A p \in Procs : \A i \in 1 .. Len(kids[p]) : kids[p][i] \in Children(p)
  BY <1>2, <1>4
<1>6. \A p \in Procs : \A i \in 1 .. Len(kids[p]) :
        kids[p][i] \in Listed /\ parent[kids[p][i]] = p
  BY <1>5 DEF Children
<1>7. \A q \in Proc : q # initproc
  BY FamilyAssumption
<1>8. \A p \in Procs : \A q \in Proc : q \in Listed /\ parent[q] = p => q \in Children(p)
  BY <1>7 DEF Children
<1> QED BY <1>1, <1>2, <1>3, <1>4, <1>6, <1>7, <1>8

\* The same about the children of one process.
ChildrenOf(r, kids) ==
    /\ kids[r] \in Seq(Proc) /\ Len(kids[r]) \in Nat
    /\ Linked(kids[r], cptr[r], optr, yptr)
    /\ Distinct(kids[r])
    /\ cptr[r] = NULL <=> Len(kids[r]) = 0
    /\ cptr[r] # NULL => 1 \in 1 .. Len(kids[r]) /\ cptr[r] = kids[r][1]
    /\ \A i \in 1 .. Len(kids[r]) :
         /\ kids[r][i] \in Proc /\ kids[r][i] \in Procs
         /\ kids[r][i] \in Listed /\ parent[kids[r][i]] = r
    /\ \A x \in Proc : x \in Children(r) <=> \E i \in 1 .. Len(kids[r]) : kids[r][i] = x
    /\ r # leaver /\ cptr[r] # NULL => yptr[cptr[r]] = NULL

LEMMA KidsOfOne ==
    ASSUME Inv, NEW kids \in [Procs -> Seq(Proc)], KidsOf(kids), NEW r \in Procs
    PROVE  ChildrenOf(r, kids)
<1>1. /\ kids[r] \in Seq(Proc) /\ Len(kids[r]) \in Nat
      /\ Linked(kids[r], cptr[r], optr, yptr)
      /\ Distinct(kids[r])
      /\ cptr[r] = NULL <=> Len(kids[r]) = 0
      /\ cptr[r] # NULL => 1 \in 1 .. Len(kids[r]) /\ cptr[r] = kids[r][1]
  BY TreeFacts
<1>2. \A i \in 1 .. Len(kids[r]) :
        kids[r][i] \in Proc /\ kids[r][i] \in Listed /\ parent[kids[r][i]] = r
  BY TreeFacts
<1>3. Proc \subseteq Procs
  BY DEF Procs
<1>4. /\ \A x \in Proc : x \in Children(r) <=> \E i \in 1 .. Len(kids[r]) : kids[r][i] = x
      /\ r # leaver /\ cptr[r] # NULL => yptr[cptr[r]] = NULL
  BY DEF KidsOf
<1> QED BY <1>1, <1>2, <1>3, <1>4 DEF ChildrenOf

\* Who is in a list of n, s, with c in front.
OnTop(n, s, t, c) ==
    /\ t[1] = c
    /\ \A j \in 1 .. n : t[j + 1] = s[j]
    /\ \A j \in 1 .. n + 1 : j # 1 => j - 1 \in 1 .. n /\ t[j] = s[j - 1]

AddsMember(n, s, t, c, x) ==
    (\E i \in 1 .. n + 1 : t[i] = x) <=> x = c \/ \E i \in 1 .. n : s[i] = x

LEMMA PushedMembers ==
    ASSUME NEW n \in Nat, NEW s, NEW t, NEW c, NEW x, OnTop(n, s, t, c)
    PROVE  AddsMember(n, s, t, c, x)
<1>1. ASSUME NEW i \in 1 .. n + 1, t[i] = x, x # c PROVE \E j \in 1 .. n : s[j] = x
  <2>1. i # 1
    BY <1>1 DEF OnTop
  <2> QED BY <1>1, <2>1 DEF OnTop
<1>2. ASSUME NEW j \in 1 .. n, s[j] = x PROVE \E i \in 1 .. n + 1 : t[i] = x
  <2>1. j + 1 \in 1 .. n + 1 /\ t[j + 1] = x
    BY <1>2 DEF OnTop
  <2> QED BY <2>1
<1>3. 1 \in 1 .. n + 1 /\ t[1] = c
  BY DEF OnTop
<1> QED BY <1>1, <1>2, <1>3 DEF AddsMember

\* The parent of a listed process is listed.
LEMMA ParentListed ==
    ASSUME Inv, OldestLast
    PROVE  /\ Listed \subseteq Procs
           /\ initproc \in Listed
           /\ \A q \in Listed : q # initproc => q \in Proc /\ parent[q] \in Listed
BY TypeFacts DEF OldestLast, Listed, Procs, Inv, ListInv

LEMMA InitTree == Init => TreeInv
<1> SUFFICES ASSUME Init PROVE TreeInv
  OBVIOUS
<1>1. Len(proc_list) = 1 /\ DOMAIN proc_list = {1} /\ proc_list[1] = initproc
  BY DEF Init
<1>2. Listed = {initproc}
  BY <1>1 DEF Listed
<1>3. OldestLast
  BY <1>1 DEF OldestLast
<1>4. StateInv
  BY <1>2, FamilyAssumption DEF Init, StateInv, Procs
<1>5. PICK kids \in [Procs -> Seq(Proc)] : kids = [p \in Procs |-> <<>>]
  <2>1. <<>> \in Seq(Proc)
    OBVIOUS
  <2> QED BY <2>1
<1>6. ASSUME NEW p \in Procs
      PROVE  /\ Linked(kids[p], cptr[p], optr, yptr)
             /\ Distinct(kids[p])
             /\ \A q \in Proc : q \in Children(p) <=> \E i \in 1 .. Len(kids[p]) : kids[p][i] = q
             /\ cptr[p] = NULL
  <2>1. Len(kids[p]) = 0 /\ cptr[p] = NULL
    BY <1>5 DEF Init
  <2>2. 1 .. Len(kids[p]) = {} /\ 2 .. Len(kids[p]) = {}
    BY <2>1
  <2>3. Linked(kids[p], cptr[p], optr, yptr) /\ Distinct(kids[p])
    BY <2>1, <2>2 DEF Linked, Distinct, Item
  <2>4. Children(p) = {}
    BY <1>2 DEF Children
  <2> QED BY <2>1, <2>2, <2>3, <2>4
<1>7. KidsOf(kids)
  BY <1>6 DEF KidsOf
<1> QED BY <1>3, <1>4, <1>7 DEF TreeInv

\* A struct that is not in the list is nobody's child, and has none.
LEMMA ForkTree ==
    ASSUME Inv, TreeInv, NEW p \in Procs, NEW q \in Proc, do_fork(p, q)
    PROVE  TreeInv'
<1>1. PICK kids \in [Procs -> Seq(Proc)] : KidsOf(kids)
  BY DEF TreeInv
<1>2. OldestLast /\ StateInv
  BY DEF TreeInv
<1>3. /\ q \notin Listed /\ q \in Procs /\ q # initproc /\ q # p /\ leaver = NULL /\ leaver' = NULL
      /\ child' = q /\ UNCHANGED <<proc_list, hash_list>> /\ Listed' = Listed
  BY FamilyAssumption DEF do_fork, Ready, Inv, ListInv, Listed, Procs
<1>4. /\ \A x \in Procs : x # q => state'[x] = state[x] /\ cptr'[x] = cptr[x]
                             /\ yptr'[x] = yptr[x] /\ optr'[x] = optr[x]
      /\ \A x \in Proc : x # q => parent'[x] = parent[x]
      /\ state'[q] = "new" /\ cptr'[q] = NULL /\ parent'[q] = p
  BY <1>3 DEF do_fork, Inv, TypeOK
<1>5. Listed \subseteq Procs /\ \A x \in Listed : x # initproc => x \in Proc /\ parent[x] \in Listed
  BY <1>2, ParentListed
<1>6. Children(q) = {}
  BY <1>3, <1>5 DEF Children
<1>7. \A r \in Procs : Children(r)' = Children(r)
  BY <1>3, <1>4, <1>5 DEF Children
<1>8. ASSUME NEW r \in Procs
      PROVE  /\ Linked(kids[r], cptr'[r], optr', yptr')
             /\ Distinct(kids[r])
             /\ \A x \in Proc : x \in Children(r)' <=> \E i \in 1 .. Len(kids[r]) : kids[r][i] = x
             /\ r # leaver' /\ cptr'[r] # NULL => yptr'[cptr'[r]] = NULL
  <2>1. /\ kids[r] \in Seq(Proc) /\ Len(kids[r]) \in Nat
        /\ Linked(kids[r], cptr[r], optr, yptr)
        /\ Distinct(kids[r])
        /\ \A i \in 1 .. Len(kids[r]) : kids[r][i] \in Proc /\ kids[r][i] \in Listed
        /\ cptr[r] # NULL => 1 \in 1 .. Len(kids[r]) /\ cptr[r] = kids[r][1]
    <3>1. ChildrenOf(r, kids)
      BY <1>1, KidsOfOne
    <3> QED BY <3>1 DEF ChildrenOf
  <2>2. \A i \in 1 .. Len(kids[r]) : optr'[kids[r][i]] = optr[kids[r][i]] /\ yptr'[kids[r][i]] = yptr[kids[r][i]]
    BY <1>3, <1>4, <2>1 DEF Procs
  <2>3. Linked(kids[r], cptr[r], optr', yptr')
    BY <2>1, <2>2, FrameLinked
  <2>4. \A x \in Proc : x \in Children(r)' <=> \E i \in 1 .. Len(kids[r]) : kids[r][i] = x
    BY <1>1, <1>7 DEF KidsOf
  <2>5. cptr'[r] = cptr[r]
    <3>1. CASE r = q
      <4>1. cptr[r] = NULL
        BY <1>6, <2>1, <1>1, <3>1 DEF KidsOf
      <4> QED BY <1>4, <3>1, <4>1
    <3> QED BY <1>4, <3>1
  <2>6. cptr[r] # NULL => yptr'[cptr[r]] = NULL
    <3>1. cptr[r] # NULL => yptr[cptr[r]] = NULL
      BY <1>1, <1>3, FamilyAssumption DEF KidsOf, Procs
    <3> QED BY <2>1, <2>2, <3>1
  <2> QED BY <2>1, <2>3, <2>4, <2>5, <2>6
<1>9. KidsOf(kids)'
  BY <1>8 DEF KidsOf
<1>10. OldestLast'
  <2>1. \A i \in DOMAIN proc_list : proc_list[i] # initproc => parent'[proc_list[i]] = parent[proc_list[i]]
    BY <1>3, <1>4, <1>5 DEF Listed
  <2> QED BY <1>2, <1>3, <2>1 DEF OldestLast
<1>11. StateInv'
  <2>1. \A x \in Procs : state'[x] \in {"alive", "zombie"} => x \in Listed'
    BY <1>2, <1>3, <1>4 DEF StateInv
  <2>2. \A x \in Procs : state'[x] = "zombie" /\ x # leaver' => cptr'[x] = NULL
    BY <1>2, <1>3, <1>4 DEF StateInv
  <2>3. state'[parent'[child']] = "alive"
    BY <1>3, <1>4 DEF do_fork
  <2>4. state'[initproc] = "alive" /\ yptr'[initproc] = NULL /\ optr'[initproc] = NULL
    BY <1>2, <1>3, <1>4 DEF StateInv, Procs
  <2> QED BY <1>2, <1>3, <2>1, <2>2, <2>3, <2>4 DEF StateInv
<1> QED BY <1>9, <1>10, <1>11 DEF TreeInv

\* Pointers and list stay: a search goes on, a process exits, or nothing happens.
LEMMA StillTree ==
    ASSUME Inv, TreeInv,
           get_pid \/ (\E p \in Proc : do_exit(p)) \/ Gone \/ UNCHANGED vars
    PROVE  TreeInv'
<1>1. PICK kids \in [Procs -> Seq(Proc)] : KidsOf(kids)
  BY DEF TreeInv
<1>2. OldestLast /\ StateInv
  BY DEF TreeInv
<1>3. UNCHANGED <<parent, cptr, yptr, optr, proc_list, hash_list>>
  BY DEF get_pid, do_exit, Gone, vars, links
<1>4. \A p \in Procs : p # leaver' /\ cptr[p] # NULL => p # leaver
  BY FamilyAssumption DEF get_pid, do_exit, Ready, Gone, vars, Procs
<1>5. KidsOf(kids)'
  <2>1. Listed' = Listed /\ \A p : Children(p)' = Children(p)
    BY <1>3 DEF Listed, Children
  <2> QED BY <1>1, <1>3, <1>4, <2>1, FamilyAssumption DEF KidsOf, Procs
<1>6. OldestLast'
  BY <1>2, <1>3 DEF OldestLast
<1>7. StateInv'
  <2>1. Listed' = Listed
    BY <1>3 DEF Listed
  <2>2. CASE get_pid \/ UNCHANGED vars
    <3>1. UNCHANGED <<state, child, leaver>>
      BY <2>2 DEF get_pid, vars
    <3> QED BY <1>2, <1>3, <2>1, <3>1 DEF StateInv
  <2>3. CASE Gone
    <3>1. UNCHANGED <<state, child>> /\ leaver' = NULL /\ cptr[leaver] = NULL
      BY <2>3 DEF Gone, scan
    <3>2. \A p \in Procs : state[p] = "zombie" => cptr[p] = NULL
      BY <1>2, <3>1 DEF StateInv
    <3> QED BY <1>2, <1>3, <2>1, <3>1, <3>2 DEF StateInv
  <2>4. ASSUME NEW p \in Proc, do_exit(p) PROVE StateInv'
    <3>1. /\ state' = [state EXCEPT ![p] = "zombie"] /\ leaver' = p /\ leaver = NULL
          /\ child = NULL /\ child' = NULL /\ p \in Procs /\ p # initproc /\ state[p] = "alive"
          /\ p \in Procs /\ initproc \in Procs
      BY <2>4, FamilyAssumption DEF do_exit, Ready, scan, Procs
    <3>2. \A x \in Procs : state'[x] = IF x = p THEN "zombie" ELSE state[x]
      BY <3>1 DEF Inv, TypeOK
    <3>3. \A x \in Procs : x # leaver
      BY <3>1, FamilyAssumption DEF Procs
    <3>4. \A x \in Procs : state'[x] \in {"alive", "zombie"} => x \in Listed'
      BY <1>2, <2>1, <3>1, <3>2 DEF StateInv
    <3>5. \A x \in Procs : state'[x] = "zombie" /\ x # leaver' => cptr'[x] = NULL
      BY <1>2, <1>3, <3>1, <3>2, <3>3 DEF StateInv
    <3> QED BY <1>2, <1>3, <2>1, <3>1, <3>2, <3>4, <3>5 DEF StateInv
  <2> QED BY <2>2, <2>3, <2>4
<1> QED BY <1>5, <1>6, <1>7 DEF TreeInv

\* The new process comes in front of the children of its parent.
LEMMA SetLinksTree ==
    ASSUME Inv, TreeInv, set_links
    PROVE  TreeInv'
<1>1. PICK kids \in [Procs -> Seq(Proc)] : KidsOf(kids)
  BY DEF TreeInv
<1>2. OldestLast /\ StateInv
  BY DEF TreeInv
<1>3. PICK c \in Proc : c = child
  BY FamilyAssumption DEF set_links, Inv, TypeOK
<1>4. PICK p \in Procs : p = parent[c]
  BY <1>3, FamilyAssumption DEF Inv, ListInv
<1>5. /\ c # NULL /\ c # initproc /\ c \in Procs /\ NULL \notin Procs
      /\ state[c] = "new" /\ state[p] = "alive" /\ p # c
      /\ leaver = NULL /\ leaver' = NULL /\ child' = NULL
      /\ c \notin Listed /\ p \in Listed
  <2>1. c # NULL /\ c # initproc /\ c \in Procs /\ NULL \notin Procs
    BY FamilyAssumption DEF Procs
  <2>2. state[c] = "new" /\ state[p] = "alive"
    BY <1>2, <1>3, <1>4, <2>1 DEF Inv, ListInv, StateInv
  <2>3. leaver = NULL
    BY <1>2, <1>3, <2>1 DEF StateInv
  <2>4. c \notin Listed
    BY <2>2 DEF Inv, ListInv, Listed
  <2>5. p \in Listed
    BY <1>2, <2>2 DEF StateInv
  <2> QED BY <2>1, <2>2, <2>3, <2>4, <2>5 DEF set_links
<1>6. /\ proc_list' = <<c>> \o proc_list /\ hash_list' = hash_list \cup {c}
      /\ parent' = parent
      /\ state' = [state EXCEPT ![c] = "alive"]
      /\ cptr' = [cptr EXCEPT ![p] = c]
      /\ optr' = [optr EXCEPT ![c] = cptr[p]]
      /\ yptr' = InFrontOf(p, c)
  BY <1>3, <1>4 DEF set_links
<1>7. /\ \A x \in Procs : state'[x] = IF x = c THEN "alive" ELSE state[x]
      /\ \A x \in Procs : cptr'[x] = IF x = p THEN c ELSE cptr[x]
      /\ \A x \in Procs : optr'[x] = IF x = c THEN cptr[p] ELSE optr[x]
      /\ \A x \in Procs : yptr'[x] = IF x = c THEN NULL ELSE IF x = cptr[p] THEN c ELSE yptr[x]
  <2>1. state \in [Procs -> {"free", "new", "alive", "zombie"}] /\ DOMAIN cptr = Procs /\ DOMAIN optr = Procs
    BY DEF Inv, TypeOK
  <2> QED BY <1>5, <1>6, <2>1 DEF InFrontOf
<1>8. Listed' = Listed \cup {c}
  <2>1. /\ <<c>> \o proc_list \in Seq(Procs)
        /\ (<<c>> \o proc_list)[1] = c
        /\ Len(<<c>> \o proc_list) = Len(proc_list) + 1
        /\ \A j \in DOMAIN (<<c>> \o proc_list) :
             j # 1 => j - 1 \in DOMAIN proc_list /\ (<<c>> \o proc_list)[j] = proc_list[j - 1]
        /\ \A j \in DOMAIN proc_list :
             j + 1 \in DOMAIN (<<c>> \o proc_list) /\ (<<c>> \o proc_list)[j + 1] = proc_list[j]
    <3>1. proc_list \in Seq(Procs)
      BY DEF Inv, TypeOK
    <3> QED BY <1>5, <3>1, PrependFacts
  <2>2. 1 \in DOMAIN (<<c>> \o proc_list)
    <3>1. DOMAIN (<<c>> \o proc_list) = 1 .. Len(proc_list) + 1
      BY <2>1, LenProperties
    <3> QED BY <3>1, TypeFacts
  <2>3. PICK l : l = <<c>> \o proc_list
    OBVIOUS
  <2>4. {l[i] : i \in DOMAIN l} = {proc_list[i] : i \in DOMAIN proc_list} \cup {c}
    <3>1. \A i \in DOMAIN l : l[i] = c \/ l[i] \in {proc_list[j] : j \in DOMAIN proc_list}
      BY <2>1, <2>3
    <3>2. c \in {l[i] : i \in DOMAIN l}
      BY <2>1, <2>2, <2>3
    <3>3. \A i \in DOMAIN proc_list : proc_list[i] \in {l[j] : j \in DOMAIN l}
      BY <2>1, <2>3
    <3> QED BY <3>1, <3>2, <3>3
  <2> QED BY <1>6, <2>3, <2>4 DEF Listed
<1>9. PICK t : t = <<c>> \o kids[p]
  OBVIOUS
<1>10. PICK kids2 \in [Procs -> Seq(Proc)] : kids2 = [kids EXCEPT ![p] = t]
  <2>1. t \in Seq(Proc)
    BY <1>9, PrependFacts
  <2> QED BY <2>1
<1>11. kids2[p] = t /\ \A r \in Procs : r # p => kids2[r] = kids[r]
  BY <1>10
<1>12. ASSUME NEW r \in Procs
       PROVE  /\ kids[r] \in Seq(Proc) /\ Len(kids[r]) \in Nat
              /\ Linked(kids[r], cptr[r], optr, yptr)
              /\ Distinct(kids[r])
              /\ cptr[r] # NULL => 1 \in 1 .. Len(kids[r]) /\ cptr[r] = kids[r][1]
              /\ \A i \in 1 .. Len(kids[r]) :
                   /\ kids[r][i] \in Proc /\ kids[r][i] \in Procs /\ kids[r][i] # c
                   /\ kids[r][i] \in Listed /\ parent[kids[r][i]] = r
              /\ \A x \in Proc : x \in Children(r) <=> \E i \in 1 .. Len(kids[r]) : kids[r][i] = x
              /\ cptr[r] # NULL => yptr[cptr[r]] = NULL
  <2>0. ChildrenOf(r, kids)
    BY <1>1, KidsOfOne
  <2>1. /\ kids[r] \in Seq(Proc) /\ Len(kids[r]) \in Nat
        /\ Linked(kids[r], cptr[r], optr, yptr)
        /\ Distinct(kids[r])
        /\ cptr[r] # NULL => 1 \in 1 .. Len(kids[r]) /\ cptr[r] = kids[r][1]
    BY <2>0 DEF ChildrenOf
  <2>2. \A i \in 1 .. Len(kids[r]) :
          /\ kids[r][i] \in Proc /\ kids[r][i] \in Procs
          /\ kids[r][i] \in Listed /\ parent[kids[r][i]] = r
    BY <2>0 DEF ChildrenOf
  <2>3. \A i \in 1 .. Len(kids[r]) : kids[r][i] # c
    BY <1>5, <2>2
  <2>4. /\ \A x \in Proc : x \in Children(r) <=> \E i \in 1 .. Len(kids[r]) : kids[r][i] = x
        /\ r # leaver /\ cptr[r] # NULL => yptr[cptr[r]] = NULL
    BY <2>0 DEF ChildrenOf
  <2>5. r # leaver
    BY <1>5
  <2> QED BY <2>1, <2>2, <2>3, <2>4, <2>5
<1>13. /\ Linked(kids2[p], cptr'[p], optr', yptr') /\ Distinct(kids2[p])
       /\ \A x \in Proc : x \in Children(p)' <=> \E i \in 1 .. Len(kids2[p]) : kids2[p][i] = x
       /\ cptr'[p] # NULL => yptr'[cptr'[p]] = NULL
  <2>1. PICK s \in Seq(Proc) : s = kids[p]
    OBVIOUS
  <2>2. PICK n \in Nat : n = Len(s)
    BY <1>12, <2>1
  <2>3. \A i \in 1 .. Len(s) : optr'[s[i]] = optr[s[i]]
    BY <1>7, <1>12, <2>1
  <2>4. \A i \in 2 .. Len(s) : yptr'[s[i]] = yptr[s[i]]
    <3>1. ASSUME NEW i \in 2 .. n PROVE s[i] # cptr[p] /\ s[i] # c /\ s[i] \in Procs
      <4>1. i \in 1 .. n /\ 1 \in 1 .. n /\ i # 1
        BY <3>1
      <4>2. \A a, b \in 1 .. n : s[a] = s[b] => a = b
        BY <1>12, <2>1, <2>2 DEF Distinct
      <4>3. s[i] # s[1]
        BY <4>1, <4>2
      <4>4. s[i] # c /\ s[i] \in Procs /\ s[i] # NULL
        <5>1. \A j \in 1 .. Len(kids[p]) : kids[p][j] \in Procs /\ kids[p][j] # c
          BY <1>12
        <5> QED BY <1>5, <2>1, <2>2, <4>1, <5>1
      <4>5. cptr[p] = NULL \/ cptr[p] = s[1]
        BY <1>12, <2>1
      <4> QED BY <4>3, <4>4, <4>5
    <3> QED BY <1>7, <2>2, <3>1
  <2>6. Linked(s, cptr[p], optr, yptr)
    BY <1>12, <2>1
  <2>7. optr'[c] = cptr[p]
    BY <1>5, <1>7
  <2>8. cptr[p] # NULL => yptr'[cptr[p]] = c
    BY <1>5, <1>7, <1>12
  <2>9. Linked(<<c>> \o s, c, optr', yptr')
    <3>1. Pushed(s, cptr[p], optr, yptr, c, optr', yptr')
      BY <2>3, <2>4, <2>7, <2>8 DEF Pushed
    <3> QED BY <1>3, <2>1, <2>6, <3>1, PushLinked
  <2>10. cptr'[p] = c /\ yptr'[c] = NULL
    BY <1>5, <1>7
  <2>11. /\ Len(t) = n + 1 /\ t[1] = c
         /\ \A j \in 1 .. n : t[j + 1] = s[j]
         /\ \A j \in 1 .. n + 1 : j # 1 => j - 1 \in 1 .. n /\ t[j] = s[j - 1]
    <3>1. /\ t \in Seq(Proc) /\ Len(t) = Len(s) + 1 /\ t[1] = c
          /\ \A j \in DOMAIN t : j # 1 => j - 1 \in DOMAIN s /\ t[j] = s[j - 1]
          /\ \A j \in DOMAIN s : j + 1 \in DOMAIN t /\ t[j + 1] = s[j]
      BY <1>9, <2>1, PrependFacts
    <3>2. DOMAIN s = 1 .. n /\ DOMAIN t = 1 .. n + 1
      BY <2>2, <3>1, LenProperties
    <3> QED BY <2>2, <3>1, <3>2
  <2>12. Distinct(t)
    <3>1. ASSUME NEW i \in 1 .. n + 1, NEW j \in 1 .. n + 1, t[i] = t[j] PROVE i = j
      <4>1. \A k \in 1 .. n : s[k] # c
        BY <1>12, <2>1, <2>2
      <4>2. \A a, b \in 1 .. n : s[a] = s[b] => a = b
        BY <1>12, <2>1, <2>2 DEF Distinct
      <4>3. CASE i # 1 /\ j # 1
        <5>1. i - 1 \in 1 .. n /\ j - 1 \in 1 .. n /\ s[i - 1] = s[j - 1]
          BY <2>11, <3>1, <4>3
        <5>2. i - 1 = j - 1
          BY <4>2, <5>1
        <5> QED BY <5>2
      <4> QED BY <2>11, <3>1, <4>1, <4>3
    <3> QED BY <2>11, <3>1 DEF Distinct
  <2>13. Children(p)' = Children(p) \cup {c}
    BY <1>4, <1>5, <1>6, <1>8 DEF Children
  <2>14. ASSUME NEW x \in Proc
         PROVE  x \in Children(p)' <=> \E i \in 1 .. n + 1 : t[i] = x
    <3>1. x \in Children(p) <=> \E i \in 1 .. n : s[i] = x
      BY <1>12, <2>1, <2>2
    <3>2. (\E i \in 1 .. n + 1 : t[i] = x) <=> x = c \/ \E i \in 1 .. n : s[i] = x
      <4>1. OnTop(n, s, t, c)
        BY <2>11 DEF OnTop
      <4>2. n \in Nat
        BY <2>2
      <4>3. AddsMember(n, s, t, c, x)
        BY <4>1, <4>2, PushedMembers, Zenon
      <4> QED BY <4>3 DEF AddsMember
    <3> QED BY <2>13, <3>1, <3>2
  <2>15. kids2[p] = t /\ t = <<c>> \o s /\ Len(t) = n + 1
    BY <1>9, <1>11, <2>1, <2>11
  <2>16. Linked(kids2[p], cptr'[p], optr', yptr') /\ Distinct(kids2[p])
    BY <2>9, <2>10, <2>12, <2>15
  <2>17. \A x \in Proc : x \in Children(p)' <=> \E i \in 1 .. Len(kids2[p]) : kids2[p][i] = x
    BY <2>14, <2>15
  <2> QED BY <2>10, <2>16, <2>17
<1>14. ASSUME NEW r \in Procs, r # p
       PROVE  /\ Linked(kids2[r], cptr'[r], optr', yptr') /\ Distinct(kids2[r])
              /\ \A x \in Proc : x \in Children(r)' <=> \E i \in 1 .. Len(kids2[r]) : kids2[r][i] = x
              /\ cptr'[r] # NULL => yptr'[cptr'[r]] = NULL
  <2>1. \A i \in 1 .. Len(kids[r]) : kids[r][i] # cptr[p]
    <3>1. cptr[p] # NULL => parent[cptr[p]] = p
      BY <1>12
    <3>2. \A i \in 1 .. Len(kids[r]) : kids[r][i] \in Procs /\ parent[kids[r][i]] = r
      BY <1>12
    <3> QED BY <1>5, <1>14, <3>1, <3>2
  <2>2. \A i \in 1 .. Len(kids[r]) : optr'[kids[r][i]] = optr[kids[r][i]] /\ yptr'[kids[r][i]] = yptr[kids[r][i]]
    <3>1. \A i \in 1 .. Len(kids[r]) : kids[r][i] \in Procs /\ kids[r][i] # c
      BY <1>12
    <3> QED BY <1>7, <2>1, <3>1
  <2>3. Linked(kids[r], cptr[r], optr, yptr) /\ kids[r] \in Seq(Proc)
    BY <1>12
  <2>4. Linked(kids[r], cptr[r], optr', yptr')
    BY <2>2, <2>3, FrameLinked
  <2>5. cptr'[r] = cptr[r] /\ kids2[r] = kids[r]
    BY <1>7, <1>11, <1>14
  <2>6. Children(r)' = Children(r)
    BY <1>4, <1>6, <1>8, <1>14 DEF Children
  <2>7. cptr[r] # NULL => yptr'[cptr[r]] = NULL
    <3>1. cptr[r] # NULL => /\ 1 \in 1 .. Len(kids[r]) /\ cptr[r] = kids[r][1]
                            /\ yptr[cptr[r]] = NULL
      BY <1>12
    <3> QED BY <2>2, <3>1
  <2>8. \A x \in Proc : x \in Children(r) <=> \E i \in 1 .. Len(kids[r]) : kids[r][i] = x
    BY <1>12
  <2>9. Distinct(kids[r])
    BY <1>12
  <2> QED BY <2>4, <2>5, <2>6, <2>7, <2>8, <2>9
<1>15. KidsOf(kids2)'
  <2>1. ASSUME NEW r \in Procs
        PROVE  /\ Linked(kids2[r], cptr'[r], optr', yptr') /\ Distinct(kids2[r])
               /\ \A x \in Proc : x \in Children(r)' <=> \E i \in 1 .. Len(kids2[r]) : kids2[r][i] = x
               /\ cptr'[r] # NULL => yptr'[cptr'[r]] = NULL
    <3>1. CASE r = p
      BY <1>13, <3>1
    <3>2. CASE r # p
      BY <1>14, <3>2
    <3> QED BY <3>1, <3>2
  <2> QED BY <2>1 DEF KidsOf
<1>16. OldestLast'
  <2>1. PICK n \in Nat : n = Len(proc_list)
    BY TypeFacts
  <2>2. PICK l : l = <<c>> \o proc_list
    OBVIOUS
  <2>3. /\ Len(l) = n + 1 /\ DOMAIN l = 1 .. n + 1 /\ DOMAIN proc_list = 1 .. n /\ l[1] = c
        /\ \A j \in 1 .. n : l[j + 1] = proc_list[j]
    <3>1. /\ l \in Seq(Procs) /\ Len(l) = Len(proc_list) + 1 /\ l[1] = c
          /\ \A j \in DOMAIN proc_list : j + 1 \in DOMAIN l /\ l[j + 1] = proc_list[j]
      <4>1. proc_list \in Seq(Procs) /\ c \in Procs
        BY <1>5 DEF Inv, TypeOK
      <4>2. Prepended(<<c>> \o proc_list, Procs, proc_list, c)
        BY <4>1, PrependMakes, Zenon
      <4> QED BY <2>2, <4>2 DEF Prepended
    <3>2. DOMAIN l = 1 .. Len(l) /\ DOMAIN proc_list = 1 .. Len(proc_list)
      BY <3>1, LenProperties, TypeFacts
    <3> QED BY <2>1, <3>1, <3>2
  <2>4. \A i \in 1 .. n + 1 : i = 1 \/ \E j \in 1 .. n : i = j + 1
    <3>1. ASSUME NEW i \in 1 .. n + 1, i # 1 PROVE i - 1 \in 1 .. n /\ i = i - 1 + 1
      BY <3>1
    <3> QED BY <3>1
  <2>5. PICK k \in 1 .. n : proc_list[k] = p
    BY <1>5, <2>3 DEF Listed
  <2>6. l[n + 1] = initproc
    <3>1. n \in 1 .. n
      BY <2>5
    <3> QED BY <1>2, <2>1, <2>3, <3>1 DEF OldestLast
  <2>7. ASSUME NEW i \in 1 .. n + 1, l[i] # initproc
        PROVE  \E j \in 1 .. n + 1 : i < j /\ l[j] = parent[l[i]]
    <3>1. CASE i = 1
      <4>1. k + 1 \in 1 .. n + 1 /\ 1 < k + 1 /\ l[k + 1] = p
        BY <2>3, <2>5
      <4> QED BY <1>4, <2>3, <3>1, <4>1
    <3>2. CASE \E j \in 1 .. n : i = j + 1
      <4>1. PICK j \in 1 .. n : i = j + 1
        BY <3>2
      <4>2. l[i] = proc_list[j]
        BY <2>3, <4>1
      <4>3. PICK m \in 1 .. n : j < m /\ proc_list[m] = parent[proc_list[j]]
        BY <1>2, <2>3, <2>7, <4>2 DEF OldestLast
      <4>4. m + 1 \in 1 .. n + 1 /\ i < m + 1 /\ l[m + 1] = proc_list[m]
        BY <2>3, <4>1, <4>3
      <4> QED BY <4>2, <4>3, <4>4
    <3> QED BY <2>4, <3>1, <3>2
  <2> QED BY <1>6, <2>2, <2>3, <2>6, <2>7 DEF OldestLast
<1>17. StateInv'
  <2>1. \A x \in Procs : state'[x] \in {"alive", "zombie"} => x \in Listed'
    BY <1>2, <1>7, <1>8 DEF StateInv
  <2>2. \A x \in Procs : state'[x] = "zombie" /\ x # leaver' => cptr'[x] = NULL
    <3>1. \A x \in Procs : state[x] = "zombie" /\ x # leaver => cptr[x] = NULL
      BY <1>2 DEF StateInv
    <3>2. ASSUME NEW x \in Procs, state'[x] = "zombie" PROVE x # p /\ x # c /\ state[x] = "zombie"
      BY <1>5, <1>7, <3>2
    <3> QED BY <1>5, <1>7, <3>1, <3>2
  <2>3. initproc \in Procs /\ initproc # c /\ initproc # cptr[p]
    <3>1. cptr[p] # NULL => cptr[p] \in Proc
      BY <1>12
    <3> QED BY <1>5, <3>1, FamilyAssumption DEF Procs
  <2>4. state'[initproc] = "alive" /\ yptr'[initproc] = NULL /\ optr'[initproc] = NULL
    BY <1>2, <1>7, <2>3 DEF StateInv
  <2>5. hash_list' = Listed'
    BY <1>2, <1>6, <1>8 DEF StateInv
  <2> QED BY <1>5, <2>1, <2>2, <2>4, <2>5 DEF StateInv
<1> QED BY <1>15, <1>16, <1>17 DEF TreeInv

\* The first child of the one that exits comes in front of those of initproc.
LEMMA GiveTree ==
    ASSUME Inv, TreeInv, GiveChildAway
    PROVE  TreeInv'
<1>1. PICK kids \in [Procs -> Seq(Proc)] : KidsOf(kids)
  BY DEF TreeInv
<1>2. OldestLast /\ StateInv
  BY DEF TreeInv
<1>3. PICK l \in Proc : l = leaver
  BY DEF GiveChildAway, Inv, TypeOK
<1>4. /\ l # NULL /\ l # initproc /\ l \in Procs /\ initproc \in Procs
      /\ NULL \notin Procs /\ initproc \notin Proc
  BY FamilyAssumption DEF Procs
<1>5. ASSUME NEW r \in Procs
      PROVE  /\ kids[r] \in Seq(Proc) /\ Len(kids[r]) \in Nat
             /\ Linked(kids[r], cptr[r], optr, yptr)
             /\ Distinct(kids[r])
             /\ cptr[r] # NULL => 1 \in 1 .. Len(kids[r]) /\ cptr[r] = kids[r][1]
             /\ \A i \in 1 .. Len(kids[r]) :
                  /\ kids[r][i] \in Proc /\ kids[r][i] \in Procs
                  /\ kids[r][i] \in Listed /\ parent[kids[r][i]] = r
             /\ \A x \in Proc : x \in Children(r) <=> \E i \in 1 .. Len(kids[r]) : kids[r][i] = x
             /\ r # l /\ cptr[r] # NULL => yptr[cptr[r]] = NULL
  <2>1. ChildrenOf(r, kids)
    BY <1>1, KidsOfOne
  <2> QED BY <1>3, <2>1 DEF ChildrenOf
<1>6. PICK q \in Proc : q = cptr[l]
  BY <1>3, <1>4, <1>5 DEF GiveChildAway
<1>7. /\ q # NULL /\ q # initproc /\ q \in Procs /\ q \in Listed /\ parent[q] = l
      /\ 1 \in 1 .. Len(kids[l]) /\ q = kids[l][1] /\ q # cptr[initproc]
  <2>1. q # NULL /\ q # initproc /\ q \in Procs
    BY <1>4 DEF Procs
  <2>2. 1 \in 1 .. Len(kids[l]) /\ q = kids[l][1]
    BY <1>4, <1>5, <1>6, <2>1
  <2>3. q \in Listed /\ parent[q] = l
    BY <1>4, <1>5, <2>2
  <2>4. cptr[initproc] # NULL => parent[cptr[initproc]] = initproc
    BY <1>4, <1>5
  <2> QED BY <1>4, <2>1, <2>2, <2>3, <2>4
<1>8. /\ UNCHANGED <<state, proc_list, hash_list, child, leaver>> /\ Listed' = Listed
      /\ cptr' = [cptr EXCEPT ![l] = optr[q], ![initproc] = q]
      /\ optr' = [optr EXCEPT ![q] = cptr[initproc]]
      /\ yptr' = InFrontOf(initproc, q)
      /\ parent' = [parent EXCEPT ![q] = initproc]
  BY <1>3, <1>6 DEF GiveChildAway, Adopt, scan, Listed
<1>9. /\ \A x \in Procs : cptr'[x] = IF x = initproc THEN q ELSE IF x = l THEN optr[q] ELSE cptr[x]
      /\ \A x \in Procs : optr'[x] = IF x = q THEN cptr[initproc] ELSE optr[x]
      /\ \A x \in Procs : yptr'[x] = IF x = q THEN NULL ELSE IF x = cptr[initproc] THEN q ELSE yptr[x]
      /\ \A x \in Proc : parent'[x] = IF x = q THEN initproc ELSE parent[x]
  <2>1. DOMAIN cptr = Procs /\ DOMAIN optr = Procs /\ DOMAIN parent = Proc
    BY DEF Inv, TypeOK
  <2> QED BY <1>4, <1>8, <2>1 DEF InFrontOf
<1>10. PICK t \in Seq(Proc) : t = <<q>> \o kids[initproc]
  BY <1>4, <1>5, PrependFacts
<1>11. kids[l] \in Seq(Proc) /\ Linked(kids[l], q, optr, yptr)
  BY <1>4, <1>5, <1>6
<1>12. PICK n \in Nat : n = Len(kids[l])
  BY <1>4, <1>5
<1>13. PICK m \in Nat : m = Len(kids[initproc])
  BY <1>4, <1>5
<1>14. \A i \in 2 .. n : optr'[kids[l][i]] = optr[kids[l][i]] /\ yptr'[kids[l][i]] = yptr[kids[l][i]]
  <2>1. ASSUME NEW i \in 2 .. n
        PROVE  kids[l][i] # q /\ kids[l][i] # cptr[initproc] /\ kids[l][i] \in Procs
    <3>1. i \in 1 .. n /\ 1 \in 1 .. n /\ i # 1
      BY <2>1
    <3>2. \A a, b \in 1 .. n : kids[l][a] = kids[l][b] => a = b
      BY <1>4, <1>5, <1>12 DEF Distinct
    <3>3. kids[l][i] \in Procs /\ parent[kids[l][i]] = l /\ kids[l][i] # NULL
      BY <1>4, <1>5, <1>12, <3>1
    <3>4. cptr[initproc] # NULL => parent[cptr[initproc]] = initproc
      BY <1>4, <1>5
    <3> QED BY <1>4, <1>7, <3>1, <3>2, <3>3, <3>4
  <2> QED BY <1>9, <2>1
<1>15. PICK u : u = Tail(kids[l])
  OBVIOUS
<1>16. /\ u \in Seq(Proc) /\ Len(u) = n - 1
       /\ \A i \in 1 .. n - 1 : u[i] = kids[l][i + 1]
       /\ Linked(u, optr[q], optr', yptr')
  <2>1. /\ Tail(kids[l]) \in Seq(Proc) /\ Len(Tail(kids[l])) = Len(kids[l]) - 1
        /\ \A i \in 1 .. Len(kids[l]) - 1 : Tail(kids[l])[i] = kids[l][i + 1]
        /\ Linked(Tail(kids[l]), optr[q], optr', yptr')
    BY <1>7, <1>11, <1>12, <1>14, PopLinked
  <2> QED BY <1>12, <1>15, <2>1
<1>17. PICK kids2 \in [Procs -> Seq(Proc)] : kids2 = [kids EXCEPT ![l] = u, ![initproc] = t]
  BY <1>10, <1>16
<1>18. kids2[l] = u /\ kids2[initproc] = t /\ \A r \in Procs : r # l /\ r # initproc => kids2[r] = kids[r]
  BY <1>4, <1>17
<1>19. \A r \in Procs : \A x \in Proc :
         x \in Children(r)' <=> (x = q /\ r = initproc) \/ (x # q /\ x \in Children(r))
  BY <1>4, <1>7, <1>8, <1>9 DEF Children
\* The one that exits: its list begins with the next child, whose yptr is old.
<1>20. /\ Linked(kids2[l], cptr'[l], optr', yptr') /\ Distinct(kids2[l])
       /\ \A x \in Proc : x \in Children(l)' <=> \E i \in 1 .. Len(kids2[l]) : kids2[l][i] = x
  <2>1. cptr'[l] = optr[q]
    BY <1>4, <1>9
  <2>2. \A a, b \in 1 .. n : kids[l][a] = kids[l][b] => a = b
    BY <1>4, <1>5, <1>12 DEF Distinct
  <2>3. \A i \in 1 .. n - 1 : i + 1 \in 1 .. n /\ i + 1 # 1
    OBVIOUS
  <2>4. Distinct(u)
    <3>1. ASSUME NEW i \in 1 .. n - 1, NEW j \in 1 .. n - 1, u[i] = u[j] PROVE i = j
      <4>1. kids[l][i + 1] = kids[l][j + 1]
        BY <1>16, <3>1
      <4>2. i + 1 = j + 1
        BY <2>2, <2>3, <4>1
      <4> QED BY <4>2
    <3> QED BY <1>16, <3>1 DEF Distinct
  <2>5. ASSUME NEW x \in Proc
        PROVE  x \in Children(l)' <=> \E i \in 1 .. n - 1 : u[i] = x
    <3>1. x \in Children(l) <=> \E i \in 1 .. n : kids[l][i] = x
      BY <1>4, <1>5, <1>12
    <3>2. x \in Children(l)' <=> x # q /\ x \in Children(l)
      BY <1>4, <1>19
    <3>3. ASSUME NEW i \in 1 .. n, kids[l][i] = x, x # q PROVE \E j \in 1 .. n - 1 : u[j] = x
      <4>1. i # 1
        BY <1>7, <3>3
      <4>2. i - 1 \in 1 .. n - 1 /\ i - 1 + 1 = i
        BY <4>1
      <4>3. u[i - 1] = kids[l][i]
        BY <1>16, <4>2
      <4> QED BY <3>3, <4>2, <4>3
    <3>4. ASSUME NEW i \in 1 .. n - 1, u[i] = x
          PROVE  x # q /\ \E j \in 1 .. n : kids[l][j] = x
      <4>1. x = kids[l][i + 1]
        BY <1>16, <3>4
      <4>2. 1 \in 1 .. n /\ kids[l][1] = q
        BY <1>7, <1>12
      <4> QED BY <2>2, <2>3, <4>1, <4>2
    <3> QED BY <3>1, <3>2, <3>3, <3>4
  <2> QED BY <1>16, <1>18, <2>1, <2>4, <2>5
<1>21. /\ Linked(kids2[initproc], cptr'[initproc], optr', yptr') /\ Distinct(kids2[initproc])
       /\ \A x \in Proc : x \in Children(initproc)' <=>
                            \E i \in 1 .. Len(kids2[initproc]) : kids2[initproc][i] = x
       /\ yptr'[cptr'[initproc]] = NULL
  <2>1. PICK s \in Seq(Proc) : s = kids[initproc]
    BY <1>4, <1>5
  <2>2. /\ m = Len(s)
        /\ \A i \in 1 .. m : s[i] \in Procs /\ s[i] # q /\ s[i] # NULL
        /\ \A a, b \in 1 .. m : s[a] = s[b] => a = b
    <3>1. \A i \in 1 .. m : s[i] \in Procs /\ parent[s[i]] = initproc
      BY <1>4, <1>5, <1>13, <2>1
    <3>2. \A a, b \in 1 .. m : s[a] = s[b] => a = b
      BY <1>4, <1>5, <1>13, <2>1 DEF Distinct
    <3> QED BY <1>4, <1>7, <1>13, <2>1, <3>1, <3>2
  <2>3. Pushed(s, cptr[initproc], optr, yptr, q, optr', yptr')
    <3>1. optr'[q] = cptr[initproc]
      BY <1>7, <1>9
    <3>2. cptr[initproc] # NULL => 1 \in 1 .. m /\ cptr[initproc] = s[1]
      BY <1>4, <1>5, <1>13, <2>1
    <3>3. cptr[initproc] # NULL => yptr'[cptr[initproc]] = q
      BY <1>9, <2>2, <3>2
    <3>4. \A i \in 1 .. m : optr'[s[i]] = optr[s[i]]
      BY <1>9, <2>2
    <3>5. ASSUME NEW i \in 2 .. m PROVE yptr'[s[i]] = yptr[s[i]]
      <4>1. i \in 1 .. m /\ 1 \in 1 .. m /\ i # 1
        BY <3>5
      <4>2. s[i] # cptr[initproc]
        BY <2>2, <3>2, <4>1
      <4> QED BY <1>9, <2>2, <4>1, <4>2
    <3> QED BY <2>2, <3>1, <3>3, <3>4, <3>5 DEF Pushed
  <2>4. Linked(s, cptr[initproc], optr, yptr)
    BY <1>4, <1>5, <2>1
  <2>5. Linked(<<q>> \o s, q, optr', yptr')
    BY <2>1, <2>3, <2>4, <1>6, PushLinked
  <2>6. cptr'[initproc] = q /\ yptr'[q] = NULL
    BY <1>4, <1>7, <1>9
  <2>7. /\ Len(t) = m + 1 /\ t[1] = q
        /\ \A j \in 1 .. m : t[j + 1] = s[j]
        /\ \A j \in 1 .. m + 1 : j # 1 => j - 1 \in 1 .. m /\ t[j] = s[j - 1]
    <3>1. /\ t \in Seq(Proc) /\ Len(t) = Len(s) + 1 /\ t[1] = q
          /\ \A j \in DOMAIN t : j # 1 => j - 1 \in DOMAIN s /\ t[j] = s[j - 1]
          /\ \A j \in DOMAIN s : j + 1 \in DOMAIN t /\ t[j + 1] = s[j]
      BY <1>6, <1>10, <2>1, PrependFacts
    <3>2. DOMAIN s = 1 .. m /\ DOMAIN t = 1 .. m + 1
      BY <2>1, <2>2, <3>1, LenProperties
    <3> QED BY <2>2, <3>1, <3>2
  <2>8. Distinct(t)
    <3>1. ASSUME NEW i \in 1 .. m + 1, NEW j \in 1 .. m + 1, t[i] = t[j] PROVE i = j
      <4>1. CASE i # 1 /\ j # 1
        <5>1. i - 1 \in 1 .. m /\ j - 1 \in 1 .. m /\ s[i - 1] = s[j - 1]
          BY <2>7, <3>1, <4>1
        <5>2. i - 1 = j - 1
          BY <2>2, <5>1
        <5> QED BY <5>2
      <4> QED BY <2>2, <2>7, <3>1, <4>1
    <3> QED BY <2>7, <3>1 DEF Distinct
  <2>9. ASSUME NEW x \in Proc
        PROVE  x \in Children(initproc)' <=> \E i \in 1 .. m + 1 : t[i] = x
    <3>1. x \in Children(initproc) <=> \E i \in 1 .. m : s[i] = x
      <4>1. x \in Children(initproc) <=> \E i \in 1 .. Len(kids[initproc]) : kids[initproc][i] = x
        BY <1>4, <1>5
      <4> QED BY <1>13, <2>1, <4>1
    <3>2. (\E i \in 1 .. m + 1 : t[i] = x) <=> x = q \/ \E i \in 1 .. m : s[i] = x
      <4>1. OnTop(m, s, t, q)
        BY <2>7 DEF OnTop
      <4>2. m \in Nat
        BY <2>1, <2>2, LenProperties
      <4>3. AddsMember(m, s, t, q, x)
        BY <4>1, <4>2, PushedMembers, Zenon
      <4> QED BY <4>3 DEF AddsMember
    <3>3. x \in Children(initproc)' <=> x = q \/ x \in Children(initproc)
      BY <1>4, <1>19
    <3> QED BY <3>1, <3>2, <3>3
  <2>10. kids2[initproc] = t /\ t = <<q>> \o s /\ Len(t) = m + 1
    BY <1>10, <1>18, <2>1, <2>7
  <2>11. Linked(kids2[initproc], cptr'[initproc], optr', yptr') /\ Distinct(kids2[initproc])
    BY <2>5, <2>6, <2>8, <2>10
  <2>12. \A x \in Proc : x \in Children(initproc)' <=>
                           \E i \in 1 .. Len(kids2[initproc]) : kids2[initproc][i] = x
    BY <2>9, <2>10
  <2> QED BY <2>6, <2>11, <2>12
<1>22. ASSUME NEW r \in Procs, r # l, r # initproc
       PROVE  /\ Linked(kids2[r], cptr'[r], optr', yptr') /\ Distinct(kids2[r])
              /\ \A x \in Proc : x \in Children(r)' <=> \E i \in 1 .. Len(kids2[r]) : kids2[r][i] = x
              /\ cptr'[r] # NULL => yptr'[cptr'[r]] = NULL
  <2>1. \A i \in 1 .. Len(kids[r]) :
          kids[r][i] \in Procs /\ kids[r][i] # q /\ kids[r][i] # cptr[initproc]
    <3>1. cptr[initproc] # NULL => parent[cptr[initproc]] = initproc
      <4>1. cptr[initproc] # NULL => 1 \in 1 .. Len(kids[initproc]) /\ cptr[initproc] = kids[initproc][1]
        BY <1>4, <1>5
      <4>2. \A i \in 1 .. Len(kids[initproc]) : parent[kids[initproc][i]] = initproc
        BY <1>4, <1>5
      <4> QED BY <4>1, <4>2
    <3>2. \A i \in 1 .. Len(kids[r]) : kids[r][i] \in Procs /\ parent[kids[r][i]] = r
      BY <1>5
    <3> QED BY <1>4, <1>7, <1>22, <3>1, <3>2
  <2>2. \A i \in 1 .. Len(kids[r]) : optr'[kids[r][i]] = optr[kids[r][i]] /\ yptr'[kids[r][i]] = yptr[kids[r][i]]
    BY <1>9, <2>1
  <2>3. Linked(kids[r], cptr[r], optr, yptr) /\ kids[r] \in Seq(Proc)
    BY <1>5
  <2>4. Linked(kids[r], cptr[r], optr', yptr')
    BY <2>2, <2>3, FrameLinked
  <2>5. cptr'[r] = cptr[r] /\ kids2[r] = kids[r]
    BY <1>9, <1>18, <1>22
  <2>6. \A x \in Proc : x \in Children(r)' <=> x \in Children(r)
    BY <1>7, <1>19, <1>22 DEF Children
  <2>7. cptr[r] # NULL => yptr'[cptr[r]] = NULL
    <3>1. cptr[r] # NULL => /\ 1 \in 1 .. Len(kids[r]) /\ cptr[r] = kids[r][1]
                            /\ yptr[cptr[r]] = NULL
      BY <1>5, <1>22
    <3> QED BY <2>2, <3>1
  <2>8. \A x \in Proc : x \in Children(r) <=> \E i \in 1 .. Len(kids[r]) : kids[r][i] = x
    BY <1>5
  <2>9. Distinct(kids[r])
    BY <1>5
  <2> QED BY <2>4, <2>5, <2>6, <2>7, <2>8, <2>9
<1>23. KidsOf(kids2)'
  <2>1. ASSUME NEW r \in Procs
        PROVE  /\ Linked(kids2[r], cptr'[r], optr', yptr') /\ Distinct(kids2[r])
               /\ \A x \in Proc : x \in Children(r)' <=> \E i \in 1 .. Len(kids2[r]) : kids2[r][i] = x
               /\ r # leaver' /\ cptr'[r] # NULL => yptr'[cptr'[r]] = NULL
    <3>1. CASE r = l
      BY <1>3, <1>8, <1>20, <3>1
    <3>2. CASE r = initproc
      BY <1>21, <3>2
    <3>3. CASE r # l /\ r # initproc
      BY <1>22, <3>3
    <3> QED BY <3>1, <3>2, <3>3
  <2> QED BY <2>1 DEF KidsOf
<1>24. OldestLast'
  <2>1. PICK k \in Nat : k = Len(proc_list)
    BY TypeFacts
  <2>2. /\ DOMAIN proc_list = 1 .. k /\ proc_list[k] = initproc
        /\ \A i \in 1 .. k : proc_list[i] # initproc =>
             \E j \in 1 .. k : i < j /\ proc_list[j] = parent[proc_list[i]]
    BY <1>2, <2>1, TypeFacts DEF OldestLast
  <2>3. ASSUME NEW i \in 1 .. k, proc_list[i] # initproc
        PROVE  \E j \in 1 .. k : i < j /\ proc_list[j] = parent'[proc_list[i]]
    <3>1. i < k /\ k \in 1 .. k
      BY <2>2, <2>3
    <3>2. proc_list[i] \in Proc
      BY <2>2, <2>3, TypeFacts DEF Procs
    <3>3. CASE proc_list[i] = q
      BY <1>9, <2>2, <3>1, <3>2, <3>3
    <3>4. CASE proc_list[i] # q
      BY <1>9, <2>2, <2>3, <3>2, <3>4
    <3> QED BY <3>3, <3>4
  <2>4. proc_list' = proc_list
    BY <1>8
  <2> QED BY <2>1, <2>2, <2>3, <2>4 DEF OldestLast
<1>25. StateInv'
  <2>1. initproc # q /\ initproc # cptr[initproc]
    <3>1. cptr[initproc] # NULL => cptr[initproc] \in Proc
      BY <1>4, <1>5
    <3> QED BY <1>4, <1>7, <3>1
  <2>2. yptr'[initproc] = NULL /\ optr'[initproc] = NULL
    BY <1>2, <1>4, <1>9, <2>1 DEF StateInv
  <2>3. \A x \in Procs : state'[x] = "zombie" /\ x # leaver' => cptr'[x] = NULL
    <3>1. state[initproc] = "alive" /\ \A x \in Procs : state[x] = "zombie" /\ x # l => cptr[x] = NULL
      BY <1>2, <1>3 DEF StateInv
    <3> QED BY <1>3, <1>8, <1>9, <3>1
  <2>4. leaver # NULL /\ child = NULL
    BY <1>2, <1>3, <1>4 DEF StateInv
  <2> QED BY <1>2, <1>8, <2>2, <2>3, <2>4 DEF StateInv
<1> QED BY <1>23, <1>24, <1>25 DEF TreeInv

\* A zombie without children leaves the list of its parent's.
LEMMA WaitTree ==
    ASSUME Inv, TreeInv, NEW waiter \in Procs, NEW q \in Proc, do_wait(waiter, q)
    PROVE  TreeInv'
<1>1. PICK kids \in [Procs -> Seq(Proc)] : KidsOf(kids)
  BY DEF TreeInv
<1>2. OldestLast /\ StateInv
  BY DEF TreeInv
<1>3. /\ q # NULL /\ q # initproc /\ q \in Procs /\ initproc \in Procs
      /\ NULL \notin Procs /\ initproc \notin Proc
      /\ child = NULL /\ leaver = NULL /\ child' = NULL /\ leaver' = NULL
      /\ state[q] = "zombie"
  BY FamilyAssumption DEF Procs, do_wait, Ready, scan
<1>4. PICK e \in DOMAIN proc_list : proc_list[e] = q /\ proc_list' = RemoveAt(proc_list, e)
  BY DEF do_wait
<1>5. q \in Listed /\ cptr[q] = NULL
  BY <1>2, <1>3, <1>4 DEF Listed, StateInv
<1>6. PICK p \in Procs : p = parent[q]
  BY <1>2, <1>3, <1>5, ParentListed
<1>7. ASSUME NEW r \in Procs
      PROVE  /\ kids[r] \in Seq(Proc) /\ Len(kids[r]) \in Nat
             /\ Linked(kids[r], cptr[r], optr, yptr)
             /\ Distinct(kids[r])
             /\ cptr[r] = NULL <=> Len(kids[r]) = 0
             /\ cptr[r] # NULL => 1 \in 1 .. Len(kids[r]) /\ cptr[r] = kids[r][1]
             /\ \A i \in 1 .. Len(kids[r]) :
                  /\ kids[r][i] \in Proc /\ kids[r][i] \in Procs
                  /\ kids[r][i] \in Listed /\ parent[kids[r][i]] = r
             /\ \A x \in Proc : x \in Children(r) <=> \E i \in 1 .. Len(kids[r]) : kids[r][i] = x
             /\ cptr[r] # NULL => yptr[cptr[r]] = NULL
  <2>1. ChildrenOf(r, kids)
    BY <1>1, KidsOfOne
  <2>2. r # leaver
    BY <1>3
  <2> QED BY <2>1, <2>2 DEF ChildrenOf
<1>8. PICK s \in Seq(Proc) : s = kids[p]
  BY <1>7
<1>9. PICK n \in Nat : n = Len(s)
  BY <1>8, KidFacts
<1>10. q \in Children(p)
  BY <1>3, <1>5, <1>6 DEF Children
<1>11. PICK k \in 1 .. n : s[k] = q
  BY <1>7, <1>8, <1>9, <1>10
<1>12. /\ Linked(s, cptr[p], optr, yptr)
       /\ \A i \in 1 .. n : /\ s[i] \in Procs /\ s[i] # NULL /\ s[i] # initproc
                            /\ parent[s[i]] = p
       /\ \A a, b \in 1 .. n : s[a] = s[b] => a = b
       /\ p # q /\ state[p] # "zombie" /\ cptr[p] # NULL
  <2>1. Linked(s, cptr[p], optr, yptr)
    BY <1>7, <1>8
  <2>2. \A i \in 1 .. n : s[i] \in Proc /\ s[i] \in Procs /\ parent[s[i]] = p
    BY <1>7, <1>8, <1>9
  <2>3. \A a, b \in 1 .. n : s[a] = s[b] => a = b
    BY <1>7, <1>8, <1>9 DEF Distinct
  <2>4. n # 0
    BY <1>11
  <2>5. cptr[p] # NULL
    BY <1>7, <1>8, <1>9, <2>4
  <2>6. state[p] # "zombie"
    BY <1>2, <1>3, <2>5 DEF StateInv
  <2> QED BY <1>3, <1>5, <2>1, <2>2, <2>3, <2>5, <2>6
\* The neighbours of q.
<1>13. /\ k = 1 => yptr[q] = NULL /\ cptr[p] = q
       /\ k # 1 => k - 1 \in 1 .. n /\ yptr[q] = s[k - 1] /\ cptr[p] = s[1] /\ 1 \in 1 .. n
       /\ k = n => optr[q] = NULL
       /\ k # n => k + 1 \in 1 .. n /\ optr[q] = s[k + 1]
  <2>1. 1 \in 1 .. n /\ cptr[p] = s[1]
    BY <1>7, <1>8, <1>9, <1>12
  <2>2. k = 1 => yptr[q] = NULL
    BY <1>7, <1>11, <1>12, <2>1
  <2>3. k # 1 => k \in 2 .. n /\ k - 1 \in 1 .. n
    BY <1>11
  <2>4. k # 1 => yptr[q] = s[k - 1]
    BY <1>9, <1>11, <1>12, <2>3 DEF Linked
  <2>5. optr[q] = Item(s, k + 1)
    BY <1>9, <1>11, <1>12 DEF Linked
  <2>6. k # n => k + 1 \in 1 .. n
    BY <1>11
  <2>7. k = n => k + 1 \notin 1 .. n
    OBVIOUS
  <2> QED BY <1>9, <1>11, <2>1, <2>2, <2>3, <2>4, <2>5, <2>6, <2>7 DEF Item
<1>14. /\ \A x \in Procs : yptr'[x] = IF k # n /\ x = s[k + 1] THEN yptr[q] ELSE yptr[x]
       /\ \A x \in Procs : optr'[x] = IF k # 1 /\ x = s[k - 1] THEN optr[q] ELSE optr[x]
       /\ \A x \in Procs : cptr'[x] = IF k = 1 /\ x = p THEN optr[q] ELSE cptr[x]
       /\ \A x \in Procs : state'[x] = IF x = q THEN "free" ELSE state[x]
       /\ parent' = parent /\ hash_list' = hash_list \ {q}
  <2>1. DOMAIN cptr = Procs /\ DOMAIN optr = Procs /\ DOMAIN yptr = Procs /\ DOMAIN state = Procs
    BY DEF Inv, TypeOK
  <2>2. /\ yptr' = IF optr[q] # NULL THEN [yptr EXCEPT ![optr[q]] = yptr[q]] ELSE yptr
        /\ IF yptr[q] # NULL
           THEN optr' = [optr EXCEPT ![yptr[q]] = optr[q]] /\ UNCHANGED cptr
           ELSE cptr' = [cptr EXCEPT ![p] = optr[q]] /\ UNCHANGED optr
        /\ parent' = parent /\ hash_list' = hash_list \ {q}
        /\ state' = [state EXCEPT ![q] = "free"]
    BY <1>6 DEF do_wait
  <2>3. \A x \in Procs : yptr'[x] = IF k # n /\ x = s[k + 1] THEN yptr[q] ELSE yptr[x]
    <3>1. CASE k = n
      BY <1>13, <2>2, <3>1
    <3>2. CASE k # n
      BY <1>12, <1>13, <2>1, <2>2, <3>2
    <3> QED BY <3>1, <3>2
  <2>4. /\ \A x \in Procs : optr'[x] = IF k # 1 /\ x = s[k - 1] THEN optr[q] ELSE optr[x]
        /\ \A x \in Procs : cptr'[x] = IF k = 1 /\ x = p THEN optr[q] ELSE cptr[x]
    <3>1. CASE k = 1
      BY <1>13, <2>1, <2>2, <3>1
    <3>2. CASE k # 1
      BY <1>12, <1>13, <2>1, <2>2, <3>2
    <3> QED BY <3>1, <3>2
  <2>5. \A x \in Procs : state'[x] = IF x = q THEN "free" ELSE state[x]
    BY <2>1, <2>2
  <2> QED BY <2>2, <2>3, <2>4, <2>5
<1>15. PICK t : t = RemoveAt(s, k)
  OBVIOUS
<1>16. /\ t \in Seq(Proc) /\ Len(t) = n - 1
       /\ \A j \in 1 .. n - 1 : j < k => t[j] = s[j]
       /\ \A j \in 1 .. n - 1 : ~(j < k) => t[j] = s[j + 1]
  <2>1. k \in DOMAIN s
    BY <1>8, <1>9, <1>11, LenProperties
  <2>2. /\ t \in Seq(Proc) /\ Len(t) = Len(s) - 1
        /\ \A j \in DOMAIN t :
             /\ j < k => t[j] = s[j]
             /\ ~(j < k) => t[j] = s[j + 1]
    BY <1>8, <1>15, <2>1, RemoveAtFacts
  <2>3. DOMAIN t = 1 .. n - 1
    BY <1>9, <2>2, LenProperties
  <2> QED BY <1>9, <2>2, <2>3
\* The two lists without q, and where each of the others was before.
<1>17. Listed' = Listed \ {q} /\ OldestLast'
  <2>1. PICK m \in Nat : m = Len(proc_list)
    BY TypeFacts
  <2>2. PICK l : l = RemoveAt(proc_list, e)
    OBVIOUS
  <2>3. DOMAIN proc_list = 1 .. m /\ e \in 1 .. m
    BY <1>4, <2>1, TypeFacts
  <2>4. /\ Len(l) = m - 1 /\ DOMAIN l = 1 .. m - 1
        /\ \A j \in 1 .. m - 1 : j < e => l[j] = proc_list[j]
        /\ \A j \in 1 .. m - 1 : ~(j < e) => l[j] = proc_list[j + 1]
    <3>1. /\ l \in Seq(Procs) /\ Len(l) = Len(proc_list) - 1
          /\ \A j \in DOMAIN l :
               /\ j < e => l[j] = proc_list[j]
               /\ ~(j < e) => l[j] = proc_list[j + 1]
      <4>1. proc_list \in Seq(Procs) /\ e \in DOMAIN proc_list
        BY <1>4 DEF Inv, TypeOK
      <4> QED BY <2>2, <4>1, RemoveAtFacts
    <3>2. DOMAIN l = 1 .. m - 1
      BY <2>1, <3>1, LenProperties
    <3> QED BY <2>1, <3>1, <3>2
  <2>5. \A a, b \in 1 .. m : proc_list[a] = proc_list[b] => a = b
    BY <2>3 DEF Inv, ListInv, NoRepeats
  <2>6. \A j \in 1 .. m - 1 : \E i \in 1 .. m : i # e /\ l[j] = proc_list[i] /\
                                (j < e => i = j) /\ (~(j < e) => i = j + 1)
    <3>1. ASSUME NEW j \in 1 .. m - 1, j < e PROVE j \in 1 .. m /\ j # e /\ l[j] = proc_list[j]
      BY <2>4, <3>1
    <3>2. ASSUME NEW j \in 1 .. m - 1, ~(j < e)
          PROVE  j + 1 \in 1 .. m /\ j + 1 # e /\ l[j] = proc_list[j + 1]
      BY <2>3, <2>4, <3>2
    <3> QED BY <3>1, <3>2
  <2>7. \A i \in 1 .. m : i # e => \E j \in 1 .. m - 1 : l[j] = proc_list[i] /\
                                (j < e => i = j) /\ (~(j < e) => i = j + 1)
    <3>1. ASSUME NEW i \in 1 .. m, i < e PROVE i \in 1 .. m - 1 /\ l[i] = proc_list[i]
      <4>1. i \in 1 .. m - 1
        BY <2>3, <3>1
      <4> QED BY <2>4, <3>1, <4>1
    <3>2. ASSUME NEW i \in 1 .. m, e < i
          PROVE  i - 1 \in 1 .. m - 1 /\ ~(i - 1 < e) /\ i = i - 1 + 1 /\ l[i - 1] = proc_list[i]
      <4>1. i - 1 \in 1 .. m - 1 /\ ~(i - 1 < e) /\ i = i - 1 + 1
        BY <2>3, <3>2
      <4>2. l[i - 1] = proc_list[i - 1 + 1]
        BY <2>4, <4>1
      <4> QED BY <4>1, <4>2
    <3>3. \A i \in 1 .. m : i # e => i < e \/ e < i
      BY <2>3
    <3> QED BY <3>1, <3>2, <3>3
  <2>8. Listed' = Listed \ {q}
    <3>1. {l[j] : j \in 1 .. m - 1} = {proc_list[i] : i \in 1 .. m} \ {q}
      <4>1. \A j \in 1 .. m - 1 : l[j] # q /\ l[j] \in {proc_list[i] : i \in 1 .. m}
        BY <1>4, <2>3, <2>5, <2>6
      <4>2. \A i \in 1 .. m : proc_list[i] # q => proc_list[i] \in {l[j] : j \in 1 .. m - 1}
        BY <1>4, <2>3, <2>7
      <4> QED BY <4>1, <4>2
    <3>2. proc_list' = l /\ DOMAIN l = 1 .. m - 1
      BY <1>4, <2>2, <2>4
    <3>3. Listed' = {l[j] : j \in 1 .. m - 1}
      BY <3>2 DEF Listed
    <3>4. Listed = {proc_list[i] : i \in 1 .. m}
      BY <2>3 DEF Listed
    <3> QED BY <3>1, <3>3, <3>4
  <2>9. /\ proc_list[m] = initproc
        /\ \A i \in 1 .. m : proc_list[i] # initproc =>
             \E j \in 1 .. m : i < j /\ proc_list[j] = parent[proc_list[i]]
    BY <1>2, <2>1, <2>3 DEF OldestLast
  <2>10. e # m /\ m - 1 \in 1 .. m - 1 /\ l[m - 1] = initproc
    <3>1. e # m
      BY <1>3, <1>4, <2>9
    <3>2. m - 1 \in 1 .. m - 1 /\ ~(m - 1 < e) /\ m - 1 + 1 = m
      BY <2>3, <3>1
    <3>3. l[m - 1] = proc_list[m - 1 + 1]
      BY <2>4, <3>2
    <3> QED BY <2>9, <3>1, <3>2, <3>3
  \* Who is in the list still has its parent there, for q had no children.
  <2>11. \A i \in 1 .. m : proc_list[i] # initproc => parent[proc_list[i]] # q
    <3>1. Children(q) = {}
      <4>1. Len(kids[q]) = 0
        BY <1>3, <1>5, <1>7
      <4>2. \A x \in Proc : x \notin Children(q)
        BY <1>3, <1>7, <4>1
      <4>3. Children(q) \subseteq Proc
        BY <1>2, ParentListed DEF Children
      <4> QED BY <4>2, <4>3
    <3> QED BY <2>3, <3>1 DEF Children, Listed
  <2>12. ASSUME NEW j \in 1 .. m - 1, l[j] # initproc
         PROVE  \E b \in 1 .. m - 1 : j < b /\ l[b] = parent[l[j]]
    <3>1. PICK i \in 1 .. m : /\ i # e /\ l[j] = proc_list[i]
                              /\ (j < e => i = j) /\ (~(j < e) => i = j + 1)
      BY <2>6
    <3>2. PICK a \in 1 .. m : i < a /\ proc_list[a] = parent[proc_list[i]]
      BY <2>9, <2>12, <3>1
    <3>3. a # e
      BY <1>4, <2>11, <2>12, <3>1, <3>2
    <3>4. PICK b \in 1 .. m - 1 : /\ l[b] = proc_list[a]
                                  /\ (b < e => a = b) /\ (~(b < e) => a = b + 1)
      BY <2>7, <3>3
    <3>5. j < b
      BY <2>3, <3>1, <3>2, <3>3, <3>4
    <3> QED BY <3>1, <3>2, <3>4, <3>5
  <2>13. proc_list' = l
    BY <1>4, <2>2
  <2> QED BY <1>14, <2>4, <2>8, <2>10, <2>12, <2>13 DEF OldestLast
<1>18. PICK kids2 \in [Procs -> Seq(Proc)] : kids2 = [kids EXCEPT ![p] = t]
  BY <1>16
<1>19. kids2[p] = t /\ \A r \in Procs : r # p => kids2[r] = kids[r]
  BY <1>18
<1>20. \A r \in Procs : \A x \in Proc : x \in Children(r)' <=> x # q /\ x \in Children(r)
  BY <1>14, <1>17 DEF Children
<1>21. /\ Linked(kids2[p], cptr'[p], optr', yptr') /\ Distinct(kids2[p])
       /\ \A x \in Proc : x \in Children(p)' <=> \E i \in 1 .. Len(kids2[p]) : kids2[p][i] = x
       /\ cptr'[p] # NULL => yptr'[cptr'[p]] = NULL
  <2>1. Skipped(s, cptr[p], optr, yptr, k, cptr'[p], optr', yptr')
    <3>1. IF k = 1 THEN cptr'[p] = optr[s[k]] ELSE cptr'[p] = cptr[p] /\ optr'[s[k - 1]] = optr[s[k]]
      BY <1>11, <1>12, <1>13, <1>14
    <3>2. k < n => yptr'[s[k + 1]] = yptr[s[k]]
      <4>1. k < n => k # n /\ s[k + 1] \in Procs
        BY <1>12, <1>13
      <4> QED BY <1>11, <1>14, <4>1
    <3>3. ASSUME NEW i \in 1 .. n, i # k - 1 PROVE optr'[s[i]] = optr[s[i]]
      <4>1. k # 1 => s[i] # s[k - 1]
        BY <1>12, <1>13, <3>3
      <4> QED BY <1>12, <1>14, <4>1
    <3>4. ASSUME NEW i \in 1 .. n, i # k + 1 PROVE yptr'[s[i]] = yptr[s[i]]
      <4>1. k # n => s[i] # s[k + 1]
        BY <1>12, <1>13, <3>4
      <4> QED BY <1>12, <1>14, <4>1
    <3> QED BY <1>9, <3>1, <3>2, <3>3, <3>4 DEF Skipped
  <2>2. k \in 1 .. Len(s)
    BY <1>9, <1>11
  <2>3. Linked(RemoveAt(s, k), cptr'[p], optr', yptr')
    BY <1>8, <1>12, <2>1, <2>2, RemoveLinked
  <2>4. \A j \in 1 .. n - 1 : \E i \in 1 .. n : i # k /\ t[j] = s[i] /\
                                (j < k => i = j) /\ (~(j < k) => i = j + 1)
    <3>1. ASSUME NEW j \in 1 .. n - 1, j < k PROVE j \in 1 .. n /\ j # k /\ t[j] = s[j]
      BY <1>16, <3>1
    <3>2. ASSUME NEW j \in 1 .. n - 1, ~(j < k)
          PROVE  j + 1 \in 1 .. n /\ j + 1 # k /\ t[j] = s[j + 1]
      BY <1>11, <1>16, <3>2
    <3> QED BY <3>1, <3>2
  <2>5. \A i \in 1 .. n : i # k => \E j \in 1 .. n - 1 : t[j] = s[i]
    <3>1. ASSUME NEW i \in 1 .. n, i < k PROVE i \in 1 .. n - 1 /\ t[i] = s[i]
      <4>1. i \in 1 .. n - 1
        BY <1>11, <3>1
      <4> QED BY <1>16, <3>1, <4>1
    <3>2. ASSUME NEW i \in 1 .. n, k < i PROVE i - 1 \in 1 .. n - 1 /\ t[i - 1] = s[i]
      <4>1. i - 1 \in 1 .. n - 1 /\ ~(i - 1 < k) /\ i - 1 + 1 = i
        BY <1>11, <3>2
      <4>2. t[i - 1] = s[i - 1 + 1]
        BY <1>16, <4>1
      <4> QED BY <4>1, <4>2
    <3>3. \A i \in 1 .. n : i # k => i < k \/ k < i
      BY <1>11
    <3> QED BY <3>1, <3>2, <3>3
  <2>6. Distinct(t)
    <3>1. ASSUME NEW a \in 1 .. n - 1, NEW b \in 1 .. n - 1, t[a] = t[b] PROVE a = b
      <4>1. PICK i \in 1 .. n : t[a] = s[i] /\ (a < k => i = a) /\ (~(a < k) => i = a + 1)
        BY <2>4
      <4>2. PICK j \in 1 .. n : t[b] = s[j] /\ (b < k => j = b) /\ (~(b < k) => j = b + 1)
        BY <2>4
      <4>3. i = j
        BY <1>12, <3>1, <4>1, <4>2
      <4> QED BY <1>11, <4>1, <4>2, <4>3
    <3> QED BY <1>16, <3>1 DEF Distinct
  <2>7. ASSUME NEW x \in Proc PROVE x \in Children(p)' <=> \E i \in 1 .. n - 1 : t[i] = x
    <3>1. x \in Children(p) <=> \E i \in 1 .. n : s[i] = x
      BY <1>7, <1>8, <1>9
    <3>2. x \in Children(p)' <=> x # q /\ x \in Children(p)
      BY <1>20
    <3>3. ASSUME NEW i \in 1 .. n, s[i] = x, x # q PROVE \E j \in 1 .. n - 1 : t[j] = x
      BY <1>11, <2>5, <3>3
    <3>4. ASSUME NEW j \in 1 .. n - 1, t[j] = x PROVE x # q /\ \E i \in 1 .. n : s[i] = x
      <4>1. PICK i \in 1 .. n : i # k /\ t[j] = s[i]
        BY <2>4
      <4>2. s[i] # s[k]
        BY <1>11, <1>12, <4>1
      <4> QED BY <1>11, <3>4, <4>1, <4>2
    <3> QED BY <3>1, <3>2, <3>3, <3>4
  <2>8. cptr'[p] # NULL => yptr'[cptr'[p]] = NULL
    <3>1. CASE k = 1
      <4>1. cptr'[p] = optr[q]
        BY <1>14, <3>1
      <4>2. k # n => yptr'[s[k + 1]] = NULL
        BY <1>12, <1>13, <1>14, <3>1
      <4> QED BY <1>13, <4>1, <4>2
    <3>2. CASE k # 1
      <4>1. cptr'[p] = s[1] /\ 1 \in 1 .. n /\ 1 # k + 1
        BY <1>13, <1>14, <3>2
      <4>2. k # n => s[1] # s[k + 1]
        BY <1>12, <1>13, <4>1
      <4>3. yptr[s[1]] = NULL
        BY <1>7, <1>12, <1>13, <3>2
      <4> QED BY <1>12, <1>14, <4>1, <4>2, <4>3
    <3> QED BY <3>1, <3>2
  <2> QED BY <1>15, <1>16, <1>19, <2>3, <2>6, <2>7, <2>8
<1>22. ASSUME NEW r \in Procs, r # p
       PROVE  /\ Linked(kids2[r], cptr'[r], optr', yptr') /\ Distinct(kids2[r])
              /\ \A x \in Proc : x \in Children(r)' <=> \E i \in 1 .. Len(kids2[r]) : kids2[r][i] = x
              /\ cptr'[r] # NULL => yptr'[cptr'[r]] = NULL
  <2>1. \A i \in 1 .. Len(kids[r]) :
          kids[r][i] \in Procs /\ (k # n => kids[r][i] # s[k + 1]) /\ (k # 1 => kids[r][i] # s[k - 1])
    <3>1. \A i \in 1 .. Len(kids[r]) : kids[r][i] \in Procs /\ parent[kids[r][i]] = r
      BY <1>7
    <3>2. (k # n => parent[s[k + 1]] = p) /\ (k # 1 => parent[s[k - 1]] = p)
      BY <1>12, <1>13
    <3>3. ASSUME NEW i \in 1 .. Len(kids[r])
          PROVE  kids[r][i] \in Procs /\ \A x : parent[x] = p => kids[r][i] # x
      BY <1>22, <3>1
    <3> QED BY <3>2, <3>3
  <2>2. \A i \in 1 .. Len(kids[r]) : optr'[kids[r][i]] = optr[kids[r][i]] /\ yptr'[kids[r][i]] = yptr[kids[r][i]]
    BY <1>14, <2>1
  <2>3. Linked(kids[r], cptr[r], optr, yptr) /\ kids[r] \in Seq(Proc)
    BY <1>7
  <2>4. Linked(kids[r], cptr[r], optr', yptr')
    BY <2>2, <2>3, FrameLinked
  <2>5. cptr'[r] = cptr[r] /\ kids2[r] = kids[r]
    BY <1>14, <1>19, <1>22
  <2>6. \A x \in Proc : x \in Children(r)' <=> x \in Children(r)
    BY <1>6, <1>20, <1>22 DEF Children
  <2>7. cptr[r] # NULL => yptr'[cptr[r]] = NULL
    <3>1. cptr[r] # NULL => 1 \in 1 .. Len(kids[r]) /\ cptr[r] = kids[r][1] /\ yptr[cptr[r]] = NULL
      BY <1>7
    <3> QED BY <2>2, <3>1
  <2>8. \A x \in Proc : x \in Children(r) <=> \E i \in 1 .. Len(kids[r]) : kids[r][i] = x
    BY <1>7
  <2>9. Distinct(kids[r])
    BY <1>7
  <2> QED BY <2>4, <2>5, <2>6, <2>7, <2>8, <2>9
<1>23. KidsOf(kids2)'
  <2>1. ASSUME NEW r \in Procs
        PROVE  /\ Linked(kids2[r], cptr'[r], optr', yptr') /\ Distinct(kids2[r])
               /\ \A x \in Proc : x \in Children(r)' <=> \E i \in 1 .. Len(kids2[r]) : kids2[r][i] = x
               /\ cptr'[r] # NULL => yptr'[cptr'[r]] = NULL
    <3>1. CASE r = p
      BY <1>21, <3>1
    <3>2. CASE r # p
      BY <1>22, <3>2
    <3> QED BY <3>1, <3>2
  <2> QED BY <2>1 DEF KidsOf
<1>24. StateInv'
  <2>1. \A x \in Procs : state'[x] \in {"alive", "zombie"} => x \in Listed'
    BY <1>2, <1>14, <1>17 DEF StateInv
  <2>2. \A x \in Procs : state'[x] = "zombie" => cptr'[x] = NULL
    <3>1. \A x \in Procs : state[x] = "zombie" => cptr[x] = NULL
      BY <1>2, <1>3 DEF StateInv
    <3> QED BY <1>12, <1>14, <3>1
  <2>3. state'[initproc] = "alive"
    BY <1>2, <1>3, <1>14 DEF StateInv
  <2>4. yptr'[initproc] = NULL /\ optr'[initproc] = NULL
    <3>1. (k # n => s[k + 1] # initproc) /\ (k # 1 => s[k - 1] # initproc)
      BY <1>12, <1>13
    <3>2. yptr[initproc] = NULL /\ optr[initproc] = NULL
      BY <1>2 DEF StateInv
    <3> QED BY <1>3, <1>14, <3>1, <3>2
  <2>5. hash_list' = Listed'
    BY <1>2, <1>14, <1>17 DEF StateInv
  <2> QED BY <1>3, <2>1, <2>2, <2>3, <2>4, <2>5 DEF StateInv
<1> QED BY <1>17, <1>23, <1>24 DEF TreeInv

LEMMA StepTree == Inv /\ TreeInv /\ [Next]_vars => TreeInv'
<1> SUFFICES ASSUME Inv, TreeInv, [Next]_vars PROVE TreeInv'
  OBVIOUS
<1>1. CASE UNCHANGED vars
  BY <1>1, StillTree
<1>2. CASE Next
  BY <1>2, ForkTree, StillTree, SetLinksTree, GiveTree, WaitTree DEF Next
<1> QED BY <1>1, <1>2

-----------------------------------------------------------------------------
\* The walk from cptr on along optr.
LEMMA KthChildIs ==
    ASSUME NEW p \in Procs, NEW s \in Seq(Proc), Linked(s, cptr[p], optr, yptr), NEW k \in Nat
    PROVE  KthChild(p, k) = Item(s, k + 1)
<1> DEFINE Walk(d) == [i \in Nat |->
              IF i = 0 THEN cptr[p] ELSE IF d[i - 1] = NULL THEN NULL ELSE optr[d[i - 1]]]
<1>1. PICK g : g = [i \in Nat |-> Item(s, i + 1)]
  OBVIOUS
<1>2. PICK n \in Nat : n = Len(s)
  BY KidFacts
<1>3. ASSUME NEW i \in Nat
      PROVE  g[i] = IF i = 0 THEN cptr[p] ELSE IF g[i - 1] = NULL THEN NULL ELSE optr[g[i - 1]]
  <2>1. g[i] = Item(s, i + 1)
    BY <1>1
  <2>2. CASE i = 0
    BY <2>1, <2>2 DEF Linked
  <2>3. CASE i # 0
    <3>1. i - 1 \in Nat /\ i - 1 + 1 = i
      BY <2>3
    <3>2. g[i - 1] = Item(s, i)
      BY <1>1, <3>1
    <3>3. CASE i \in 1 .. n
      <4>1. Item(s, i) = s[i] /\ s[i] # NULL
        BY <1>2, <3>3, KidFacts
      <4>2. optr[s[i]] = Item(s, i + 1)
        BY <1>2, <3>3 DEF Linked
      <4> QED BY <2>1, <2>3, <3>2, <4>1, <4>2
    <3>4. CASE i \notin 1 .. n
      <4>1. i + 1 \notin 1 .. n
        BY <2>3, <3>4
      <4>2. Item(s, i) = NULL /\ Item(s, i + 1) = NULL
        BY <1>2, <3>4, <4>1 DEF Item
      <4> QED BY <2>1, <2>3, <3>2, <4>2
    <3> QED BY <3>3, <3>4
  <2> QED BY <2>2, <2>3
<1>4. g = Walk(g)
  BY <1>1, <1>3
<1>5. PICK c : c = CHOOSE d : d = Walk(d)
  OBVIOUS
<1>6. c = Walk(c)
  <2> HIDE DEF Walk
  <2> QED BY <1>4, <1>5
<1>7. ASSUME NEW i \in Nat
      PROVE  c[i] = IF i = 0 THEN cptr[p] ELSE IF c[i - 1] = NULL THEN NULL ELSE optr[c[i - 1]]
  <2>1. Walk(c)[i] = IF i = 0 THEN cptr[p] ELSE IF c[i - 1] = NULL THEN NULL ELSE optr[c[i - 1]]
    OBVIOUS
  <2> HIDE DEF Walk
  <2> QED BY <1>6, <2>1
<1>8. KthChild(p, k) = c[k]
  BY <1>5, Zenon DEF KthChild
<1> HIDE DEF Walk
\* The first place where the walk and s differ.
<1>9. ASSUME NEW bad \in Nat, c[bad] # g[bad] PROVE FALSE
  <2>1. PICK T \in SUBSET Nat : T = {i \in Nat : c[i] # g[i]}
    OBVIOUS
  <2>2. T # {}
    BY <1>9, <2>1
  <2>3. PICK m \in T : \A i \in T : m <= i
    BY <2>1, <2>2, LeastNat
  <2>4. m \in Nat /\ c[m] # g[m]
    BY <2>1, <2>3
  <2>5. CASE m = 0
    BY <1>3, <1>7, <2>4, <2>5
  <2>6. CASE m # 0
    <3>1. m - 1 \in Nat /\ ~(m <= m - 1)
      BY <2>4, <2>6
    <3>2. c[m - 1] = g[m - 1]
      BY <2>1, <2>3, <3>1
    <3> QED BY <1>3, <1>7, <2>4, <2>6, <3>2
  <2> QED BY <2>5, <2>6
<1> QED BY <1>1, <1>8, <1>9

\* As many as the sequence that names each of them once is long.
LEMMA CountOnce ==
    ASSUME NEW S, NEW s \in Seq(S), NEW T,
           \A i, j \in 1 .. Len(s) : s[i] = s[j] => i = j,
           T = {s[i] : i \in 1 .. Len(s)}
    PROVE  IsFiniteSet(T) /\ Cardinality(T) = Len(s)
<1>1. PICK n \in Nat : n = Len(s)
  BY LenProperties
<1>2. PICK f : f = [i \in 1 .. n |-> s[i]]
  OBVIOUS
<1>3. f \in [1 .. n -> T]
  BY <1>1, <1>2
<1>4. (\A a, b \in 1 .. n : f[a] = f[b] => a = b) /\ (\A t \in T : \E i \in 1 .. n : f[i] = t)
  BY <1>1, <1>2
<1>5. f \in Bijection(1 .. n, T)
  BY <1>3, <1>4, Fun_IsBij
<1>6. ExistsBijection(1 .. n, T)
  BY <1>5 DEF ExistsBijection
<1>7. IsFiniteSet(T)
  BY <1>6, FS_NatBijection
<1>8. Cardinality(T) = n
  BY <1>6, FS_CountingElements
<1> QED BY <1>1, <1>7, <1>8

LEMMA TreeLinks == Inv /\ TreeInv => LinksAreChildren
<1> SUFFICES ASSUME Inv, TreeInv, leaver = NULL
             PROVE  /\ \A p \in Procs : state[p] # "free" =>
                         /\ Chain(p) = Children(p)
                         /\ KthChild(p, Cardinality(Children(p))) = NULL
                         /\ cptr[p] # NULL => yptr[cptr[p]] = NULL
                    /\ \A q \in Listed : optr[q] # NULL => yptr[optr[q]] = q
                    /\ hash_list = Listed /\ IsInjective(proc_list)
                    /\ nr_process = Cardinality(Listed) + 1
                    /\ cptr[initproc] = NULL /\ child = NULL =>
                         /\ yptr[initproc] = NULL /\ optr[initproc] = NULL
                         /\ nr_process = 2 /\ proc_list = <<initproc>>
  BY DEF LinksAreChildren
<1>1. PICK kids \in [Procs -> Seq(Proc)] : KidsOf(kids)
  BY DEF TreeInv
<1>2. OldestLast /\ StateInv
  BY DEF TreeInv
<1>3. PICK len \in Nat : len = Len(proc_list)
  BY TypeFacts
<1>4. DOMAIN proc_list = 1 .. len /\ proc_list \in Seq(Procs) /\ nr_process = len + 1
  BY <1>3, TypeFacts DEF Inv, TypeOK, ListInv
<1>5. \A a, b \in 1 .. len : proc_list[a] = proc_list[b] => a = b
  BY <1>4 DEF Inv, ListInv, NoRepeats
<1>6. IsFiniteSet(Listed) /\ Cardinality(Listed) = len
  <2>1. Listed = {proc_list[i] : i \in 1 .. Len(proc_list)}
    BY <1>3, <1>4 DEF Listed
  <2>2. proc_list \in Seq(Procs)
    BY <1>4
  <2>3. \A a, b \in 1 .. Len(proc_list) : proc_list[a] = proc_list[b] => a = b
    BY <1>3, <1>5
  <2> HIDE DEF Listed
  <2>4. IsFiniteSet(Listed) /\ Cardinality(Listed) = Len(proc_list)
    BY <2>1, <2>2, <2>3, CountOnce
  <2> QED BY <1>3, <2>4
<1>7. ASSUME NEW p \in Procs
      PROVE  /\ Chain(p) = Children(p)
             /\ KthChild(p, Cardinality(Children(p))) = NULL
             /\ cptr[p] # NULL => yptr[cptr[p]] = NULL
  <2>1. PICK s \in Seq(Proc) : s = kids[p]
    BY <1>1, TreeFacts
  <2>2. PICK n \in Nat : n = Len(s)
    BY <2>1, KidFacts
  <2>3. Linked(s, cptr[p], optr, yptr) /\ \A a, b \in 1 .. n : s[a] = s[b] => a = b
    BY <1>1, <2>1, <2>2, TreeFacts DEF Distinct
  <2>4. Children(p) = {s[i] : i \in 1 .. Len(s)}
    <3>1. Children(p) \subseteq Proc
      BY <1>2, ParentListed DEF Children
    <3>2. \A x \in Proc : x \in Children(p) <=> \E i \in 1 .. Len(s) : s[i] = x
      BY <1>1, <2>1 DEF KidsOf
    <3>3. \A i \in 1 .. Len(s) : s[i] \in Proc
      BY <2>1, KidFacts
    <3> HIDE DEF Children
    <3> QED BY <3>1, <3>2, <3>3
  <2>5. Cardinality(Children(p)) = n
    <3> HIDE DEF Children
    <3>1. \A a, b \in 1 .. Len(s) : s[a] = s[b] => a = b
      BY <2>2, <2>3
    <3>2. Cardinality(Children(p)) = Len(s)
      BY <2>1, <2>4, <3>1, CountOnce
    <3> QED BY <2>2, <3>2
  <2>6. n <= len
    <3>1. Children(p) \subseteq Listed
      BY DEF Children
    <3> HIDE DEF Children, Listed
    <3> QED BY <1>6, <2>5, <3>1, FS_Subset
  <2>7. \A k \in Nat : KthChild(p, k) = Item(s, k + 1)
    BY <2>1, <2>3, KthChildIs
  <2>8. KthChild(p, n) = NULL
    <3>1. n + 1 \notin 1 .. n
      OBVIOUS
    <3> QED BY <2>2, <2>7, <3>1 DEF Item
  <2>9. Chain(p) = {s[i] : i \in 1 .. n}
    <3>1. ASSUME NEW k \in 0 .. nr_process, KthChild(p, k) # NULL
          PROVE  KthChild(p, k) \in {s[i] : i \in 1 .. n}
      <4>1. k \in Nat
        BY <1>4
      <4>2. Item(s, k + 1) # NULL /\ KthChild(p, k) = Item(s, k + 1)
        BY <2>7, <3>1, <4>1
      <4>3. k + 1 \in 1 .. n /\ Item(s, k + 1) = s[k + 1]
        BY <2>1, <2>2, <4>2, KidFacts
      <4> QED BY <4>2, <4>3
    <3>2. ASSUME NEW i \in 1 .. n
          PROVE  s[i] # NULL /\ \E k \in 0 .. nr_process : KthChild(p, k) = s[i]
      <4>1. i - 1 \in 0 .. nr_process /\ i - 1 \in Nat /\ i - 1 + 1 = i
        BY <1>4, <2>6
      <4>2. Item(s, i) = s[i] /\ s[i] # NULL
        BY <2>1, <2>2, KidFacts
      <4>3. KthChild(p, i - 1) = s[i]
        BY <2>7, <4>1, <4>2
      <4> QED BY <4>1, <4>2, <4>3
    <3> HIDE DEF KthChild
    <3> QED BY <3>1, <3>2 DEF Chain
  <2>10. cptr[p] # NULL => yptr[cptr[p]] = NULL
    BY <1>1, FamilyAssumption DEF KidsOf, Procs
  <2> QED BY <2>2, <2>4, <2>5, <2>8, <2>9, <2>10
<1>8. ASSUME NEW q \in Listed, optr[q] # NULL PROVE yptr[optr[q]] = q
  <2>1. q # initproc
    BY <1>2, <1>8 DEF StateInv
  <2>2. PICK p \in Procs : p = parent[q] /\ q \in Proc
    BY <1>2, <2>1, ParentListed
  <2>3. PICK s \in Seq(Proc) : s = kids[p] /\ Linked(s, cptr[p], optr, yptr)
    BY <1>1, TreeFacts
  <2>4. PICK n \in Nat : n = Len(s)
    BY <2>3, KidFacts
  <2>5. PICK i \in 1 .. n : s[i] = q
    BY <1>1, <2>2, <2>3, <2>4, TreeFacts
  <2>6. optr[q] = Item(s, i + 1)
    BY <2>3, <2>4, <2>5 DEF Linked
  <2>7. i + 1 \in 1 .. n /\ optr[q] = s[i + 1]
    BY <1>8, <2>3, <2>4, <2>6, KidFacts
  <2>8. i + 1 \in 2 .. n /\ i + 1 - 1 = i
    BY <2>7
  <2> QED BY <2>3, <2>4, <2>5, <2>7, <2>8 DEF Linked
<1>9. ASSUME cptr[initproc] = NULL PROVE len = 1 /\ proc_list = <<initproc>>
  <2>1. proc_list[len] = initproc /\ 1 <= len
    BY <1>2, <1>3, <1>4 DEF OldestLast, Inv, ListInv
  <2>2. CASE len > 1
    <3>1. PICK i \in 1 .. len : i = len - 1
      BY <2>2
    <3>2. proc_list[i] # initproc
      BY <1>5, <2>1, <3>1
    <3>3. PICK j \in 1 .. len : i < j /\ proc_list[j] = parent[proc_list[i]]
      BY <1>2, <1>4, <3>2 DEF OldestLast
    <3>4. parent[proc_list[i]] = initproc
      <4>1. j = len
        BY <3>1, <3>3
      <4> QED BY <2>1, <3>3, <4>1
    <3>5. proc_list[i] \in Listed /\ proc_list[i] \in Proc /\ initproc \in Procs
      BY <1>2, <1>4, <3>2, ParentListed DEF Listed, Procs
    <3>6. PICK k \in 1 .. Len(kids[initproc]) : kids[initproc][k] = proc_list[i]
      BY <1>1, <3>4, <3>5, TreeFacts
    <3>7. Len(kids[initproc]) = 0
      BY <1>1, <1>9, <3>5, TreeFacts
    <3> QED BY <3>6, <3>7
  <2>3. len = 1
    BY <2>1, <2>2
  <2> QED BY <1>3, <1>4, <2>1, <2>3
<1>10. IsInjective(proc_list)
  BY <1>4, <1>5 DEF IsInjective
<1> QED BY <1>2, <1>4, <1>6, <1>7, <1>8, <1>9, <1>10 DEF StateInv

\* Whatever forks, exits and waits came before, what do_wait and do_exit reach over
\* cptr and optr are the children of a process, each once (set_links and remove_links,
\* proc.c:166-191), and the asserts at the end of init_main hold (proc.c:1064-1067).
THEOREM LinksCorrect == Spec => []LinksAreChildren
<1>1. Init => Inv /\ TreeInv
  BY InitInv, InitTree
<1>2. Inv /\ TreeInv /\ [Next]_vars => (Inv /\ TreeInv)'
  BY StepInv, StepTree
<1> QED BY <1>1, <1>2, TreeLinks, PTL DEF Spec
=============================================================================
