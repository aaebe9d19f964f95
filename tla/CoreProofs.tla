----------------------------- MODULE CoreProofs -----------------------------
(***************************************************************************)
(* The two data structures the simulation loop rests on: the run queue of  *)
(* the system and the decode cache of a core.                              *)
(***************************************************************************)
EXTENDS RunnableQueue, CodeCache, TLAPS

(***************************************************************************)
(* The run queue stays a sorted list, for any number of Runnables.  Links  *)
(* alone do not exclude a loop beside the list, so the invariant says that *)
(* the members can be numbered in the order of their links (IsList); every *)
(* operation keeps or extends the numbering.                               *)
(***************************************************************************)
Sorted == \E pos \in [Runnable -> Int] : IsList(head, prev, next, wakeUpTime, pos)

(* While push searches, its Runnable is outside the list and belongs       *)
(* behind p.                                                               *)
SearchOK ==
  pushing # NULL => /\ ~Contains(pushing) /\ now <= wakeUpTime[pushing]
                    /\ p # NULL /\ Contains(p) /\ wakeUpTime[p] <= wakeUpTime[pushing]

NoneLate == \A r \in Runnable : Contains(r) => now <= wakeUpTime[r]

QInv == TypeOK /\ Sorted /\ SearchOK /\ NoneLate

-----------------------------------------------------------------------------
(* RunnableQueue::remove leaves a sorted list without r, whatever the time *)
(* of r is set to.                                                         *)
LEMMA RemoveList ==
  ASSUME TypeOK, NEW pos \in [Runnable -> Int], NEW r \in Runnable, Contains(r),
         IsList(head, prev, next, wakeUpTime, pos),
         NEW w \in [Runnable -> Int], \A x \in Runnable \ {r} : w[x] = wakeUpTime[x]
  PROVE  /\ IsList(RemovedHead(r), RemovedPrev(r), RemovedNext(r), w, pos)
         /\ RemovedHead(r) \in Link
         /\ RemovedPrev(r) \in [Runnable -> Link]
         /\ RemovedNext(r) \in [Runnable -> Link]
         /\ Members(RemovedHead(r), RemovedPrev(r)) = Members(head, prev) \ {r}
<1> DEFINE h == RemovedHead(r)
           v == RemovedPrev(r)
           n == RemovedNext(r)
<1> USE QueueAssumption DEF Link
<1>1. h \in Link /\ v \in [Runnable -> Link] /\ n \in [Runnable -> Link]
  BY Zenon DEF TypeOK, RemovedHead, RemovedPrev, RemovedNext
<1> DEFINE In == Members(head, prev)
<1>2. /\ r \in In
      /\ \A x : x \in In <=> x \in Runnable /\ (prev[x] # NULL \/ x = head)
      /\ head # NULL /\ prev[head] = NULL
  BY DEF TypeOK, IsList, Members, Contains
<1>3. \A a \in In : /\ next[a] # NULL => next[a] \in In /\ prev[next[a]] = a /\ next[a] # a
                    /\ prev[a] # NULL => prev[a] \in In /\ next[prev[a]] = a /\ prev[a] # a
  BY <1>2 DEF TypeOK, IsList
<1>4. \A a, b \in In : /\ pos[a] \in Int /\ (pos[a] = pos[b] => a = b)
                       /\ pos[a] < pos[b] => wakeUpTime[a] <= wakeUpTime[b]
  BY <1>2 DEF IsList
<1>5. /\ head \in In /\ \A a \in In : pos[head] <= pos[a]
      /\ \A a \in In :
           /\ next[a] = NULL => \A b \in In : pos[b] <= pos[a]
           /\ next[a] # NULL => /\ pos[a] < pos[next[a]]
                                /\ \A b \in In : pos[b] <= pos[a] \/ pos[next[a]] <= pos[b]
  BY <1>2 DEF IsList, TypeOK
<1> HIDE DEF In
<1>6. \A x \in Runnable : v[x] = IF x = r THEN NULL
                                 ELSE IF x = next[r] THEN prev[r] ELSE prev[x]
  BY Zenon DEF RemovedPrev
<1>7. \A x \in Runnable : n[x] = IF r # head /\ x = prev[r] THEN next[r] ELSE next[x]
  BY Zenon DEF RemovedNext, TypeOK
<1>8. h = IF r = head THEN next[r] ELSE head
  BY DEF RemovedHead
<1> HIDE DEF h, v, n
<1>9. ASSUME NEW x \in Runnable
      PROVE  (v[x] # NULL \/ x = h) <=> (x \in In /\ x # r)
  <2>1. CASE x = r
    BY <2>1, <1>2, <1>3, <1>6, <1>8
  <2>2. CASE x # r /\ x = next[r]
    BY <2>2, <1>2, <1>3, <1>6, <1>8
  <2>3. CASE x # r /\ x # next[r]
    BY <2>3, <1>2, <1>3, <1>6, <1>8
  <2> QED BY <2>1, <2>2, <2>3
<1>10. Members(h, v) = In \ {r}
  BY <1>2, <1>9 DEF Members
<1>11. IsList(h, v, n, w, pos)
  <2>1. h = NULL => Members(h, v) = {}
    BY <1>2, <1>3, <1>4, <1>5, <1>8, <1>10
  <2>2. h # NULL => v[h] = NULL /\ \A a \in Members(h, v) : pos[h] <= pos[a]
    BY <1>2, <1>3, <1>4, <1>5, <1>6, <1>8, <1>10
  <2>3. ASSUME NEW a \in Members(h, v)
        PROVE  /\ n[a] = NULL => \A b \in Members(h, v) : pos[b] <= pos[a]
               /\ n[a] # NULL => /\ n[a] \in Members(h, v) /\ v[n[a]] = a /\ pos[a] < pos[n[a]]
                                 /\ \A b \in Members(h, v) : pos[b] <= pos[a] \/ pos[n[a]] <= pos[b]
               /\ v[a] # NULL => v[a] \in Members(h, v) /\ n[v[a]] = a
    <3>1. CASE r # head /\ a = prev[r]
      <4>1. /\ a \in In /\ a # r /\ r \in In /\ a \in Runnable /\ r \in Runnable
            /\ next[a] = r /\ n[a] = next[r] /\ pos[a] < pos[r]
            /\ pos[a] \in Int /\ pos[r] \in Int
        BY <3>1, <1>2, <1>3, <1>4, <1>5, <1>7, <1>10
      <4>2. \A b \in In : b # r /\ pos[r] <= pos[b] => pos[r] < pos[b]
        BY <4>1, <1>4
      <4>3. \A b \in In : pos[b] <= pos[a] \/ pos[r] <= pos[b]
        BY <4>1, <1>5
      <4>4. ASSUME n[a] = NULL
            PROVE  \A b \in Members(h, v) : pos[b] <= pos[a]
        <5>1. \A b \in In : pos[b] <= pos[r] /\ pos[b] \in Int
          BY <4>1, <4>4, <1>4, <1>5, Zenon
        <5>2. \A b \in In : b # r => pos[b] <= pos[a]
          BY <4>1, <4>2, <4>3, <5>1
        <5> QED BY <5>2, <1>10
      <4>5. ASSUME n[a] # NULL
            PROVE  /\ n[a] \in Members(h, v) /\ v[n[a]] = a /\ pos[a] < pos[n[a]]
                   /\ \A b \in Members(h, v) : pos[b] <= pos[a] \/ pos[n[a]] <= pos[b]
        <5>1. next[r] \in In /\ next[r] # r /\ next[r] \in Runnable /\ pos[next[r]] \in Int
          BY <4>1, <4>5, <1>2, <1>3, <1>4
        <5>2. v[next[r]] = a
          BY <3>1, <5>1, <1>6
        <5>3. pos[r] < pos[next[r]] /\ \A b \in In : pos[b] <= pos[r] \/ pos[next[r]] <= pos[b]
          BY <4>1, <4>5, <1>5
        <5>4. \A b \in In : b # r => pos[b] <= pos[a] \/ pos[next[r]] <= pos[b]
          BY <4>1, <4>2, <4>3, <5>1, <5>3, <1>4
        <5> QED BY <4>1, <5>1, <5>2, <5>3, <5>4, <1>10
      <4>6. ASSUME v[a] # NULL
            PROVE  v[a] \in Members(h, v) /\ n[v[a]] = a
        <5>1. a # next[r]
          BY <4>1, <1>3, <1>4, <1>5
        <5>2. v[a] = prev[a]
          BY <4>1, <5>1, <1>6
        <5>3. prev[a] \in In /\ next[prev[a]] = a /\ prev[a] # a /\ prev[a] \in Runnable
          BY <4>1, <4>6, <5>2, <1>2, <1>3
        <5>4. prev[a] # r
          BY <5>1, <5>3
        <5> QED BY <3>1, <5>2, <5>3, <5>4, <1>7, <1>10
      <4> QED BY <4>4, <4>5, <4>6
    <3>2. CASE ~(r # head /\ a = prev[r])
      BY <3>2, <1>2, <1>3, <1>4, <1>5, <1>6, <1>7, <1>8, <1>10
    <3> QED BY <3>1, <3>2
  <2>4. \A a, b \in Members(h, v) : /\ pos[a] = pos[b] => a = b
                                    /\ pos[a] < pos[b] => w[a] <= w[b]
    BY <1>2, <1>4, <1>10
  <2> QED BY <2>1, <2>2, <2>3, <2>4 DEF IsList
<1> QED BY <1>1, <1>10, <1>11 DEF h, v, n, In

(* What push has in hand when it links r in front of the list h, or behind *)
(* its entry q: a sorted list without r, and the new links v2 and n2.      *)
InFront(h, v, n, w, pos, r, v2, n2) ==
  /\ h \in Link /\ w \in [Runnable -> Int] /\ pos \in [Runnable -> Int]
  /\ {v, n, v2, n2} \subseteq [Runnable -> Link]
  /\ IsList(h, v, n, w, pos) /\ r \in Runnable \ Members(h, v)
  /\ h # NULL => w[r] < w[h]
  /\ n2[r] = h /\ \A x \in Runnable \ {r} : n2[x] = n[x]
  /\ \A x \in Runnable : v2[x] = IF x = h THEN r ELSE v[x]

Behind(h, v, n, w, pos, r, q, v2, n2) ==
  /\ h \in Link /\ w \in [Runnable -> Int] /\ pos \in [Runnable -> Int]
  /\ {v, n, v2, n2} \subseteq [Runnable -> Link]
  /\ IsList(h, v, n, w, pos) /\ r \in Runnable \ Members(h, v)
  /\ q \in Members(h, v) /\ w[q] <= w[r] /\ (n[q] # NULL => w[r] < w[n[q]])
  /\ n2[r] = n[q] /\ n2[q] = r /\ \A x \in Runnable \ {r, q} : n2[x] = n[x]
  /\ \A x \in Runnable : v2[x] = IF x = r THEN q ELSE IF x = n[q] THEN r ELSE v[x]

(* RunnableQueue::push in front of the list h, or into an empty one.       *)
LEMMA FrontList ==
  ASSUME NEW h, NEW v, NEW n, NEW w, NEW pos, NEW r, NEW v2, NEW n2,
         InFront(h, v, n, w, pos, r, v2, n2)
  PROVE  \E new \in [Runnable -> Int] :
           IsList(r, v2, n2, w, new) /\ Members(r, v2) = Members(h, v) \cup {r}
<1> DEFINE new == [pos EXCEPT ![r] = IF h = NULL THEN 0 ELSE pos[h] - 1]
           In == Members(h, v)
<1> USE QueueAssumption DEF Link
<1>0. /\ h \in Link /\ w \in [Runnable -> Int] /\ pos \in [Runnable -> Int]
      /\ v \in [Runnable -> Link] /\ n \in [Runnable -> Link] /\ r \in Runnable
  BY DEF InFront
<1>1. /\ \A x : x \in In <=> x \in Runnable /\ (v[x] # NULL \/ x = h)
      /\ h # NULL => h \in In /\ v[h] = NULL /\ \A a \in In : pos[h] <= pos[a]
      /\ h = NULL => In = {}
      /\ v[r] = NULL /\ r # h
  BY <1>0 DEF IsList, Members, InFront
<1>2. Members(r, v2) = In \cup {r}
  BY <1>0, <1>1 DEF Members, InFront
<1>3. \A a, b \in In : /\ pos[a] \in Int /\ (pos[a] = pos[b] => a = b)
                       /\ pos[a] < pos[b] => w[a] <= w[b]
                       /\ w[a] \in Int
  BY <1>0, <1>1 DEF IsList, InFront
<1>4. \A a \in In :
        /\ n[a] = NULL => \A b \in In : pos[b] <= pos[a]
        /\ n[a] # NULL => /\ n[a] \in In /\ v[n[a]] = a /\ pos[a] < pos[n[a]]
                          /\ \A b \in In : pos[b] <= pos[a] \/ pos[n[a]] <= pos[b]
        /\ v[a] # NULL => v[a] \in In /\ n[v[a]] = a
  BY DEF IsList, InFront
<1>5. /\ \A a \in In : a # r /\ new[a] = pos[a] /\ n2[a] = n[a] /\ a \in Runnable
      /\ n2[r] = h /\ v2[r] = NULL /\ new[r] \in Int
      /\ \A a \in In : new[r] < pos[a] /\ w[r] <= w[a]
      /\ h # NULL => v2[h] = r
      /\ \A a \in In : a # h => v2[a] = v[a]
      /\ new \in [Runnable -> Int]
  <2>1. CASE h = NULL
    BY <2>1, <1>0, <1>1 DEF InFront
  <2>2. CASE h # NULL
    <3>0. w[r] < w[h] /\ w[r] \in Int /\ w[h] \in Int /\ h \in In
      BY <2>2, <1>0, <1>1 DEF InFront
    <3>1. \A a \in In : w[r] <= w[a]
      <4>1. \A a \in In : a = h \/ pos[h] < pos[a]
        BY <2>2, <3>0, <1>1, <1>3
      <4> QED BY <3>0, <4>1, <1>3
    <3>2. new \in [Runnable -> Int] /\ new[r] = pos[h] - 1 /\ pos[h] \in Int
      BY <2>2, <1>0
    <3>3. \A a \in In : a # r /\ a \in Runnable /\ new[a] = pos[a] /\ pos[a] \in Int
      BY <1>0, <1>1
    <3>4. \A a \in In : new[r] < pos[a]
      BY <2>2, <1>1, <3>2, <3>3
    <3>5. /\ n2[r] = h /\ v2[r] = NULL /\ v2[h] = r
          /\ \A a \in In : n2[a] = n[a] /\ (a # h => v2[a] = v[a])
      BY <2>2, <1>0, <1>1, <3>3 DEF InFront
    <3> QED BY <3>1, <3>2, <3>3, <3>4, <3>5
  <2> QED BY <2>1, <2>2, Zenon
<1> HIDE DEF In, new
<1>6. IsList(r, v2, n2, w, new)
  <2>1. ASSUME NEW a \in In \cup {r}
        PROVE  /\ n2[a] = NULL => \A b \in In \cup {r} : new[b] <= new[a]
               /\ n2[a] # NULL =>
                    /\ n2[a] \in In \cup {r} /\ v2[n2[a]] = a /\ new[a] < new[n2[a]]
                    /\ \A b \in In \cup {r} : new[b] <= new[a] \/ new[n2[a]] <= new[b]
               /\ v2[a] # NULL => v2[a] \in In \cup {r} /\ n2[v2[a]] = a
    <3>1. CASE a = r
      BY <3>1, <1>1, <1>3, <1>4, <1>5
    <3>2. CASE a \in In
      BY <3>2, <1>1, <1>3, <1>4, <1>5
    <3> QED BY <3>1, <3>2, Zenon
  <2>2. \A a, b \in In \cup {r} : /\ new[a] = new[b] => a = b
                                  /\ new[a] < new[b] => w[a] <= w[b]
    BY <1>3, <1>5
  <2>3. v2[r] = NULL /\ \A a \in In \cup {r} : new[r] <= new[a]
    BY <1>3, <1>5
  <2> QED BY <1>0, <1>2, <2>1, <2>2, <2>3 DEF IsList
<1> QED BY <1>2, <1>5, <1>6, Zenon DEF In

(* The end of RunnableQueue::push: r goes behind q, before the first entry *)
(* with a later time.                                                      *)
LEMMA LinkList ==
  ASSUME NEW h, NEW v, NEW n, NEW w, NEW pos, NEW r, NEW q, NEW v2, NEW n2,
         Behind(h, v, n, w, pos, r, q, v2, n2)
  PROVE  \E new \in [Runnable -> Int] :
           IsList(h, v2, n2, w, new) /\ Members(h, v2) = Members(h, v) \cup {r}
<1> DEFINE new == [x \in Runnable |-> IF x = r THEN pos[q] + 1
                                      ELSE IF pos[x] > pos[q] THEN pos[x] + 1 ELSE pos[x]]
           In == Members(h, v)
<1> USE QueueAssumption DEF Link
<1>0. /\ h \in Link /\ w \in [Runnable -> Int] /\ pos \in [Runnable -> Int]
      /\ v \in [Runnable -> Link] /\ n \in [Runnable -> Link] /\ r \in Runnable
  BY DEF Behind
<1>1. /\ \A x : x \in In <=> x \in Runnable /\ (v[x] # NULL \/ x = h)
      /\ h \in In /\ v[h] = NULL /\ \A a \in In : pos[h] <= pos[a]
      /\ v[r] = NULL /\ r # h /\ {q, r} \subseteq Runnable /\ r # q /\ h # NULL
      /\ q \in In /\ r \notin In /\ w[r] \in Int
      /\ w[q] <= w[r] /\ (n[q] # NULL => w[r] < w[n[q]])
  BY <1>0 DEF IsList, Members, Behind
<1>2. \A a, b \in In : /\ pos[a] \in Int /\ (pos[a] = pos[b] => a = b)
                       /\ pos[a] < pos[b] => w[a] <= w[b]
                       /\ w[a] \in Int
  BY <1>0, <1>1 DEF IsList, Behind
<1>3. \A a \in In :
        /\ n[a] = NULL => \A b \in In : pos[b] <= pos[a]
        /\ n[a] # NULL => /\ n[a] \in In /\ v[n[a]] = a /\ pos[a] < pos[n[a]]
                          /\ \A b \in In : pos[b] <= pos[a] \/ pos[n[a]] <= pos[b]
        /\ v[a] # NULL => v[a] \in In /\ n[v[a]] = a
  BY DEF IsList, Behind
<1>4. \A x \in Runnable : v2[x] = IF x = r THEN q ELSE IF x = n[q] THEN r ELSE v[x]
  BY Zenon DEF Behind
<1>5. n2[r] = n[q] /\ n2[q] = r /\ \A x \in Runnable \ {r, q} : n2[x] = n[x]
  BY <1>1 DEF Behind
<1>6. Members(h, v2) = In \cup {r}
  BY <1>0, <1>1, <1>3, <1>4 DEF Members
<1>7. /\ new \in [Runnable -> Int]
      /\ new[r] = pos[q] + 1
      /\ \A x \in In : new[x] = IF pos[x] > pos[q] THEN pos[x] + 1 ELSE pos[x]
  <2> HIDE DEF In
  <2>1. q \in Runnable /\ pos[q] \in Int /\ \A x \in In : x \in Runnable /\ x # r
    BY <1>0, <1>1
  <2>2. new \in [Runnable -> Int]
    BY <1>0, <2>1
  <2> QED BY <1>0, <2>1, <2>2, Zenon
<1>8. \A a \in In : /\ pos[a] <= pos[q] => w[a] <= w[r]
                    /\ pos[a] > pos[q] => w[r] <= w[a]
  <2> HIDE DEF In
  <2>1. ASSUME NEW a \in In, pos[a] <= pos[q] PROVE w[a] <= w[r]
    <3>1. w[a] <= w[q]
      BY <2>1, <1>1, <1>2
    <3> QED BY <3>1, <1>1, <1>2
  <2>2. ASSUME NEW a \in In, pos[a] > pos[q] PROVE w[r] <= w[a]
    <3>1. n[q] # NULL /\ n[q] \in In /\ pos[n[q]] <= pos[a]
      BY <2>2, <1>1, <1>2, <1>3
    <3>2. w[n[q]] <= w[a]
      BY <3>1, <2>2, <1>2
    <3> QED BY <3>1, <3>2, <1>1, <1>2
  <2> QED BY <2>1, <2>2
<1> HIDE DEF In, new
<1>9. \A a, b \in In \cup {r} : /\ new[a] = new[b] => a = b
                                /\ new[a] < new[b] => w[a] <= w[b]
  <2>1. \A a, b \in In : /\ new[a] = new[b] => a = b
                         /\ new[a] < new[b] => w[a] <= w[b]
    <3> SUFFICES ASSUME NEW a \in In, NEW b \in In
                 PROVE  /\ new[a] = new[b] => a = b
                        /\ new[a] < new[b] => w[a] <= w[b]
      OBVIOUS
    <3>1. /\ new[a] = IF pos[a] > pos[q] THEN pos[a] + 1 ELSE pos[a]
          /\ new[b] = IF pos[b] > pos[q] THEN pos[b] + 1 ELSE pos[b]
          /\ pos[a] \in Int /\ pos[b] \in Int /\ pos[q] \in Int
          /\ pos[a] = pos[b] => a = b
          /\ pos[a] < pos[b] => w[a] <= w[b]
      BY <1>1, <1>2, <1>7, Zenon
    <3> QED BY <3>1
  <2>2. \A a \in In : /\ new[a] # new[r]
                      /\ new[a] < new[r] => w[a] <= w[r]
                      /\ new[r] < new[a] => w[r] <= w[a]
    BY <1>1, <1>2, <1>7, <1>8
  <2> QED BY <1>1, <2>1, <2>2
<1>10. v2[h] = NULL /\ \A a \in In \cup {r} : new[h] <= new[a]
  <2>1. v2[h] = NULL
    BY <1>1, <1>3, <1>4
  <2>2. pos[h] <= pos[q] /\ pos[h] \in Int /\ pos[q] \in Int
    BY <1>1, <1>2
  <2>3. ASSUME NEW a \in In PROVE new[h] <= new[a]
    BY <1>1, <1>2, <1>7
  <2>4. new[h] <= new[r]
    BY <1>1, <1>7, <2>2
  <2> QED BY <2>1, <2>3, <2>4
<1>11. ASSUME NEW a \in In \cup {r}
       PROVE  /\ n2[a] = NULL => \A b \in In \cup {r} : new[b] <= new[a]
              /\ n2[a] # NULL =>
                   /\ n2[a] \in In \cup {r} /\ v2[n2[a]] = a /\ new[a] < new[n2[a]]
                   /\ \A b \in In \cup {r} : new[b] <= new[a] \/ new[n2[a]] <= new[b]
              /\ v2[a] # NULL => v2[a] \in In \cup {r} /\ n2[v2[a]] = a
  <2>1. CASE a = r
    BY <2>1, <1>1, <1>2, <1>3, <1>4, <1>5, <1>7
  <2>2. CASE a = q
    BY <2>2, <1>1, <1>2, <1>3, <1>4, <1>5, <1>7
  <2>3. CASE a \in In \ {q}
    <3>1. n2[a] = n[a]
      BY <2>3, <1>1, <1>5
    <3>2. ASSUME n[a] = NULL, NEW b \in In \cup {r} PROVE new[b] <= new[a]
      <4>0. pos[q] <= pos[a] /\ pos[q] \in Int /\ pos[a] \in Int /\ pos[q] # pos[a]
        BY <2>3, <3>2, <1>1, <1>2, <1>3
      <4>1. pos[q] < pos[a] /\ new[a] = pos[a] + 1
        BY <2>3, <4>0, <1>7
      <4>2. CASE b = r
        BY <2>3, <4>1, <4>2, <1>1, <1>2, <1>7
      <4>3. CASE b \in In
        BY <2>3, <3>2, <4>1, <4>3, <1>2, <1>3, <1>7
      <4> QED BY <4>2, <4>3
    <3>3. ASSUME n[a] # NULL
          PROVE  n[a] \in In /\ v2[n[a]] = a /\ new[a] < new[n[a]]
      <4>1. n[a] \in In /\ v[n[a]] = a /\ pos[a] < pos[n[a]]
        BY <2>3, <3>3, <1>3
      <4>2. n[a] # n[q] /\ n[a] # r /\ n[a] \in Runnable
        BY <2>3, <3>3, <4>1, <1>1, <1>3, Zenon
      <4>3. v2[n[a]] = a
        BY <4>1, <4>2, <1>4
      <4>4. new[a] < new[n[a]]
        BY <2>3, <4>1, <1>1, <1>2, <1>7
      <4> QED BY <4>1, <4>3, <4>4
    <3>4. ASSUME n[a] # NULL, NEW b \in In \cup {r}
          PROVE  new[b] <= new[a] \/ new[n[a]] <= new[b]
      <4>1. CASE b = r
        <5>1. pos[q] <= pos[a] \/ pos[n[a]] <= pos[q]
          BY <2>3, <3>4, <1>1, <1>3, Zenon
        <5>2. pos[q] # pos[a] /\ n[a] \in In
          BY <2>3, <3>4, <1>1, <1>2, <1>3, Zenon
        <5> QED BY <2>3, <4>1, <5>1, <5>2, <1>1, <1>2, <1>7
      <4>2. CASE b \in In
        BY <2>3, <3>4, <4>2, <1>1, <1>2, <1>3, <1>7
      <4> QED BY <4>1, <4>2
    <3>5. v2[a] # NULL => v2[a] \in In \cup {r} /\ n2[v2[a]] = a
      BY <2>3, <1>1, <1>3, <1>4, <1>5
    <3> QED BY <3>1, <3>2, <3>3, <3>4, <3>5, Zenon
  <2> QED BY <2>1, <2>2, <2>3, Zenon
<1>12. IsList(h, v2, n2, w, new)
  BY <1>1, <1>6, <1>9, <1>10, <1>11, Zenon DEF IsList
<1> QED BY <1>6, <1>7, <1>12 DEF In

-----------------------------------------------------------------------------
(* The empty queue of a new SystemState is a sorted list.                  *)
LEMMA InitQInv == Init => QInv
<1> SUFFICES ASSUME Init PROVE QInv
  OBVIOUS
<1> USE QueueAssumption DEF Init
<1>1. TypeOK /\ SearchOK /\ NoneLate
  BY DEF TypeOK, Link, Time, SearchOK, NoneLate, Contains
<1>2. IsList(head, prev, next, wakeUpTime, [r \in Runnable |-> 0])
  BY DEF IsList, Members
<1>3. [r \in Runnable |-> 0] \in [Runnable -> Int]
  OBVIOUS
<1> QED BY <1>1, <1>2, <1>3 DEF QInv, Sorted

(* Every step of push, remove and pop, and every pop by SystemState::run,  *)
(* keeps a sorted list in which nothing is late.                           *)
LEMMA NextQInv == QInv /\ [Next]_vars => QInv'
<1> SUFFICES ASSUME QInv, [Next]_vars PROVE QInv'
  OBVIOUS
<1> USE QueueAssumption
<1>1. PICK pos \in [Runnable -> Int] : IsList(head, prev, next, wakeUpTime, pos)
  BY DEF QInv, Sorted
<1>2. TypeOK /\ wakeUpTime \in [Runnable -> Int] /\ now \in Int
  BY DEF QInv, TypeOK, Time
<1>3. \A r \in Runnable : Contains(r) <=> r \in Members(head, prev)
  BY DEF Members, Contains
<1>4. ASSUME NEW r \in Runnable, Remove(r) PROVE QInv'
  <2>1. /\ IsList(head', prev', next', wakeUpTime', pos)
        /\ head' \in Link /\ prev' \in [Runnable -> Link] /\ next' \in [Runnable -> Link]
        /\ Members(head', prev') = Members(head, prev) \ {r}
    BY <1>1, <1>2, <1>4, RemoveList DEF Remove
  <2>2. TypeOK'
    BY <1>2, <1>4, <2>1 DEF Remove, TypeOK
  <2>3. NoneLate'
    BY <1>3, <1>4, <2>1, Zenon DEF Remove, NoneLate, QInv, Members, Contains
  <2>4. SearchOK'
    BY <1>4 DEF Remove, SearchOK
  <2>5. Sorted'
    BY <2>1 DEF Sorted
  <2> QED BY <2>2, <2>3, <2>4, <2>5 DEF QInv
<1>5. CASE Pop
  <2>1. head \in Runnable /\ Contains(head) /\ prev[head] = NULL
    BY <1>1, <1>2, <1>5 DEF Pop, TypeOK, Link, Contains, IsList
  <2>2. /\ head' = RemovedHead(head) /\ prev' = RemovedPrev(head)
        /\ next' = RemovedNext(head)
    BY <1>2, <1>5, <2>1 DEF Pop, RemovedHead, RemovedPrev, RemovedNext, TypeOK
  <2>3. /\ IsList(head', prev', next', wakeUpTime', pos)
        /\ head' \in Link /\ prev' \in [Runnable -> Link] /\ next' \in [Runnable -> Link]
        /\ Members(head', prev') = Members(head, prev) \ {head}
    BY <1>1, <1>2, <1>5, <2>1, <2>2, RemoveList DEF Pop
  <2>4. TypeOK'
    BY <1>2, <1>5, <2>1, <2>3 DEF Pop, PopTime, TypeOK
  <2>5. NoneLate'
    <3>1. \A r \in Runnable : Contains(r) => wakeUpTime[head] <= wakeUpTime[r]
      BY <1>1, <1>2, <1>3, <2>1 DEF IsList
    <3> QED BY <1>3, <1>5, <2>3, <3>1 DEF Pop, PopTime, NoneLate, Members, Contains
  <2>6. SearchOK'
    BY <1>5 DEF Pop, SearchOK
  <2>7. Sorted'
    BY <2>3 DEF Sorted
  <2> QED BY <2>4, <2>5, <2>6, <2>7 DEF QInv
<1>6. CASE PushScan
  <2>1. /\ p \in Runnable /\ p \in Members(head, prev) /\ next[p] # NULL
        /\ pushing \in Runnable
    BY <1>2, <1>3, <1>6 DEF PushScan, GoesFurther, QInv, SearchOK, TypeOK, Link
  <2>2. next[p] \in Members(head, prev)
    BY <1>1, <2>1 DEF IsList
  <2>3. TypeOK' /\ NoneLate' /\ Sorted'
    BY <1>2, <1>6, <2>1 DEF PushScan, QInv, TypeOK, NoneLate, Sorted, Contains
  <2>4. SearchOK'
    BY <1>3, <1>6, <2>1, <2>2
       DEF PushScan, GoesFurther, QInv, SearchOK, Contains, Members
  <2> QED BY <2>3, <2>4 DEF QInv
<1>7. CASE PushLink
  <2>1. /\ p \in Members(head, prev) /\ pushing \in Runnable
        /\ pushing \notin Members(head, prev)
        /\ wakeUpTime[p] <= wakeUpTime[pushing]
        /\ next[p] # NULL => wakeUpTime[pushing] < wakeUpTime[next[p]]
    BY <1>2, <1>3, <1>7 DEF PushLink, GoesFurther, QInv, SearchOK, TypeOK, Link
  <2>2. p \in Runnable
    BY <2>1 DEF Members
  <2>3. next' \in [Runnable -> Link] /\ prev' \in [Runnable -> Link]
    BY <1>2, <1>7, <2>1, <2>2 DEF PushLink, TypeOK, Link
  <2>4. \E new \in [Runnable -> Int] :
          /\ IsList(head, prev', next', wakeUpTime, new)
          /\ Members(head, prev') = Members(head, prev) \cup {pushing}
    <3>1. Behind(head, prev, next, wakeUpTime, pos, pushing, p, prev', next')
      BY <1>1, <1>2, <1>7, <2>1, <2>2, <2>3 DEF PushLink, TypeOK, Behind
    <3> QED BY <3>1, LinkList
  <2>5. TypeOK' /\ SearchOK'
    BY <1>2, <1>7, <2>3 DEF PushLink, TypeOK, Link, SearchOK
  <2>6. Sorted'
    BY <1>7, <2>4, Zenon DEF PushLink, Sorted
  <2>7. NoneLate'
    BY <1>3, <1>7, <2>1, <2>4 DEF PushLink, QInv, NoneLate, SearchOK, Contains, Members
  <2> QED BY <2>5, <2>6, <2>7 DEF QInv
<1>8. ASSUME NEW r \in Runnable, NEW t \in Earliest .. MaxTime, PushStart(r, t) PROVE QInv'
  <2> DEFINE h == IF Contains(r) THEN RemovedHead(r) ELSE head
             n == IF Contains(r) THEN RemovedNext(r) ELSE next
             v == IF Contains(r) THEN RemovedPrev(r) ELSE prev
             w == wakeUpTime'
  <2>1. /\ t \in Time /\ t \in Int /\ now <= t
        /\ w \in [Runnable -> Time] /\ w \in [Runnable -> Int] /\ w[r] = t
        /\ \A x \in Runnable \ {r} : w[x] = wakeUpTime[x]
        /\ pushing = NULL /\ now' = now
    BY <1>2, <1>8 DEF PushStart, TypeOK, Time, Earliest
  <2>2. /\ IsList(h, v, n, w, pos)
        /\ h \in Link /\ v \in [Runnable -> Link] /\ n \in [Runnable -> Link]
        /\ Members(h, v) = Members(head, prev) \ {r}
    <3>1. CASE Contains(r)
      BY <1>1, <1>2, <2>1, <3>1, RemoveList
    <3>2. CASE ~Contains(r)
      <4>1. \A x \in Members(head, prev) : w[x] = wakeUpTime[x]
        BY <1>3, <2>1, <3>2 DEF Members
      <4>2. IsList(head, prev, next, w, pos)
        BY <1>1, <4>1, Zenon DEF IsList
      <4> QED BY <1>2, <1>3, <3>2, <4>2 DEF TypeOK, Members
    <3> QED BY <3>1, <3>2
  <2>3. \/ /\ h = NULL
           /\ head' = r /\ next' = [n EXCEPT ![r] = NULL] /\ prev' = v
           /\ UNCHANGED <<pushing, p>>
        \/ /\ h # NULL /\ GoesFirst(t, h)
           /\ head' = r /\ next' = [n EXCEPT ![r] = h] /\ prev' = [v EXCEPT ![h] = r]
           /\ UNCHANGED <<pushing, p>>
        \/ /\ h # NULL /\ ~GoesFirst(t, h)
           /\ head' = h /\ next' = n /\ prev' = v
           /\ pushing' = r /\ p' = h
    BY <1>8 DEF PushStart
  <2>4. \A x \in Members(h, v) : now <= w[x]
    BY <1>3, <2>1, <2>2 DEF QInv, NoneLate, Members
  <2>5. h # NULL => h \in Members(h, v) /\ w[h] = wakeUpTime[h]
    BY <2>1, <2>2 DEF Members, Link
  <2> HIDE DEF h, n, v, w
  <2>6. CASE h # NULL /\ t >= wakeUpTime[h] /\ head' = h /\ next' = n /\ prev' = v
             /\ pushing' = r /\ p' = h
    <3>1. TypeOK'
      BY <1>2, <2>1, <2>2, <2>6 DEF TypeOK, Link, w
    <3>2. Sorted'
      BY <2>2, <2>6 DEF Sorted, w
    <3>3. NoneLate'
      BY <2>1, <2>4, <2>6 DEF NoneLate, Contains, Members, w
    <3>4. SearchOK'
      BY <2>1, <2>2, <2>5, <2>6 DEF SearchOK, Contains, Members, w
    <3> QED BY <3>1, <3>2, <3>3, <3>4 DEF QInv
  <2>7. CASE /\ h # NULL => t < wakeUpTime[h]
             /\ head' = r /\ next' = [n EXCEPT ![r] = h]
             /\ prev' = IF h = NULL THEN v ELSE [v EXCEPT ![h] = r]
             /\ UNCHANGED <<pushing, p>>
    <3>1. r \notin Members(h, v) /\ (h # NULL => w[r] < w[h])
      BY <2>1, <2>2, <2>5, <2>7
    <3>2. \E new \in [Runnable -> Int] :
            /\ IsList(head', prev', next', w, new)
            /\ Members(head', prev') = Members(h, v) \cup {r}
      <4>1. prev' \in [Runnable -> Link] /\ next' \in [Runnable -> Link]
        BY <2>2, <2>7 DEF Link
      <4>2. InFront(h, v, n, w, pos, r, prev', next')
        BY <2>1, <2>2, <2>7, <3>1, <4>1 DEF InFront, Link
      <4>3. \E new \in [Runnable -> Int] :
              IsList(r, prev', next', w, new) /\ Members(r, prev') = Members(h, v) \cup {r}
        BY <4>2, FrontList
      <4> QED BY <2>7, <4>3, Zenon
    <3>3. TypeOK'
      BY <1>2, <2>1, <2>2, <2>7 DEF TypeOK, Link, w
    <3>4. Sorted'
      BY <3>2 DEF Sorted, w
    <3>5. NoneLate'
      BY <2>1, <2>4, <3>2 DEF NoneLate, Contains, Members, w
    <3>6. SearchOK'
      BY <2>1, <2>7 DEF SearchOK
    <3> QED BY <3>3, <3>4, <3>5, <3>6, SMTT(20) DEF QInv
  <2>8. h # NULL => (~GoesFirst(t, h) => t >= wakeUpTime[h])
    BY <1>2, <2>1, <2>2 DEF GoesFirst, Link
  <2> QED BY <2>3, <2>6, <2>7, <2>8 DEF GoesFirst
<1>9. CASE UNCHANGED vars
  BY <1>9 DEF vars, QInv, TypeOK, Sorted, SearchOK, NoneLate, Contains
<1> QED BY <1>4, <1>5, <1>6, <1>7, <1>8, <1>9 DEF Next

-----------------------------------------------------------------------------
(* The run queue is a sorted list in every reachable state, and the place  *)
(* that push looks for is never passed.                                    *)
THEOREM QueueStaysSorted == Spec => []QInv
<1> QED BY InitQInv, NextQInv, PTL DEF Spec

(* The links of the run queue are Runnables or null, and times stay in     *)
(* range.                                                                  *)
THEOREM QueueTypeCorrect == Spec => []TypeOK
<1>1. QInv => TypeOK
  BY DEF QInv
<1> QED BY <1>1, QueueStaysSorted, PTL

(* SystemState::run always pops a Runnable with the earliest wakeUpTime.   *)
THEOREM FrontIsEarliest == Spec => []HeadIsEarliest
<1>1. QInv => HeadIsEarliest
  <2> SUFFICES ASSUME QInv, NEW r \in Runnable, Contains(r)
               PROVE  head # NULL /\ wakeUpTime[head] <= wakeUpTime[r]
    BY DEF HeadIsEarliest
  <2>1. PICK pos \in [Runnable -> Int] : IsList(head, prev, next, wakeUpTime, pos)
    BY DEF QInv, Sorted
  <2>2. wakeUpTime \in [Runnable -> Int] /\ head \in Link /\ r \in Members(head, prev)
    BY QueueAssumption DEF QInv, TypeOK, Time, Members, Contains
  <2>3. head # NULL /\ head \in Members(head, prev) /\ pos[head] <= pos[r]
    BY <2>1, <2>2 DEF IsList, Members, Link
  <2>4. CASE pos[head] = pos[r]
    BY <2>1, <2>2, <2>3, <2>4 DEF IsList, Link
  <2>5. CASE pos[head] < pos[r]
    BY <2>1, <2>2, <2>3, <2>5 DEF IsList, Members
  <2>6. pos[head] \in Int /\ pos[r] \in Int
    BY <2>1, <2>2, <2>3 DEF Link
  <2> QED BY <2>3, <2>4, <2>5, <2>6
<1> QED BY <1>1, QueueStaysSorted, PTL

(* Simulated time never runs backwards: each Runnable that is popped has   *)
(* the time of the one before it or a later time.                          *)
THEOREM TimeNeverRunsBack == Spec => TimeMovesForward
<1>1. QInv /\ [Next]_vars => [now <= now']_vars
  <2> SUFFICES ASSUME QInv, Next PROVE now <= now'
    OBVIOUS
  <2>1. now \in Int
    BY QueueAssumption DEF QInv, TypeOK, Time
  <2>2. CASE Pop
    BY <2>2 DEF Pop, PopTime, QInv, NoneLate, Contains, TypeOK, Link
  <2>3. CASE now' = now
    BY <2>1, <2>3
  <2> QED BY <2>2, <2>3 DEF Next, PushStart, PushScan, PushLink, Remove
<1> QED BY <1>1, QueueStaysSorted, PTL DEF Spec, TimeMovesForward

-----------------------------------------------------------------------------
(***************************************************************************)
(* For a RAM of every size, every program and every number of edits: what  *)
(* the decode cache holds was made from what memory and the breakpoints    *)
(* say.                                                                    *)
(***************************************************************************)
Extent(pc) == DOMAIN opcode[pc].code

Shape ==
  /\ opcode = [pc \in Pcs |-> opcode[pc]]
  /\ info \in [Pcs -> {NONE, CURRENT, BOTH}]
  /\ \A pc \in Pcs : opcode[pc].kind = "decode" => Extent(pc) = {}
  /\ \A pc \in Pcs : opcode[pc].kind # "decode" =>
       \E stop \in (pc + 1)..Size : Extent(pc) = pc..(stop - 1)

BusyShape ==
  /\ busy = [doing |-> busy.doing, at |-> busy.at, end |-> busy.end]
  /\ busy.doing \in {"idle", "compile", "range", "reset"}
  /\ busy.at \in 0..Size /\ busy.end \in 0..Size
  /\ busy.doing \in {"range", "reset"} => busy.at < busy.end

MemShape == mem \in [Pcs -> Values]

CacheInv == Shape /\ BusyShape /\ MemShape /\ Covered /\ CodeCurrent

(* S is closed when an entry that reaches into S starts in S.                 *)
Closed(S) == \A pc \in Pcs : \A i \in Extent(pc) : i \in S => pc \in S

(* S catches h when every entry made from the halfword h starts in S.         *)
Catches(S, h) == \A pc \in Pcs : h \in Extent(pc) => pc \in S

(* A step resets the entries that start in S and changes halfwords of C only. *)
Resets(S) ==
  /\ \A pc \in Pcs : pc \in S => Extent(pc)' = {}
  /\ \A pc \in Pcs : pc \notin S => opcode'[pc] = opcode[pc]

Changes(C) ==
  \A i \in Pcs : i \notin C =>
    /\ Cell(i)' = Cell(i) \/ Pending(i)'
    /\ Pending(i) => Pending(i)'

(* Walking back from a marked halfword resets every entry that the halfword   *)
(* or any reset halfword belongs to.                                          *)
LEMMA WalkCloses ==
  ASSUME Shape, Covered, NEW h \in Pcs
  PROVE  Walk(h) \subseteq Pcs /\ Closed(Walk(h)) /\ Catches(Walk(h), h)
<1> USE CacheAssumption
<1>1. Walk(h) \subseteq Pcs
  BY SMT DEF Walk, Pcs
<1>2. ASSUME NEW pc \in Pcs, NEW i \in Extent(pc), i \in Walk(h)
      PROVE  pc \in Walk(h)
  <2>1. opcode[pc].kind # "decode"
    BY <1>2 DEF Shape
  <2>2. PICK stop \in (pc + 1)..Size : Extent(pc) = pc..(stop - 1)
    BY <2>1 DEF Shape
  <2>3. \A j \in (pc + 1)..i : j \in Extent(pc) /\ j # pc
    BY <2>2, <1>2, SMT DEF Pcs
  <2>4. \A j \in (pc + 1)..i : info[j] = BOTH
    BY <2>1, <2>3 DEF Covered, Extent
  <2>5. i \in 0..h /\ \A j \in (i + 1)..h : info[j] = BOTH
    BY <1>2 DEF Walk
  <2>6. pc \in 0..h
    BY <2>2, <2>5, <1>2, SMT DEF Pcs
  <2>7. \A j \in (pc + 1)..h : j \in (pc + 1)..i \/ j \in (i + 1)..h
    BY <2>5, <2>6, SMT DEF Pcs
  <2> QED BY <2>4, <2>5, <2>6, <2>7 DEF Walk
<1>3. h \in Walk(h)
  BY SMT DEF Walk, Pcs
<1> QED BY <1>1, <1>2, <1>3 DEF Closed, Catches

(* What a byte or halfword store invalidates.                                 *)
LEMMA ShortCloses ==
  ASSUME Shape, Covered, NEW h \in Pcs
  PROVE  /\ InvalidatedByShort(h) \subseteq Pcs
         /\ Closed(InvalidatedByShort(h)) /\ Catches(InvalidatedByShort(h), h)
<1>1. CASE info[h] # NONE
  BY <1>1, WalkCloses DEF InvalidatedByShort
<1>2. CASE info[h] = NONE
  <2>1. ASSUME NEW pc \in Pcs, h \in Extent(pc) PROVE FALSE
    <3>1. opcode[pc].kind # "decode"
      BY <2>1 DEF Shape
    <3>2. info[h] # NONE
      BY <2>1, <3>1, Zenon DEF Covered, Extent, NONE, BOTH
    <3> QED BY <3>2, <1>2
  <2> QED BY <2>1, <1>2 DEF InvalidatedByShort, Closed, Catches
<1> QED BY <1>1, <1>2

(* What a word store invalidates.                                             *)
LEMMA WordCloses ==
  ASSUME Shape, Covered, NEW h \in Pcs, h + 1 \in Pcs
  PROVE  /\ InvalidatedByWord(h) \subseteq Pcs
         /\ Closed(InvalidatedByWord(h))
         /\ Catches(InvalidatedByWord(h), h) /\ Catches(InvalidatedByWord(h), h + 1)
<1> USE CacheAssumption
<1>1. ASSUME NEW pc \in Pcs, h + 1 \in Extent(pc), pc # h + 1
      PROVE  pc \in Walk(h) /\ info[h + 1] # NONE
  <2>1. opcode[pc].kind # "decode"
    BY <1>1 DEF Shape
  <2>2. info[h + 1] = BOTH
    BY <1>1, <2>1 DEF Covered, Extent
  <2>3. PICK stop \in (pc + 1)..Size : Extent(pc) = pc..(stop - 1)
    BY <2>1 DEF Shape
  <2>4. h \in Extent(pc)
    BY <2>3, <1>1, SMT DEF Pcs
  <2> QED BY <2>2, <2>4, WalkCloses, Zenon DEF Catches, NONE, BOTH
<1>2. CASE info[h + 1] # NONE
  BY <1>1, <1>2, WalkCloses DEF InvalidatedByWord, Closed, Catches
<1>3. CASE info[h + 1] = NONE
  <2>1. ASSUME NEW pc \in Pcs PROVE h + 1 \notin Extent(pc)
    <3>1. CASE pc # h + 1
      BY <1>1, <1>3, <3>1
    <3>2. CASE pc = h + 1
      <4>1. opcode[pc].kind = "decode"
        BY <1>3, <3>2 DEF Covered
      <4> QED BY <4>1 DEF Shape
    <3> QED BY <3>1, <3>2
  <2> QED BY <1>3, <2>1, ShortCloses DEF InvalidatedByWord, Catches
<1> QED BY <1>2, <1>3

(* Resetting a closed set keeps the table covering the entries that are left. *)
LEMMA InvalidateKeeps ==
  ASSUME Shape, Covered, NEW S \in SUBSET Pcs, Closed(S), NEW t, invalidateSlowPath(S, t)
  PROVE  /\ Shape' /\ Covered'
         /\ Resets(S)
<1> USE CacheAssumption
<1>1. \A pc \in Pcs : pc \in S => opcode'[pc].kind = "decode" /\ Extent(pc)' = {}
  BY DEF invalidateSlowPath, NotDecoded, Entry, NoCode, Extent
<1>2. \A pc \in Pcs : pc \notin S => opcode'[pc] = opcode[pc]
  BY DEF invalidateSlowPath
<1>3. \A pc \in Pcs : pc \notin S => Extent(pc)' = Extent(pc)
  BY <1>2 DEF Extent
<1>4. Shape'
  <2>1. (opcode = [pc \in Pcs |-> opcode[pc]])'
    BY DEF invalidateSlowPath
  <2>2. info' \in [Pcs -> {NONE, CURRENT, BOTH}]
    BY DEF invalidateSlowPath, Shape
  <2>3. ASSUME NEW pc \in Pcs PROVE opcode'[pc].kind = "decode" => Extent(pc)' = {}
    BY <1>1, <1>2, <1>3 DEF Shape
  <2>4. ASSUME NEW pc \in Pcs, opcode'[pc].kind # "decode"
        PROVE  \E stop \in (pc + 1)..Size : Extent(pc)' = pc..(stop - 1)
    BY <2>4, <1>1, <1>2, <1>3 DEF Shape
  <2> QED BY <2>1, <2>2, <2>3, <2>4 DEF Shape
<1>5. Covered'
  <2>1. info'[0] # BOTH
    <3>1. 0 \in Pcs
      BY SMT DEF Pcs
    <3> QED BY <3>1, Zenon DEF invalidateSlowPath, Covered, NONE, BOTH
  <2>2. ASSUME NEW pc \in Pcs, opcode'[pc].kind # "decode"
        PROVE  info'[pc] # NONE /\ \A i \in Extent(pc)' : i # pc => info'[i] = BOTH
    <3>1. pc \notin S /\ Extent(pc)' = Extent(pc) /\ opcode[pc].kind # "decode"
      BY <2>2, <1>1, <1>2, <1>3
    <3>2. \A i \in Extent(pc) : i \in Pcs /\ i \notin S
      <4>1. PICK stop \in (pc + 1)..Size : Extent(pc) = pc..(stop - 1)
        BY <3>1 DEF Shape
      <4>2. \A i \in Extent(pc) : i \in Pcs
        BY <4>1, SMT DEF Pcs
      <4> QED BY <4>2, <3>1 DEF Closed
    <3>3. info'[pc] = info[pc] /\ \A i \in Extent(pc) : info'[i] = info[i]
      BY <3>1, <3>2 DEF invalidateSlowPath
    <3> QED BY <3>1, <3>3 DEF Covered, Extent
  <2> QED BY <2>1, <2>2 DEF Covered, Extent
<1> QED BY <1>1, <1>2, <1>4, <1>5 DEF Resets

(* Installing an entry keeps the table covering all of them.                  *)
LEMMA InstallKeeps ==
  ASSUME Shape, Covered, NEW pc \in Pcs, NEW stop \in (pc + 1)..Size, NEW e,
         e.kind # "decode", DOMAIN e.code = pc..(stop - 1), setOpcode(pc, e, stop)
  PROVE  /\ Shape' /\ Covered'
         /\ opcode'[pc] = e
         /\ \A q \in Pcs : q # pc => opcode'[q] = opcode[q]
<1> USE CacheAssumption
<1>1. opcode' = [opcode EXCEPT ![pc] = e]
  BY DEF setOpcode
<1>2. opcode'[pc] = e /\ (\A q \in Pcs : q # pc => opcode'[q] = opcode[q])
  BY <1>1 DEF Shape
<1>3. Extent(pc)' = pc..(stop - 1) /\ \A q \in Pcs : q # pc => Extent(q)' = Extent(q)
  BY <1>2 DEF Extent
<1>4. \A i \in Pcs : i \in (pc + 1)..(stop - 1) => info'[i] = BOTH
  BY SMT DEF setOpcode, Pcs
<1>5. \A i \in Pcs : i \notin (pc + 1)..(stop - 1) =>
        info'[i] = IF i = pc /\ info[i] = NONE THEN CURRENT ELSE info[i]
  BY DEF setOpcode
<1>6. \A i \in Pcs : info[i] # NONE => info'[i] # NONE /\ (info[i] = BOTH => info'[i] = BOTH)
  BY <1>4, <1>5, Zenon DEF NONE, BOTH, CURRENT
<1>7. Shape'
  <2>1. (opcode = [q \in Pcs |-> opcode[q]])'
    BY <1>1 DEF Shape
  <2>2. info' \in [Pcs -> {NONE, CURRENT, BOTH}]
    BY DEF setOpcode, Shape
  <2>3. ASSUME NEW q \in Pcs, opcode'[q].kind = "decode" PROVE Extent(q)' = {}
    BY <2>3, <1>2, <1>3 DEF Shape
  <2>4. ASSUME NEW q \in Pcs, opcode'[q].kind # "decode"
        PROVE  \E end \in (q + 1)..Size : Extent(q)' = q..(end - 1)
    <3>1. CASE q = pc
      BY <3>1, <1>3
    <3>2. CASE q # pc
      BY <3>2, <2>4, <1>2, <1>3, SMTT(20) DEF Shape
    <3> QED BY <3>1, <3>2
  <2> QED BY <2>1, <2>2, <2>3, <2>4 DEF Shape
<1>8. Covered'
  <2>1. info'[0] # BOTH
    <3>1. 0 \in Pcs /\ 0 \notin (pc + 1)..(stop - 1)
      BY SMT DEF Pcs
    <3> QED BY <3>1, <1>5, Zenon DEF Covered, CURRENT, BOTH
  <2>2. ASSUME NEW q \in Pcs, opcode'[q].kind # "decode"
        PROVE  info'[q] # NONE /\ \A i \in Extent(q)' : i # q => info'[i] = BOTH
    <3>1. CASE q = pc
      <4>1. pc \notin (pc + 1)..(stop - 1)
        BY SMT DEF Pcs
      <4>2. info'[pc] # NONE
        BY <4>1, <1>5 DEF NONE, CURRENT
      <4>3. \A i \in pc..(stop - 1) : i # pc => i \in Pcs /\ i \in (pc + 1)..(stop - 1)
        BY SMT DEF Pcs
      <4> QED BY <3>1, <4>2, <4>3, <1>3, <1>4
    <3>2. CASE q # pc
      <4>1. opcode[q].kind # "decode" /\ Extent(q)' = Extent(q)
        BY <3>2, <2>2, <1>2, <1>3
      <4>2. PICK end \in (q + 1)..Size : Extent(q) = q..(end - 1)
        BY <4>1 DEF Shape
      <4>3. \A i \in Extent(q) : i \in Pcs
        BY <4>2, SMT DEF Pcs
      <4>4. info[q] # NONE /\ \A i \in Extent(q) : i # q => info[i] = BOTH
        BY <4>1 DEF Covered, Extent
      <4> QED BY <4>1, <4>3, <4>4, <1>6, Zenon DEF NONE, BOTH
    <3> QED BY <3>1, <3>2
  <2> QED BY <2>1, <2>2 DEF Covered, Extent
<1> QED BY <1>2, <1>7, <1>8

(* An entry's halfwords are in the RAM.                                       *)
LEMMA ExtentInRam ==
  ASSUME Shape, NEW pc \in Pcs, NEW i \in Extent(pc)
  PROVE  i \in Pcs
<1>1. opcode[pc].kind # "decode"
  BY DEF Shape
<1>2. PICK stop \in (pc + 1)..Size : Extent(pc) = pc..(stop - 1)
  BY <1>1, SMTT(20) DEF Shape
<1> QED BY <1>2, CacheAssumption, SMT DEF Pcs

(* Resetting a set that catches the changed halfwords keeps the cache true to *)
(* memory and breakpoints.                                                    *)
LEMMA EditKeepsCurrent ==
  ASSUME Shape, CodeCurrent, NEW S, NEW C,
         Resets(S), Changes(C), \A h \in C : Catches(S, h)
  PROVE  CodeCurrent'
<1> SUFFICES ASSUME NEW pc \in Pcs, NEW i \in Extent(pc)'
             PROVE  (opcode'[pc].code[i] = Cell(i)') \/ Pending(i)'
  BY DEF CodeCurrent, Extent
<1>1. pc \notin S /\ opcode'[pc] = opcode[pc] /\ i \in Extent(pc)
  BY DEF Extent, Resets
<1>2. i \in Pcs
  BY <1>1, ExtentInRam
<1>3. i \notin C
  BY <1>1 DEF Catches
<1>4. opcode[pc].code[i] = Cell(i) \/ Pending(i)
  BY <1>1 DEF CodeCurrent, Extent
<1> QED BY <1>1, <1>2, <1>3, <1>4 DEF Changes

(* Nothing is pending unless a range is being invalidated.                    *)
LEMMA IdlePending ==
  ASSUME busy = Idle, NEW i
  PROVE  ~Pending(i)
BY DEF Idle, Pending

(* A byte, halfword or word store.                                            *)
LEMMA StoresKeep ==
  ASSUME CacheInv, StoreShort \/ StoreWord
  PROVE  CacheInv'
<1> USE CacheAssumption
<1>1. CASE StoreShort
  <2>1. PICK h \in Pcs, v \in Values :
          /\ busy = Idle /\ busy' = busy /\ breakpoints' = breakpoints
          /\ mem' = [mem EXCEPT ![h] = v]
          /\ invalidateSlowPath(InvalidatedByShort(h), tracing)
    BY <1>1, Zenon DEF StoreShort
  <2> DEFINE S == InvalidatedByShort(h)
  <2>2. S \subseteq Pcs /\ Closed(S) /\ Catches(S, h)
    BY ShortCloses DEF CacheInv
  <2>3. /\ Shape' /\ Covered'
        /\ Resets(S)
    BY <2>1, <2>2, InvalidateKeeps DEF CacheInv
  <2>4. Changes({h})
    BY <2>1, IdlePending DEF CacheInv, MemShape, Cell, Changes
  <2>5. CodeCurrent'
    BY <2>2, <2>3, <2>4, EditKeepsCurrent DEF CacheInv
  <2>6. MemShape' /\ BusyShape'
    BY <2>1 DEF CacheInv, MemShape, BusyShape
  <2> QED BY <2>3, <2>5, <2>6 DEF CacheInv
<1>2. CASE StoreWord
  <2>1. PICK h \in {pc \in Pcs : pc % 2 = 0}, v \in Values, w \in Values :
          /\ busy = Idle /\ busy' = busy /\ breakpoints' = breakpoints
          /\ mem' = [mem EXCEPT ![h] = v, ![h + 1] = w]
          /\ invalidateSlowPath(InvalidatedByWord(h), tracing)
    BY <1>2, Zenon DEF StoreWord
  <2>0. h \in Pcs /\ h + 1 \in Pcs
    BY <2>1, SMT DEF Pcs
  <2> DEFINE S == InvalidatedByWord(h)
  <2>2. S \subseteq Pcs /\ Closed(S) /\ Catches(S, h) /\ Catches(S, h + 1)
    BY <2>0, WordCloses DEF CacheInv
  <2>3. /\ Shape' /\ Covered'
        /\ Resets(S)
    BY <2>1, <2>2, InvalidateKeeps DEF CacheInv
  <2>4. Changes({h, h + 1})
    BY <2>0, <2>1, IdlePending DEF CacheInv, MemShape, Cell, Changes
  <2>5. CodeCurrent'
    BY <2>2, <2>3, <2>4, EditKeepsCurrent DEF CacheInv
  <2>6. MemShape' /\ BusyShape'
    BY <2>0, <2>1 DEF CacheInv, MemShape, BusyShape
  <2> QED BY <2>3, <2>5, <2>6 DEF CacheInv
<1> QED BY <1>1, <1>2

(* Setting or clearing a breakpoint.                                          *)
LEMMA BreakpointsKeep ==
  ASSUME CacheInv, SetBreakpoint \/ UnsetBreakpoint
  PROVE  CacheInv'
<1> USE CacheAssumption
<1>1. PICK h \in Pcs :
        /\ busy = Idle /\ busy' = busy /\ mem' = mem
        /\ breakpoints' = breakpoints \cup {h} \/ breakpoints' = breakpoints \ {h}
        /\ invalidateSlowPath(InvalidatedByShort(h), tracing)
  BY DEF SetBreakpoint, UnsetBreakpoint, setBreakpoint, unsetBreakpoint
<1> DEFINE S == InvalidatedByShort(h)
<1>2. S \subseteq Pcs /\ Closed(S) /\ Catches(S, h)
  BY ShortCloses DEF CacheInv
<1>3. /\ Shape' /\ Covered'
      /\ Resets(S)
  BY <1>1, <1>2, InvalidateKeeps DEF CacheInv
<1>4. Changes({h})
  BY <1>1, IdlePending DEF Cell, Changes
<1>5. CodeCurrent'
  BY <1>2, <1>3, <1>4, EditKeepsCurrent DEF CacheInv
<1>6. MemShape' /\ BusyShape'
  BY <1>1 DEF CacheInv, MemShape, BusyShape
<1> QED BY <1>3, <1>5, <1>6 DEF CacheInv

(* The debugger's write: what it changes is pending.                          *)
LEMMA WriteKeeps ==
  ASSUME CacheInv, writeMemory
  PROVE  CacheInv'
<1> USE CacheAssumption
<1>0. PICK b \in Pcs : \E e \in (b + 1)..Size : \E new \in [b..(e - 1) -> Values] :
        /\ busy = Idle /\ busy' = ByteRange(b, e)
        /\ mem' = [i \in Pcs |-> IF i \in b..(e - 1) THEN new[i] ELSE mem[i]]
        /\ breakpoints' = breakpoints /\ opcode' = opcode /\ info' = info
  BY Zenon DEF writeMemory
<1>1. PICK e \in (b + 1)..Size : \E new \in [b..(e - 1) -> Values] :
        /\ busy = Idle /\ busy' = ByteRange(b, e)
        /\ mem' = [i \in Pcs |-> IF i \in b..(e - 1) THEN new[i] ELSE mem[i]]
        /\ breakpoints' = breakpoints /\ opcode' = opcode /\ info' = info
  BY <1>0, Zenon
<1>2. Shape' /\ Covered' /\ Resets({})
  BY <1>1 DEF CacheInv, Shape, Covered, Resets, Extent
<1>3. BusyShape'
  <2>1. b \in 0..Size /\ e \in 0..Size /\ b < e
    BY SMT DEF Pcs
  <2> QED BY <1>1, <2>1 DEF BusyShape, ByteRange
<1>4. MemShape'
  BY <1>1 DEF CacheInv, MemShape
<1>5. Changes({})
  <2>1. ASSUME NEW i \in Pcs, i \in b..(e - 1) PROVE Pending(i)'
    <3>1. b <= i /\ i < e
      BY <2>1, SMT DEF Pcs
    <3> QED BY <1>1, <3>1 DEF Pending, ByteRange
  <2>2. ASSUME NEW i \in Pcs, i \notin b..(e - 1) PROVE Cell(i)' = Cell(i)
    BY <1>1, <2>2 DEF Cell
  <2> QED BY <1>1, <2>1, <2>2, IdlePending DEF Changes
<1>6. CodeCurrent'
  BY <1>2, <1>5, EditKeepsCurrent DEF CacheInv
<1> QED BY <1>2, <1>3, <1>4, <1>6 DEF CacheInv

(* One round of invalidateRange, by bytes or by a word.                       *)
LEMMA RangeKeeps ==
  ASSUME CacheInv, RangeByte \/ RangeWord
  PROVE  CacheInv'
<1> USE CacheAssumption
<1>1. /\ busy.doing \in {"range", "reset"} /\ busy.at \in Pcs
      /\ busy.at < busy.end /\ busy.end \in 0..Size
  <2>1. busy.doing \in {"range", "reset"}
    BY DEF RangeByte, RangeWord
  <2> QED BY <2>1, SMT DEF CacheInv, BusyShape, Pcs
<1>2. mem' = mem /\ breakpoints' = breakpoints
  BY DEF RangeByte, RangeWord
<1>3. MemShape'
  BY <1>2 DEF CacheInv, MemShape
<1>4. ASSUME NEW n \in Nat, n > busy.at, busy' = RangeDone(n)
      PROVE  /\ BusyShape'
             /\ \A i \in Pcs : Pending(i) => Pending(i)' \/ (busy.at <= i /\ i < n)
  <2>1. CASE n < busy.end
    <3>1. busy' = [doing |-> busy.doing, at |-> n, end |-> busy.end]
      BY <1>4, <2>1 DEF RangeDone, CacheInv, BusyShape
    <3>2. n \in 0..Size
      BY <2>1, <1>1, <1>4, SMT
    <3>3. BusyShape'
      BY <3>1, <3>2, <2>1, <1>1 DEF BusyShape
    <3>4. ASSUME NEW i \in Pcs, Pending(i) PROVE Pending(i)' \/ (busy.at <= i /\ i < n)
      <4>1. busy.doing = "range" /\ busy.at <= i /\ i < busy.end
        BY <3>4 DEF Pending
      <4>2. n <= i \/ i < n
        BY <1>4, SMT DEF Pcs
      <4> QED BY <3>1, <4>1, <4>2 DEF Pending
    <3> QED BY <3>3, <3>4
  <2>2. CASE ~(n < busy.end)
    <3>1. busy' = Idle
      BY <1>4, <2>2 DEF RangeDone
    <3>2. BusyShape'
      BY <3>1 DEF BusyShape, Idle
    <3>3. ASSUME NEW i \in Pcs, Pending(i) PROVE busy.at <= i /\ i < n
      <4>1. busy.at <= i /\ i < busy.end
        BY <3>3 DEF Pending
      <4> QED BY <4>1, <2>2, <1>1, <1>4, SMT DEF Pcs
    <3> QED BY <3>2, <3>3
  <2> QED BY <2>1, <2>2
<1>5. CASE RangeByte
  <2> DEFINE S == InvalidatedByShort(busy.at)
  <2>1. S \subseteq Pcs /\ Closed(S) /\ Catches(S, busy.at)
    BY <1>1, ShortCloses DEF CacheInv
  <2>2. invalidateSlowPath(S, tracing) /\ busy' = RangeDone(busy.at + 1)
    BY <1>5 DEF RangeByte
  <2>3. Shape' /\ Covered' /\ Resets(S)
    BY <2>1, <2>2, InvalidateKeeps DEF CacheInv
  <2>4. busy.at + 1 \in Nat /\ busy.at + 1 > busy.at
    BY <1>1, SMT DEF Pcs
  <2>5. /\ BusyShape'
        /\ \A i \in Pcs : Pending(i) => Pending(i)' \/ (busy.at <= i /\ i < busy.at + 1)
    BY <1>4, <2>2, <2>4
  <2>6. \A i \in Pcs : busy.at <= i /\ i < busy.at + 1 => i = busy.at
    BY <1>1, SMT DEF Pcs
  <2>7. Changes({busy.at})
    BY <1>2, <2>5, <2>6 DEF Changes, Cell
  <2>8. CodeCurrent'
    BY <2>1, <2>3, <2>7, EditKeepsCurrent DEF CacheInv
  <2> QED BY <1>3, <2>3, <2>5, <2>8 DEF CacheInv
<1>6. CASE RangeWord
  <2> DEFINE S == InvalidatedByWord(busy.at)
  <2>0. busy.at + 1 \in Pcs
    BY <1>1, <1>6, SMT DEF RangeWord, Pcs
  <2>1. S \subseteq Pcs /\ Closed(S) /\ Catches(S, busy.at) /\ Catches(S, busy.at + 1)
    BY <1>1, <2>0, WordCloses DEF CacheInv
  <2>2. invalidateSlowPath(S, tracing) /\ busy' = RangeDone(busy.at + 2)
    BY <1>6 DEF RangeWord
  <2>3. Shape' /\ Covered' /\ Resets(S)
    BY <2>1, <2>2, InvalidateKeeps DEF CacheInv
  <2>4. busy.at + 2 \in Nat /\ busy.at + 2 > busy.at
    BY <1>1, SMT DEF Pcs
  <2>5. /\ BusyShape'
        /\ \A i \in Pcs : Pending(i) => Pending(i)' \/ (busy.at <= i /\ i < busy.at + 2)
    BY <1>4, <2>2, <2>4
  <2>6. \A i \in Pcs : busy.at <= i /\ i < busy.at + 2 => i \in {busy.at, busy.at + 1}
    BY <1>1, SMT DEF Pcs
  <2>7. Changes({busy.at, busy.at + 1})
    BY <1>2, <2>5, <2>6 DEF Changes, Cell
  <2>8. CodeCurrent'
    BY <2>1, <2>3, <2>7, EditKeepsCurrent DEF CacheInv
  <2> QED BY <1>3, <2>3, <2>5, <2>8 DEF CacheInv
<1> QED BY <1>5, <1>6, SMTT(20)

(* Steps that leave cache, memory and breakpoints alone and start no          *)
(* invalidation of a write: watchpoints, a new RAM base, the start of the JIT.*)
LEMMA OthersKeep ==
  ASSUME CacheInv, setWatchpoint \/ unsetWatchpoint \/ setRamBaseMultiple \/ RunJIT
  PROVE  CacheInv'
<1> USE CacheAssumption
<1>1. /\ busy = Idle /\ mem' = mem /\ breakpoints' = breakpoints
      /\ opcode' = opcode /\ info' = info
  BY DEF setWatchpoint, unsetWatchpoint, setRamBaseMultiple, RunJIT
<1>2. \/ busy' = Idle
      \/ busy' = [doing |-> "reset", at |-> 0, end |-> Size]
      \/ \E pc \in Pcs : busy' = Compiling(pc)
  BY DEF setWatchpoint, unsetWatchpoint, setRamBaseMultiple, RunJIT, resetCaches,
         CacheAssumption, Pcs
<1>3. BusyShape'
  <2>1. 0 \in 0..Size /\ Size \in 0..Size /\ 0 < Size /\ Pcs \subseteq 0..Size
    BY SMT DEF Pcs
  <2> QED BY <1>2, <2>1 DEF BusyShape, Idle, Compiling
<1>4. Shape' /\ Covered' /\ MemShape' /\ Resets({})
  BY <1>1 DEF CacheInv, Shape, Covered, MemShape, Resets, Extent
<1>5. Changes({})
  BY <1>1, IdlePending DEF Changes, Cell
<1>6. CodeCurrent'
  BY <1>4, <1>5, EditKeepsCurrent DEF CacheInv
<1> QED BY <1>3, <1>4, <1>6 DEF CacheInv

(* Installing what memory holds now keeps the cache true to memory.           *)
LEMMA InstallKeepsCurrent ==
  ASSUME CacheInv, NEW pc \in Pcs, NEW stop \in (pc + 1)..Size, NEW kind, NEW t,
         kind # "decode", setOpcode(pc, Entry(kind, t, Code(pc, stop)), stop),
         mem' = mem, breakpoints' = breakpoints, \A i \in Pcs : ~Pending(i)
  PROVE  Shape' /\ Covered' /\ MemShape' /\ CodeCurrent'
<1> DEFINE e == Entry(kind, t, Code(pc, stop))
<1>1. /\ e.kind # "decode" /\ DOMAIN e.code = pc..(stop - 1)
      /\ \A i \in pc..(stop - 1) : e.code[i] = Cell(i)
  BY DEF Entry, Code
<1>2. setOpcode(pc, e, stop)
  OBVIOUS
<1> HIDE DEF e
<1>3. /\ Shape' /\ Covered' /\ opcode'[pc] = e
      /\ \A q \in Pcs : q # pc => opcode'[q] = opcode[q]
  BY <1>1, <1>2, InstallKeeps, Zenon DEF CacheInv
<1>4. MemShape'
  BY DEF CacheInv, MemShape
<1>5. \A i : Cell(i)' = Cell(i)
  BY DEF Cell
<1>6. ASSUME NEW q \in Pcs, NEW i \in DOMAIN opcode'[q].code
      PROVE  opcode'[q].code[i] = Cell(i)'
  <2>1. CASE q = pc
    BY <2>1, <1>1, <1>3, <1>5, Zenon
  <2>2. CASE q # pc
    <3>1. opcode'[q] = opcode[q] /\ i \in Extent(q)
      BY <2>2, <1>3, Zenon DEF Extent
    <3>2. i \in Pcs
      BY <3>1, ExtentInRam DEF CacheInv
    <3> QED BY <3>1, <3>2, <1>5 DEF CacheInv, CodeCurrent, Extent
  <2> QED BY <2>1, <2>2
<1> QED BY <1>3, <1>4, <1>6 DEF CodeCurrent

(* Decoding an instruction.                                                   *)
LEMMA DecodeKeeps ==
  ASSUME CacheInv, Instruction_DECODE
  PROVE  CacheInv'
<1> USE CacheAssumption
<1>1. PICK pc \in Pcs :
        /\ busy = Idle /\ busy' = busy /\ mem' = mem /\ breakpoints' = breakpoints
        /\ setOpcode(pc, Entry("inst", opcode[pc].tracing, Code(pc, InstructionEnd(pc))),
                     InstructionEnd(pc))
  BY DEF Instruction_DECODE
<1>2. InstructionEnd(pc) \in (pc + 1)..Size
  BY SMT DEF InstructionEnd, Pcs
<1>3. \A i \in Pcs : ~Pending(i)
  BY <1>1, IdlePending
<1>4. Shape' /\ Covered' /\ MemShape' /\ CodeCurrent'
  BY <1>1, <1>2, <1>3, InstallKeepsCurrent
<1>5. BusyShape'
  BY <1>1 DEF CacheInv, BusyShape
<1> QED BY <1>4, <1>5, SMTT(20) DEF CacheInv

(* Compiling a fragment.                                                      *)
LEMMA CompileKeeps ==
  ASSUME CacheInv, compileOneFragment
  PROVE  CacheInv'
<1> USE CacheAssumption
<1>1. /\ mem' = mem /\ breakpoints' = breakpoints /\ busy.doing = "compile"
      /\ busy.at \in 0..Size
  BY DEF compileOneFragment, CacheInv, BusyShape
<1>a. PICK stop \in busy.at..Size, succ \in busy.at..Size,
          why \in {"end", "custom", "branch"} :
        IF fn[busy.at].fast # NoCode
        THEN busy' = Idle /\ opcode' = opcode /\ info' = info
        ELSE IF stop = busy.at
        THEN busy' = AfterFragment(why, succ) /\ opcode' = opcode /\ info' = info
        ELSE /\ setOpcode(busy.at, Entry("jit", FALSE, Code(busy.at, stop)), stop)
             /\ busy' = AfterFragment(why, succ)
  BY Zenon DEF compileOneFragment
<1>2. \/ busy' = Idle /\ opcode' = opcode /\ info' = info
      \/ busy' = AfterFragment(why, succ) /\ opcode' = opcode /\ info' = info
      \/ /\ stop # busy.at /\ busy' = AfterFragment(why, succ)
         /\ setOpcode(busy.at, Entry("jit", FALSE, Code(busy.at, stop)), stop)
  BY <1>a, Zenon
<1>0. busy' = Idle \/ busy' = Compiling(succ)
  BY <1>2, Zenon DEF AfterFragment
<1>3. \A i \in Pcs : ~Pending(i) /\ ~Pending(i)'
  BY <1>0, <1>1 DEF Pending, Idle, Compiling
<1>4. BusyShape'
  <2>1. succ \in 0..Size /\ 0 \in 0..Size
    BY <1>1, SMT
  <2> QED BY <1>0, <2>1 DEF BusyShape, Idle, Compiling
<1>5. CASE opcode' = opcode /\ info' = info
  <2>1. Shape' /\ Covered' /\ MemShape' /\ Resets({})
    BY <1>1, <1>5 DEF CacheInv, Shape, Covered, MemShape, Resets, Extent
  <2>2. Changes({})
    BY <1>1, <1>3 DEF Changes, Cell
  <2>3. CodeCurrent'
    BY <2>1, <2>2, EditKeepsCurrent DEF CacheInv
  <2> QED BY <1>4, <2>1, <2>3, SMTT(20) DEF CacheInv
<1>6. CASE /\ stop # busy.at
           /\ setOpcode(busy.at, Entry("jit", FALSE, Code(busy.at, stop)), stop)
  <2>1. busy.at \in Pcs /\ stop \in (busy.at + 1)..Size
    BY <1>1, <1>6, SMT DEF Pcs
  <2>2. Shape' /\ Covered' /\ MemShape' /\ CodeCurrent'
    BY <1>1, <1>3, <1>6, <2>1, InstallKeepsCurrent, Zenon
  <2> QED BY <1>4, <2>2 DEF CacheInv
<1> QED BY <1>2, <1>5, <1>6, Zenon

(* The initial cache holds nothing.                                           *)
LEMMA CacheStarts ==
  ASSUME CacheInit
  PROVE  CacheInv
<1> USE CacheAssumption
<1>1. \A pc \in Pcs : opcode[pc].kind = "decode" /\ Extent(pc) = {}
  BY DEF CacheInit, NotDecoded, Entry, NoCode, Extent
<1>2. 0 \in Pcs
  BY SMT DEF Pcs
<1>3. Shape
  BY <1>1, Zenon DEF CacheInit, Shape
<1>4. BusyShape
  BY SMT DEF CacheInit, BusyShape, Idle
<1>5. MemShape
  BY DEF CacheInit, MemShape, CacheAssumption, Pcs
<1>6. Covered
  BY <1>1, <1>2, Zenon DEF CacheInit, Covered, NONE, BOTH
<1>7. CodeCurrent
  BY <1>1 DEF CodeCurrent, Extent
<1> QED BY <1>3, <1>4, <1>5, <1>6, <1>7 DEF CacheInv

(* Every step of the simulator, the debugger and the JIT keeps the decode     *)
(* cache true to memory and the invalidation table covering it.               *)
THEOREM CacheInvariant == CacheSpec => []CacheInv
<1>1. CacheInit => CacheInv
  BY CacheStarts, SMTT(20)
<1>2. CacheInv /\ [CacheNext]_cacheVars => CacheInv'
  <2> SUFFICES ASSUME CacheInv, [CacheNext]_cacheVars PROVE CacheInv'
    OBVIOUS
  <2>1. CASE StoreShort \/ StoreWord
    BY <2>1, StoresKeep
  <2>2. CASE writeMemory
    BY <2>2, WriteKeeps
  <2>3. CASE RangeByte \/ RangeWord
    BY <2>3, RangeKeeps, SMTT(20)
  <2>4. CASE SetBreakpoint \/ UnsetBreakpoint
    BY <2>4, BreakpointsKeep, SMTT(20)
  <2>5. CASE setWatchpoint \/ unsetWatchpoint \/ setRamBaseMultiple \/ RunJIT
    BY <2>5, OthersKeep, SMTT(20)
  <2>6. CASE Instruction_DECODE
    BY <2>6, DecodeKeeps, SMTT(20)
  <2>7. CASE compileOneFragment
    BY <2>7, CompileKeeps, SMTT(20)
  <2>8. CASE UNCHANGED cacheVars
    BY <2>8 DEF cacheVars, CacheInv, Shape, BusyShape, MemShape, Covered, CodeCurrent,
                Extent, Cell, Pending
  <2> QED BY <2>1, <2>2, <2>3, <2>4, <2>5, <2>6, <2>7, <2>8 DEF CacheNext
<1> QED BY <1>1, <1>2, PTL DEF CacheSpec

(* CodeCurrent, for every RAM size, program, and number of edits.             *)
THEOREM CodeAlwaysCurrent == CacheSpec => []CodeCurrent
<1>1. CacheInv => CodeCurrent
  BY DEF CacheInv
<1> QED BY <1>1, CacheInvariant, PTL

(* Covered, for every RAM size, program, and number of edits.                 *)
THEOREM AlwaysCovered == CacheSpec => []Covered
<1>1. CacheInv => Covered
  BY DEF CacheInv
<1> QED BY <1>1, CacheInvariant, PTL
=============================================================================
