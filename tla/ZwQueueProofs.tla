--------------------------- MODULE ZwQueueProofs ---------------------------
(***************************************************************************)
(* Theorems about the two components that queue what is to be sent to the  *)
(* nodes: the poll facility, and the command queues of a node.  They share *)
(* no state; the first half is about ZwPoll, the second about ZwExec.      *)
(***************************************************************************)
EXTENDS ZwPoll, ZwExec, TLAPS, SequenceTheorems, FiniteSetTheorems, WellFoundedInduction

-----------------------------------------------------------------------------
(***************************************************************************)
(* The poll facility.  The inductive invariant adds to the type invariant  *)
(* that no entry has a handle that is still to come: then a new handle     *)
(* differs from all in the queue.  That the queue does not change but for  *)
(* the times left, while poll_mtx is kept, needs no invariant: every step  *)
(* that changes it needs the mutex free.                                   *)
(***************************************************************************)

HandlesPast == \A i \in Positions : poll_lst[i].handle <= handle_gen

PollInv == PollTypeOK /\ QueueSorted /\ HandlesUnique /\ HandlesPast /\ EntryInUse

---------------------------------------------------------------------------
(* Lemmas about sequences and positions.                                   *)

\* Inserting at a position moves the rest by one.
LEMMA InsertAtProperties ==
  ASSUME NEW S, NEW s \in Seq(S), NEW k \in 1 .. Len(s) + 1, NEW e \in S
  PROVE  /\ InsertAt(s, k, e) \in Seq(S)
         /\ Len(InsertAt(s, k, e)) = Len(s) + 1
         /\ \A j \in 1 .. Len(s) + 1 :
              InsertAt(s, k, e)[j] = IF j < k THEN s[j] ELSE IF j = k THEN e ELSE s[j - 1]
<1> DEFINE a == SubSeq(s, 1, k - 1)
           b == SubSeq(s, k, Len(s))
<1>1. Len(s) \in Nat /\ \A i \in 1 .. Len(s) : s[i] \in S
  BY ElementOfSeq, LenProperties
<1>2. a \in Seq(S) /\ Len(a) = k - 1 /\ \A i \in 1 .. k - 1 : a[i] = s[i]
  <2>1. \A i \in 1 .. k - 1 : s[i] \in S
    BY <1>1
  <2> QED
    BY <1>1, <2>1, SubSeqProperties
<1>3. b \in Seq(S) /\ Len(b) = Len(s) - k + 1 /\ \A i \in 1 .. Len(s) - k + 1 : b[i] = s[k + i - 1]
  <2>1. \A i \in k .. Len(s) : s[i] \in S
    BY <1>1
  <2> QED
    BY <1>1, <2>1, SubSeqProperties
<1>4. <<e>> \in Seq(S) /\ Len(<<e>>) = 1 /\ <<e>>[1] = e
  OBVIOUS
<1> DEFINE c == a \o <<e>>
<1>5. c \in Seq(S) /\ Len(c) = k /\ \A i \in 1 .. k : c[i] = IF i < k THEN s[i] ELSE e
  <2> HIDE DEF a
  <2>1. c \in Seq(S) /\ Len(c) = Len(a) + 1
        /\ \A i \in 1 .. Len(a) + 1 : c[i] = IF i <= Len(a) THEN a[i] ELSE <<e>>[i - Len(a)]
    BY <1>2, <1>4, ConcatProperties
  <2> QED
    BY <1>1, <1>2, <1>4, <2>1
<1> HIDE DEF b, c
<1> DEFINE d == c \o b
<1>6. d \in Seq(S) /\ Len(d) = Len(c) + Len(b)
      /\ \A i \in 1 .. Len(c) + Len(b) : d[i] = IF i <= Len(c) THEN c[i] ELSE b[i - Len(c)]
  BY <1>3, <1>5, ConcatProperties
<1>7. InsertAt(s, k, e) = d
  BY DEF InsertAt, a, b, c, d
<1> HIDE DEF d
<1>8. ASSUME NEW j \in 1 .. Len(s) + 1
      PROVE  d[j] = IF j < k THEN s[j] ELSE IF j = k THEN e ELSE s[j - 1]
  <2>1. CASE j <= k
    BY <1>1, <1>3, <1>5, <1>6, <2>1
  <2>2. CASE j > k
    <3>1. j - k \in 1 .. Len(s) - k + 1 /\ k + (j - k) - 1 = j - 1
      BY <1>1, <2>2
    <3> QED
      BY <1>1, <1>3, <1>5, <1>6, <2>2, <3>1
  <2> QED
    BY <1>1, <2>1, <2>2
<1> QED
  BY <1>1, <1>3, <1>5, <1>6, <1>7, <1>8

\* Removing a position moves the rest by one.
LEMMA RemoveAtProperties ==
  ASSUME NEW S, NEW s \in Seq(S), NEW k \in 1 .. Len(s)
  PROVE  /\ RemoveAt(s, k) \in Seq(S)
         /\ Len(RemoveAt(s, k)) = Len(s) - 1
         /\ \A j \in 1 .. Len(s) - 1 :
              RemoveAt(s, k)[j] = IF j < k THEN s[j] ELSE s[j + 1]
<1> DEFINE a == SubSeq(s, 1, k - 1)
           b == SubSeq(s, k + 1, Len(s))
<1>1. Len(s) \in Nat /\ \A i \in 1 .. Len(s) : s[i] \in S
  BY ElementOfSeq, LenProperties
<1>2. a \in Seq(S) /\ Len(a) = k - 1 /\ \A i \in 1 .. k - 1 : a[i] = s[i]
  <2>1. \A i \in 1 .. k - 1 : s[i] \in S
    BY <1>1
  <2> QED
    BY <1>1, <2>1, SubSeqProperties
<1>3. b \in Seq(S) /\ Len(b) = Len(s) - k /\ \A i \in 1 .. Len(s) - k : b[i] = s[k + i]
  <2>1. \A i \in k + 1 .. Len(s) : s[i] \in S
    BY <1>1
  <2>2. b \in Seq(S) /\ Len(b) = (IF k + 1 <= Len(s) THEN Len(s) - (k + 1) + 1 ELSE 0)
        /\ \A i \in 1 .. Len(s) - (k + 1) + 1 : b[i] = s[(k + 1) + i - 1]
    <3>1. k + 1 \in Int /\ Len(s) \in Int
      BY <1>1
    <3> QED
      BY <2>1, <3>1, SubSeqProperties
  <2> QED
    BY <1>1, <2>2
<1> HIDE DEF a, b
<1> DEFINE d == a \o b
<1>4. d \in Seq(S) /\ Len(d) = Len(a) + Len(b)
      /\ \A i \in 1 .. Len(a) + Len(b) : d[i] = IF i <= Len(a) THEN a[i] ELSE b[i - Len(a)]
  BY <1>2, <1>3, ConcatProperties
<1>5. RemoveAt(s, k) = d
  BY DEF RemoveAt, a, b, d
<1> HIDE DEF d
<1>6. ASSUME NEW j \in 1 .. Len(s) - 1
      PROVE  d[j] = IF j < k THEN s[j] ELSE s[j + 1]
  <2>1. CASE j < k
    <3>1. j \in 1 .. k - 1 /\ j \in 1 .. Len(a) + Len(b) /\ j <= Len(a)
      BY <1>1, <1>2, <1>3, <2>1
    <3> QED
      BY <1>2, <1>4, <2>1, <3>1
  <2>2. CASE j >= k
    <3>1. /\ j - (k - 1) \in 1 .. Len(s) - k /\ k + (j - (k - 1)) = j + 1
          /\ j \in 1 .. Len(a) + Len(b) /\ ~ (j <= Len(a)) /\ Len(a) = k - 1
      BY <1>1, <1>2, <1>3, <2>2
    <3>2. d[j] = b[j - (k - 1)] /\ b[j - (k - 1)] = s[k + (j - (k - 1))]
      BY <1>3, <1>4, <3>1
    <3> QED
      BY <1>1, <2>2, <3>1, <3>2
  <2> QED
    BY <1>1, <2>1, <2>2
<1>7. Len(d) = Len(s) - 1
  BY <1>1, <1>2, <1>3, <1>4
<1> QED
  BY <1>4, <1>5, <1>6, <1>7

\* A set of natural numbers has a least member.
LEMMA LeastNat ==
  ASSUME NEW S \in SUBSET Nat, S # {}
  PROVE  \E i \in S : \A j \in S : i <= j
<1>1. PICK i \in S : \A j \in S : ~ (<<j, i>> \in OpToRel(<, Nat))
  BY NatLessThanWellFounded, WFMin
<1>2. ASSUME NEW j \in S
      PROVE  i <= j
  <2>1. <<j, i>> \in Nat \X Nat /\ <<j, i>>[1] = j /\ <<j, i>>[2] = i
    OBVIOUS
  <2>2. ~ (j < i)
    BY <1>1, <2>1, Zenon DEF OpToRel
  <2> QED
    BY <2>2
<1> QED
  BY <1>2

\* First(S) is the least member of S, or the position after the last.
LEMMA FirstProperties ==
  ASSUME PollTypeOK, NEW S \in SUBSET Positions
  PROVE  /\ First(S) \in 1 .. Len(poll_lst) + 1
         /\ S # {} => First(S) \in S
         /\ \A j \in S : First(S) <= j
<1>1. Len(poll_lst) \in Nat
  BY LenProperties DEF PollTypeOK
<1>2. \E i \in S \cup {Len(poll_lst) + 1} : \A j \in S : i <= j
  <2>1. CASE S = {}
    BY <2>1
  <2>2. CASE S # {}
    <3>1. S \subseteq Nat
      BY <1>1 DEF Positions
    <3> QED
      BY <2>2, <3>1, LeastNat
  <2> QED
    BY <2>1, <2>2
<1>3. First(S) \in S \cup {Len(poll_lst) + 1} /\ \A j \in S : First(S) <= j
  BY <1>2 DEF First
<1>4. S \subseteq 1 .. Len(poll_lst)
  BY DEF Positions
<1>5. ASSUME S # {}
      PROVE  First(S) \in S
  <2>1. PICK j \in S : TRUE
    BY <1>5
  <2>2. First(S) <= j /\ j \in 1 .. Len(poll_lst)
    BY <1>3, <1>4, <2>1
  <2>3. First(S) # Len(poll_lst) + 1
    BY <1>1, <2>2
  <2> QED
    BY <1>3, <2>3
<1>6. First(S) \in 1 .. Len(poll_lst) + 1
  <2>1. Len(poll_lst) + 1 \in 1 .. Len(poll_lst) + 1
        /\ \A i \in 1 .. Len(poll_lst) : i \in 1 .. Len(poll_lst) + 1
    BY <1>1
  <2> QED
    BY <1>3, <1>4, <2>1
<1> QED
  BY <1>3, <1>5, <1>6

\* The entries that stay keep their order.
LEMMA InOrderProperties ==
  ASSUME PollTypeOK, NEW K \in SUBSET Positions, NEW f \in InOrder(K)
  PROVE  /\ DOMAIN f = 1 .. Cardinality(K) /\ Cardinality(K) \in Nat
         /\ \A i \in 1 .. Cardinality(K) : f[i] \in Positions
         /\ \A i, j \in 1 .. Cardinality(K) : i < j => f[i] < f[j]
<1>1. Len(poll_lst) \in Nat
  BY LenProperties DEF PollTypeOK
<1>2. IsFiniteSet(K)
  <2>1. IsFiniteSet(1 .. Len(poll_lst))
    BY <1>1, FS_Interval
  <2> QED
    BY <2>1, FS_Subset DEF Positions
<1> QED
  BY <1>2, FS_CardinalityType DEF InOrder

LEMMA EntryTypes ==
  ASSUME PollTypeOK
  PROVE  /\ Len(poll_lst) \in Nat
         /\ \A i \in Positions :
              /\ poll_lst[i] \in Entries
              /\ poll_lst[i].req \in Requests /\ NodeAt(i) \in Nodes /\ NodeAt(i) \in Nat
              /\ poll_lst[i].handle \in Handles
<1>1. Len(poll_lst) \in Nat /\ \A i \in Positions : poll_lst[i] \in Entries
  BY LenProperties, ElementOfSeq DEF PollTypeOK, Positions
<1>2. ASSUME NEW i \in Positions
      PROVE  /\ poll_lst[i].req \in Requests /\ NodeAt(i) \in Nodes /\ NodeAt(i) \in Nat
             /\ poll_lst[i].handle \in Handles
  BY <1>1, PollAssumption DEF Entries, NodeAt, Nodes
<1> QED
  BY <1>1, <1>2

\* A queue made of entries of the old one, in their order, has its properties.
LEMMA SubQueue ==
  ASSUME PollInv, UNCHANGED handle_gen, Len(poll_lst') \in Nat,
         NEW g, \A i \in Positions' : /\ g[i] \in Positions
                                      /\ poll_lst'[i].req = poll_lst[g[i]].req
                                      /\ poll_lst'[i].handle = poll_lst[g[i]].handle,
         \A i, j \in Positions' : i < j => g[i] < g[j]
  PROVE  QueueSorted' /\ HandlesUnique' /\ HandlesPast'
<1>1. QueueSorted'
  BY DEF PollInv, QueueSorted, NodeAt
<1>2. ASSUME NEW i \in Positions', NEW j \in Positions', poll_lst'[i].handle = poll_lst'[j].handle
      PROVE  i = j
  <2>1. g[i] = g[j]
    BY <1>2 DEF PollInv, HandlesUnique
  <2>2. g[i] \in Int /\ i \in Int /\ j \in Int
    BY DEF Positions
  <2> QED
    BY <2>1, <2>2
<1>3. HandlesPast'
  BY DEF PollInv, HandlesPast
<1> QED
  BY <1>1, <1>2, <1>3 DEF HandlesUnique

\* A queue of which nothing but the times and counts changes.
LEMMA SameQueue ==
  ASSUME PollInv, UNCHANGED handle_gen, Len(poll_lst') = Len(poll_lst),
         \A i \in Positions : /\ poll_lst'[i].req = poll_lst[i].req
                              /\ poll_lst'[i].handle = poll_lst[i].handle
  PROVE  QueueSorted' /\ HandlesUnique' /\ HandlesPast'
<1> DEFINE g == [i \in Positions |-> i]
<1>1. Len(poll_lst) \in Nat /\ Positions' = Positions
  BY EntryTypes DEF PollInv, Positions
<1>2. \A i \in Positions : g[i] = i
  OBVIOUS
<1> HIDE DEF g
<1> QED
  BY <1>1, <1>2, SubQueue

\* The queue without one of its entries.
LEMMA RemoveInv ==
  ASSUME PollInv, NEW k \in Positions, poll_lst' = RemoveAt(poll_lst, k), UNCHANGED handle_gen
  PROVE  poll_lst' \in Seq(Entries) /\ QueueSorted' /\ HandlesUnique' /\ HandlesPast'
<1> DEFINE g == [i \in Nat |-> IF i < k THEN i ELSE i + 1]
<1>1. Len(poll_lst) \in Nat /\ k \in 1 .. Len(poll_lst) /\ poll_lst \in Seq(Entries)
  BY EntryTypes DEF PollInv, PollTypeOK, Positions
<1>2. /\ poll_lst' \in Seq(Entries) /\ Len(poll_lst') = Len(poll_lst) - 1
      /\ \A j \in 1 .. Len(poll_lst) - 1 :
           poll_lst'[j] = IF j < k THEN poll_lst[j] ELSE poll_lst[j + 1]
  BY <1>1, RemoveAtProperties
<1>3. Positions' = 1 .. Len(poll_lst) - 1
  BY <1>2 DEF Positions
<1>4. ASSUME NEW i \in Positions'
      PROVE  g[i] \in Positions /\ poll_lst'[i] = poll_lst[g[i]]
  <2>1. i \in Nat /\ i \in 1 .. Len(poll_lst) - 1
    BY <1>1, <1>3
  <2>2. CASE i < k
    BY <1>1, <1>2, <2>1, <2>2 DEF Positions
  <2>3. CASE ~ (i < k)
    <3>1. g[i] = i + 1 /\ i + 1 \in 1 .. Len(poll_lst)
      BY <1>1, <2>1, <2>3
    <3> QED
      BY <1>2, <2>1, <2>3, <3>1 DEF Positions
  <2> QED
    BY <2>2, <2>3
<1>5. ASSUME NEW i \in Positions', NEW j \in Positions', i < j
      PROVE  g[i] < g[j]
  <2>1. i \in Nat /\ j \in Nat /\ k \in Nat
    BY <1>1, <1>3
  <2>2. /\ g[i] = IF i < k THEN i ELSE i + 1
        /\ g[j] = IF j < k THEN j ELSE j + 1
    BY <2>1
  <2> HIDE DEF g
  <2> QED
    BY <1>5, <2>1, <2>2
<1> HIDE DEF g
<1>6. Len(poll_lst') \in Nat
  BY <1>2, LenProperties
<1> QED
  BY <1>2, <1>4, <1>5, <1>6, SubQueue

\* The queue without several of its entries.
LEMMA KeepInv ==
  ASSUME PollInv, NEW K \in SUBSET Positions, Keep(K), UNCHANGED handle_gen
  PROVE  poll_lst' \in Seq(Entries) /\ QueueSorted' /\ HandlesUnique' /\ HandlesPast'
<1>1. PICK f \in InOrder(K) : poll_lst' = [i \in DOMAIN f |-> poll_lst[f[i]]]
  BY DEF Keep
<1> DEFINE size == Cardinality(K)
<1>2. /\ DOMAIN f = 1 .. size /\ size \in Nat
      /\ \A i \in 1 .. size : f[i] \in Positions
      /\ \A i, j \in 1 .. size : i < j => f[i] < f[j]
  BY InOrderProperties DEF PollInv
<1> HIDE DEF size
<1>3. \A i \in 1 .. size : poll_lst[f[i]] \in Entries
  BY <1>2, EntryTypes DEF PollInv
<1>4. poll_lst' = [i \in 1 .. size |-> poll_lst[f[i]]]
  BY <1>1, <1>2
<1>5. poll_lst' \in Seq(Entries) /\ Len(poll_lst') = size
  BY <1>2, <1>3, <1>4
<1>6. Positions' = 1 .. size /\ \A i \in 1 .. size : poll_lst'[i] = poll_lst[f[i]]
  BY <1>4, <1>5 DEF Positions
<1> QED
  BY <1>2, <1>5, <1>6, SubQueue

\* The queue with a new entry, whose handle is the next one.
LEMMA InsertInv ==
  ASSUME PollInv, NEW e \in Entries, e.handle = handle_gen + 1, handle_gen' = handle_gen + 1,
         poll_lst' = InsertAt(poll_lst, InsertPos(e.req.node_id), e)
  PROVE  poll_lst' \in Seq(Entries) /\ QueueSorted' /\ HandlesUnique' /\ HandlesPast'
<1> DEFINE node_id == e.req.node_id
           k == InsertPos(node_id)
           L == Len(poll_lst)
<1>1. L \in Nat /\ poll_lst \in Seq(Entries) /\ handle_gen \in Nat
  BY EntryTypes DEF PollInv, PollTypeOK
<1>2. \A i \in 1 .. L : NodeAt(i) \in Nat /\ poll_lst[i].handle <= handle_gen
                        /\ poll_lst[i].handle \in Nat
  BY EntryTypes DEF PollInv, HandlesPast, Positions, Handles
<1>3. node_id \in Nat
  BY PollAssumption DEF Entries
<1>4. /\ k \in 1 .. L + 1
      /\ \A i \in 1 .. L : i < k => NodeAt(i) <= node_id
      /\ \A i \in 1 .. L : i >= k => NodeAt(i) >= node_id
  <2> DEFINE higher == {i \in Positions : NodeAt(i) > node_id}
  <2>1. k = First(higher)
    BY DEF InsertPos
  <2>2. /\ k \in 1 .. L + 1
        /\ higher # {} => k \in higher
        /\ \A i \in higher : k <= i
    BY <2>1, FirstProperties DEF PollInv
  <2>3. ASSUME NEW i \in 1 .. L, i < k
        PROVE  NodeAt(i) <= node_id
    <3>1. i \notin higher
      BY <1>1, <2>2, <2>3
    <3> QED
      BY <1>2, <1>3, <3>1 DEF Positions
  <2>4. ASSUME NEW i \in 1 .. L, i >= k
        PROVE  NodeAt(i) >= node_id
    <3>1. k \in 1 .. L
      BY <1>1, <2>2, <2>4
    <3>2. k \in higher
      <4>1. CASE higher = {}
        <5>1. k = L + 1
          BY <2>1, <4>1 DEF First
        <5> QED
          BY <1>1, <3>1, <5>1
      <4> QED
        BY <2>2, <4>1
    <3>3. NodeAt(k) > node_id /\ NodeAt(k) <= NodeAt(i) /\ NodeAt(k) \in Nat /\ NodeAt(i) \in Nat
      BY <1>1, <1>2, <2>4, <3>1, <3>2 DEF PollInv, QueueSorted, Positions
    <3> QED
      BY <1>3, <3>3
  <2> QED
    BY <2>2, <2>3, <2>4
<1> HIDE DEF k, node_id
<1>5. /\ poll_lst' \in Seq(Entries) /\ Len(poll_lst') = L + 1
      /\ \A j \in 1 .. L + 1 : poll_lst'[j] = IF j < k THEN poll_lst[j]
                                            ELSE IF j = k THEN e ELSE poll_lst[j - 1]
  BY <1>1, <1>4, InsertAtProperties DEF k, node_id
<1> HIDE DEF L
<1>6. Positions' = 1 .. L + 1 /\ Positions = 1 .. L
  BY <1>5 DEF Positions, L
<1>7. ASSUME NEW j \in 1 .. L + 1
      PROVE  \/ j < k /\ j \in 1 .. L /\ poll_lst'[j] = poll_lst[j]
             \/ j = k /\ poll_lst'[j] = e
             \/ j > k /\ j - 1 \in 1 .. L /\ j - 1 >= k /\ poll_lst'[j] = poll_lst[j - 1]
  <2>1. j \in Nat /\ k \in Nat
    BY <1>1, <1>4
  <2>2. /\ j < k => j \in 1 .. L
        /\ j > k => j - 1 \in 1 .. L /\ j - 1 >= k /\ ~ (j < k) /\ j # k
        /\ j < k \/ j = k \/ j > k
    BY <1>1, <1>4, <2>1
  <2> QED
    BY <1>5, <2>1, <2>2
<1>8. ASSUME NEW i \in 1 .. L + 1, NEW j \in 1 .. L + 1, i < j
      PROVE  poll_lst'[i].req.node_id <= poll_lst'[j].req.node_id
  <2>1. \A x, y \in 1 .. L : x < y => NodeAt(x) <= NodeAt(y)
    BY <1>6 DEF PollInv, QueueSorted
  <2>2. \A x \in 1 .. L : NodeAt(x) = poll_lst[x].req.node_id
    BY DEF NodeAt
  <2>3. i \in Nat /\ j \in Nat /\ k \in Nat
    BY <1>1, <1>4
  <2>4. CASE i < k
    <3>1. i \in 1 .. L /\ poll_lst'[i] = poll_lst[i] /\ NodeAt(i) <= node_id
      BY <1>4, <1>7, <2>3, <2>4
    <3>2. CASE j < k
      BY <1>7, <1>8, <2>1, <2>2, <2>3, <3>1, <3>2
    <3>3. CASE j = k
      BY <1>7, <2>2, <2>3, <3>1, <3>3 DEF node_id
    <3>4. CASE j > k
      <4>1. j - 1 \in 1 .. L /\ poll_lst'[j] = poll_lst[j - 1] /\ NodeAt(j - 1) >= node_id
        BY <1>4, <1>7, <2>3, <3>4
      <4> QED
        BY <1>2, <1>3, <2>2, <3>1, <4>1
    <3> QED
      BY <2>3, <3>2, <3>3, <3>4
  <2>5. CASE i = k
    <3>1. poll_lst'[i].req.node_id = node_id
      BY <1>7, <2>3, <2>5 DEF node_id
    <3>2. j - 1 \in 1 .. L /\ poll_lst'[j] = poll_lst[j - 1] /\ NodeAt(j - 1) >= node_id
      BY <1>4, <1>7, <1>8, <2>3, <2>5
    <3> QED
      BY <1>2, <1>3, <2>2, <3>1, <3>2
  <2>6. CASE i > k
    <3>1. /\ i - 1 \in 1 .. L /\ poll_lst'[i] = poll_lst[i - 1]
          /\ j - 1 \in 1 .. L /\ poll_lst'[j] = poll_lst[j - 1] /\ i - 1 < j - 1
      BY <1>7, <1>8, <2>3, <2>6
    <3> QED
      BY <2>1, <2>2, <3>1
  <2> QED
    BY <2>3, <2>4, <2>5, <2>6
<1>9. ASSUME NEW i \in 1 .. L + 1, NEW j \in 1 .. L + 1, poll_lst'[i].handle = poll_lst'[j].handle
      PROVE  i = j
  <2>1. \A x, y \in 1 .. L : poll_lst[x].handle = poll_lst[y].handle => x = y
    BY <1>6 DEF PollInv, HandlesUnique
  <2>2. \A x \in 1 .. L : poll_lst[x].handle # e.handle
    BY <1>1, <1>2
  <2>3. i \in Nat /\ j \in Nat /\ k \in Nat
    BY <1>1, <1>4
  <2>4. CASE i = k
    BY <1>7, <1>9, <2>2, <2>3, <2>4
  <2>5. CASE j = k
    BY <1>7, <1>9, <2>2, <2>3, <2>5
  <2>6. CASE i # k /\ j # k
    <3>1. \/ i < k /\ i \in 1 .. L /\ poll_lst'[i] = poll_lst[i]
          \/ i > k /\ i - 1 \in 1 .. L /\ i - 1 >= k /\ poll_lst'[i] = poll_lst[i - 1]
      BY <1>7, <2>6
    <3>2. \/ j < k /\ j \in 1 .. L /\ poll_lst'[j] = poll_lst[j]
          \/ j > k /\ j - 1 \in 1 .. L /\ j - 1 >= k /\ poll_lst'[j] = poll_lst[j - 1]
      BY <1>7, <2>6
    <3> QED
      BY <1>9, <2>1, <2>3, <3>1, <3>2
  <2> QED
    BY <2>4, <2>5, <2>6
<1>10. ASSUME NEW j \in 1 .. L + 1
       PROVE  poll_lst'[j].handle <= handle_gen'
  BY <1>1, <1>2, <1>7
<1>11. QueueSorted'
  BY <1>6, <1>8 DEF QueueSorted, NodeAt
<1>12. HandlesUnique' /\ HandlesPast'
  BY <1>6, <1>9, <1>10 DEF HandlesUnique, HandlesPast
<1> QED
  BY <1>5, <1>11, <1>12

---------------------------------------------------------------------------
(* Initial states and steps.                                               *)

LEMMA PollInitInv == PollInit => PollInv
<1> SUFFICES ASSUME PollInit PROVE PollInv
  OBVIOUS
<1>1. poll_lst \in Seq(Entries) /\ Positions = {}
  BY DEF PollInit, Positions
<1>2. MIN_POLL_TIME \in Nat /\ MaxSem \in Nat /\ HANDLE_MAX \in Nat /\ MaxCmdTm \in Nat
      /\ MaxTx \in Nat
  BY PollAssumption
<1>3. PollTypeOK
  <2>1. cur_node_last \in BOOLEAN
    BY Zenon DEF PollInit
  <2> QED
    BY <1>1, <1>2, <2>1 DEF PollInit, PollTypeOK
<1> QED
  BY <1>1, <1>3 DEF PollInit, PollInv, QueueSorted, HandlesUnique, HandlesPast, EntryInUse

\* What the check thread sends is in the queue.
LEMMA FirstDueProperties ==
  ASSUME PollTypeOK, FirstDue # 0
  PROVE  FirstDue \in Positions
<1> DEFINE s == StartPos
           due == {k \in Visited(s) : Expired(Around(s, k))}
           k == CHOOSE k \in due : \A j \in due : k <= j
<1>1. Len(poll_lst) \in Nat
  BY EntryTypes
<1>2. due # {} /\ FirstDue = Around(s, k)
  BY DEF FirstDue
<1>3. due \subseteq 0 .. Len(poll_lst) - 1
  BY DEF Visited
<1>4. Len(poll_lst) \in Nat \ {0} /\ 0 \in Int
  BY <1>1, <1>2, <1>3
<1>5. s \in Int
  <2> DEFINE higher == {i \in Positions : NodeAt(i) > cur_node_id}
             cur == {i \in Positions : NodeAt(i) = cur_node_id /\ poll_lst[i].handle = cur_handle}
             after == IF cur = {} THEN First(higher) ELSE First(cur) + 1
             begin == IF cur_node_last THEN First(higher) ELSE after
  <2>1. s = IF begin \in Positions THEN begin ELSE 1
    BY DEF StartPos
  <2> HIDE DEF begin
  <2> QED
    BY <2>1 DEF Positions
<1>6. k \in Int
  <2>1. \E m \in due : \A j \in due : m <= j
    <3>1. due \subseteq Nat
      BY <1>1, <1>3
    <3> QED
      BY <1>2, <3>1, LeastNat
  <2>2. k \in due
    BY <2>1
  <2> QED
    BY <1>1, <1>3, <2>2
<1> HIDE DEF s, k
<1>7. (s + k - 1) % Len(poll_lst) \in 0 .. Len(poll_lst) - 1
  BY <1>4, <1>5, <1>6
<1> QED
  BY <1>2, <1>4, <1>7 DEF Around, Positions

LEMMA BeginSendInv ==
  ASSUME PollInv, NEW by \in {"chk", "rpt"}, NEW i \in Positions, BeginSend(by, i),
         UNCHANGED <<poll_lst, handle_gen, cur_cmd_tm, nw_mtx, rm_q, tx_pend>>,
         next_left' \in Nat, tmr_sem' \in 0 .. MaxSem, cur_rpt' \in Rpts \cup {NoRpt}
  PROVE  PollInv'
<1>1. /\ NodeAt(i) \in Nodes /\ poll_lst[i].handle \in Handles
      /\ i \in 1 .. Len(poll_lst) /\ Len(poll_lst) \in Nat
  BY EntryTypes DEF PollInv, Positions
<1>2. /\ poll_mtx' = by /\ snd_pos' = i /\ cur_node_id' = NodeAt(i)
      /\ cur_handle' = poll_lst[i].handle /\ cur_node_last' = FALSE
  BY DEF BeginSend
<1>3. PollTypeOK'
  <2>1. HANDLE_MAX \in Nat
    BY PollAssumption
  <2>2. cur_handle' \in 0 .. HANDLE_MAX
    BY <1>1, <1>2, <2>1 DEF Handles
  <2>3. cur_node_last' \in BOOLEAN
    BY <1>2
  <2>4. snd_pos' \in Nat
    BY <1>1, <1>2
  <2> QED
    BY <1>1, <1>2, <2>2, <2>3, <2>4 DEF PollInv, PollTypeOK
<1>4. QueueSorted' /\ HandlesUnique' /\ HandlesPast'
  BY DEF PollInv, QueueSorted, HandlesUnique, HandlesPast, Positions, NodeAt
<1>5. EntryInUse'
  BY <1>1, <1>2 DEF EntryInUse, Positions
<1> QED
  BY <1>3, <1>4, <1>5 DEF PollInv

LEMMA ChkThrdInv == ASSUME PollInv, ChkThrd PROVE PollInv'
<1>1. tmr_sem' \in 0 .. MaxSem /\ poll_mtx = "free"
  BY PollAssumption DEF ChkThrd, PollMtxFree, PollInv, PollTypeOK
<1>2. UNCHANGED <<poll_lst, handle_gen, cur_rpt, cur_cmd_tm, nw_mtx, rm_q, tx_pend>>
  BY DEF ChkThrd
<1>3. ASSUME next_left' \in Nat,
             UNCHANGED <<cur_node_id, cur_handle, cur_node_last, poll_mtx, snd_pos>>
      PROVE  PollInv'
  BY <1>1, <1>2, <1>3 DEF PollInv, PollTypeOK, QueueSorted, HandlesUnique, HandlesPast, EntryInUse,
     Positions, NodeAt
<1>4. ASSUME FirstDue # 0, BeginSend("chk", FirstDue), UNCHANGED next_left
      PROVE  PollInv'
  <2>1. FirstDue \in Positions
    BY <1>4, FirstDueProperties DEF PollInv
  <2>2. next_left' \in Nat /\ cur_rpt' \in Rpts \cup {NoRpt}
    BY <1>2, <1>4 DEF PollInv, PollTypeOK
  <2> QED
    BY <1>1, <1>2, <1>4, <2>1, <2>2, BeginSendInv
<1>5. next_left \in Nat /\ MIN_POLL_TIME \in Nat /\ CHECK_EXPIRY_INTERVAL \in Nat
  BY PollAssumption DEF PollInv, PollTypeOK
<1> QED
  BY <1>3, <1>4, <1>5 DEF ChkThrd

LEMMA RptChkInv == ASSUME PollInv, RptChk PROVE PollInv'
<1>1. /\ next_left' \in Nat /\ tmr_sem' \in 0 .. MaxSem /\ cur_rpt' \in Rpts \cup {NoRpt}
      /\ UNCHANGED <<poll_lst, tmr_sem, handle_gen, cur_cmd_tm, nw_mtx, rm_q, tx_pend>>
      /\ poll_mtx = "free"
  BY PollAssumption DEF RptChk, PollMtxFree, PollInv, PollTypeOK
<1>2. CASE DueOfNode # {}
  <2>1. First(DueOfNode) \in Positions
    <3>1. DueOfNode \in SUBSET Positions
      BY DEF DueOfNode
    <3> QED
      BY <1>2, <3>1, FirstProperties DEF PollInv
  <2> QED
    BY <1>1, <1>2, <2>1, BeginSendInv DEF RptChk
<1>3. CASE ~ (DueOfNode # {})
  <2>1. /\ cur_node_last' \in BOOLEAN
        /\ UNCHANGED <<cur_node_id, cur_handle, poll_mtx, snd_pos>>
    BY <1>3, Zenon DEF RptChk, PollInv, PollTypeOK
  <2> QED
    BY <1>1, <2>1 DEF PollInv, PollTypeOK, QueueSorted, HandlesUnique, HandlesPast, EntryInUse,
       Positions, NodeAt
<1> QED
  BY <1>2, <1>3

LEMMA TxCbInv == ASSUME PollInv, TxCb PROVE PollInv'
<1>1. /\ next_left' \in Nat /\ cur_cmd_tm' \in 0 .. MaxCmdTm /\ tx_pend' \in 0 .. MaxTx
      /\ UNCHANGED <<poll_lst, tmr_sem, handle_gen, cur_node_id, cur_handle, cur_node_last,
                     cur_rpt, poll_mtx, snd_pos, nw_mtx, rm_q>>
  BY PollAssumption DEF TxCb, PollInv, PollTypeOK
<1> QED
  BY <1>1 DEF PollInv, PollTypeOK, QueueSorted, HandlesUnique, HandlesPast, EntryInUse,
     Positions, NodeAt

LEMMA EndSendInv == ASSUME PollInv, EndSend PROVE PollInv'
<1> DEFINE e == poll_lst[snd_pos]
<1>1. /\ snd_pos \in Positions /\ snd_pos \in 1 .. Len(poll_lst) /\ Len(poll_lst) \in Nat
      /\ poll_lst \in Seq(Entries)
  BY EntryTypes DEF EndSend, PollInv, PollTypeOK, EntryInUse, Positions
<1>2. e \in Entries
  BY <1>1, EntryTypes DEF PollInv
<1>3. /\ next_left' \in Nat /\ cur_cmd_tm' \in 0 .. MaxCmdTm /\ tx_pend' \in 0 .. MaxTx
      /\ poll_mtx' = "free" /\ snd_pos' = 0
      /\ UNCHANGED <<tmr_sem, handle_gen, cur_node_id, cur_handle, cur_node_last, nw_mtx, rm_q>>
  BY PollAssumption DEF EndSend, PollInv, PollTypeOK
<1>4. cur_rpt' \in Rpts \cup {NoRpt}
  BY <1>2 DEF EndSend, Entries, Rpts
<1>5. poll_lst' \in Seq(Entries) /\ QueueSorted' /\ HandlesUnique' /\ HandlesPast'
  <2>1. CASE e.cnt_left = 1
    <3>1. poll_lst' = RemoveAt(poll_lst, snd_pos)
      BY <2>1 DEF EndSend
    <3> QED
      BY <1>1, <1>3, <3>1, RemoveInv
  <2>2. CASE e.cnt_left # 1
    <3>1. poll_lst' = [poll_lst EXCEPT ![snd_pos] = Restarted(e)]
      BY <2>2 DEF EndSend
    <3>2. /\ Restarted(e) \in Entries
          /\ Restarted(e).req = e.req /\ Restarted(e).handle = e.handle
      <4>1. e.req.interval \in Nat /\ e.req.poll_cnt \in Nat /\ MIN_POLL_TIME \in Nat
            /\ e.cnt_left \in Nat /\ e.cnt_left <= e.req.poll_cnt
        BY <1>2, PollAssumption DEF Entries
      <4> DEFINE l == Later(e.req.interval, MIN_POLL_TIME)
                 c == IF e.cnt_left > 1 THEN e.cnt_left - 1 ELSE e.cnt_left
      <4>2. l \in Nat /\ c \in Nat /\ c <= e.req.poll_cnt
        BY <4>1 DEF Later
      <4>3. Restarted(e) = [e EXCEPT !.left = l, !.cnt_left = c]
        BY DEF Restarted
      <4> HIDE DEF l, c
      <4> QED
        BY <1>2, <4>2, <4>3 DEF Entries
    <3>3. /\ poll_lst' \in Seq(Entries) /\ Len(poll_lst') = Len(poll_lst)
          /\ \A i \in 1 .. Len(poll_lst) :
               poll_lst'[i] = IF i = snd_pos THEN Restarted(e) ELSE poll_lst[i]
      BY <1>1, <3>1, <3>2, ExceptSeq
    <3>4. ASSUME NEW i \in Positions
          PROVE  /\ poll_lst'[i].req = poll_lst[i].req
                 /\ poll_lst'[i].handle = poll_lst[i].handle
      BY <3>2, <3>3 DEF Positions
    <3> QED
      BY <1>3, <3>3, <3>4, SameQueue
  <2> QED
    BY <2>1, <2>2
<1>6. PollTypeOK'
  BY <1>3, <1>4, <1>5 DEF PollInv, PollTypeOK
<1>7. EntryInUse'
  BY <1>3 DEF EntryInUse
<1> QED
  BY <1>5, <1>6, <1>7 DEF PollInv

LEMMA TickInv == ASSUME PollInv, Tick PROVE PollInv'
<1>1. Len(poll_lst) \in Nat /\ \A i \in 1 .. Len(poll_lst) : poll_lst[i] \in Entries
  BY EntryTypes DEF PollInv, Positions
<1> DEFINE aged(i) == [poll_lst[i] EXCEPT !.left = Sooner(@)]
<1>2. ASSUME NEW i \in 1 .. Len(poll_lst)
      PROVE  aged(i) \in Entries /\ aged(i).req = poll_lst[i].req
             /\ aged(i).handle = poll_lst[i].handle
  <2>1. poll_lst[i].left \in Nat
    BY <1>1 DEF Entries
  <2>2. Sooner(poll_lst[i].left) \in Nat
    BY <2>1 DEF Sooner
  <2> QED
    BY <1>1, <2>2 DEF Entries
<1>3. poll_lst' = [i \in 1 .. Len(poll_lst) |-> aged(i)]
  BY DEF Tick, Positions
<1> HIDE DEF aged
<1>4. poll_lst' \in Seq(Entries) /\ Len(poll_lst') = Len(poll_lst)
  BY <1>1, <1>2, <1>3
<1>5. \A i \in Positions : /\ poll_lst'[i].req = poll_lst[i].req
                           /\ poll_lst'[i].handle = poll_lst[i].handle
  BY <1>2, <1>3 DEF Positions
<1>6. UNCHANGED <<handle_gen, cur_node_id, cur_handle, cur_node_last, cur_rpt, cur_cmd_tm,
                  poll_mtx, snd_pos, nw_mtx, rm_q, tx_pend>>
  BY DEF Tick
<1>7. QueueSorted' /\ HandlesUnique' /\ HandlesPast'
  BY <1>4, <1>5, <1>6, SameQueue
<1>8. next_left' \in Nat /\ tmr_sem' \in 0 .. MaxSem
  BY PollAssumption DEF Tick, Sooner, PollInv, PollTypeOK
<1>9. PollTypeOK'
  BY <1>4, <1>6, <1>8 DEF PollInv, PollTypeOK
<1>10. EntryInUse'
  BY <1>4, <1>5, <1>6 DEF PollInv, EntryInUse, Positions
<1> QED
  BY <1>7, <1>9, <1>10 DEF PollInv

LEMMA AddInv == ASSUME PollInv, NEW r \in Requests, Add(r) PROVE PollInv'
<1> DEFINE e == [req |-> r, handle |-> NewHandle, cnt_left |-> r.poll_cnt, left |-> r.interval]
<1>1. /\ handle_gen \in Nat /\ HANDLE_MAX \in Nat /\ handle_gen < HANDLE_MAX
      /\ NewHandle = handle_gen + 1 /\ handle_gen' = NewHandle
      /\ poll_mtx = "free"
      /\ UNCHANGED <<tmr_sem, cur_cmd_tm, poll_mtx, snd_pos, nw_mtx, rm_q, tx_pend>>
  BY PollAssumption DEF Add, NewHandle, PollMtxFree, PollInv, PollTypeOK
<1>2. r.interval \in Nat /\ r.poll_cnt \in Nat /\ r.node_id \in Nodes
  BY PollAssumption DEF Nodes
<1>3. e \in Entries /\ e.handle = handle_gen + 1 /\ e.req.node_id = r.node_id
  BY <1>1, <1>2 DEF Entries, Handles
<1>4. poll_lst' = InsertAt(poll_lst, InsertPos(r.node_id), e)
  BY DEF Add
<1> HIDE DEF e
<1>5. poll_lst' \in Seq(Entries) /\ QueueSorted' /\ HandlesUnique' /\ HandlesPast'
  BY <1>1, <1>3, <1>4, InsertInv
<1>6. /\ next_left' \in Nat /\ cur_node_id' \in Nodes \cup {0}
      /\ cur_handle' \in 0 .. HANDLE_MAX /\ cur_rpt' \in Rpts \cup {NoRpt}
  <2>1. NewHandle \in 0 .. HANDLE_MAX /\ cur_handle \in 0 .. HANDLE_MAX
    BY <1>1 DEF PollInv, PollTypeOK
  <2>2. CASE poll_lst = <<>>
    <3>1. next_left' = r.interval /\ cur_node_id' = r.node_id /\ cur_handle' = NewHandle
          /\ cur_rpt' = NoRpt
      BY <2>2 DEF Add
    <3> QED
      BY <1>2, <2>1, <3>1
  <2>3. CASE poll_lst # <<>>
    <3>1. UNCHANGED <<next_left, cur_node_id, cur_handle, cur_rpt>>
      BY <2>3 DEF Add
    <3> QED
      BY <2>1, <3>1 DEF PollInv, PollTypeOK
  <2> QED
    BY <2>2, <2>3
<1>7. cur_node_last' \in BOOLEAN
  BY DEF Add, PollInv, PollTypeOK
<1>8. handle_gen' \in 0 .. HANDLE_MAX
  BY <1>1
<1>9. PollTypeOK'
  BY <1>1, <1>5, <1>6, <1>7, <1>8 DEF PollInv, PollTypeOK
<1> QED
  BY <1>1, <1>5, <1>9 DEF PollInv, EntryInUse

\* Removals need the mutex free, so no pointer is in use.
LEMMA RemovalInv ==
  ASSUME PollInv, UNCHANGED others_of_rm, poll_mtx \notin {"chk", "rpt"},
         poll_mtx' \in {poll_mtx, "null_deref"}, nw_mtx' \in Nodes \cup {0}, rm_q' \subseteq Handles,
         poll_lst' \in Seq(Entries), QueueSorted', HandlesUnique', HandlesPast'
  PROVE  PollInv'
<1>1. UNCHANGED <<next_left, tmr_sem, handle_gen, cur_node_id, cur_handle, cur_node_last, cur_rpt,
                  cur_cmd_tm, snd_pos, tx_pend>>
  BY DEF others_of_rm, cur_vars
<1>2. PollTypeOK'
  BY <1>1 DEF PollInv, PollTypeOK
<1> QED
  BY <1>2 DEF PollInv, EntryInUse

LEMMA RmInv == ASSUME PollInv, NEW h \in Handles, Rm(h) PROVE PollInv'
<1>1. /\ UNCHANGED <<poll_lst, poll_mtx, nw_mtx, next_left, tmr_sem, handle_gen, cur_node_id,
                     cur_handle, cur_node_last, cur_rpt, cur_cmd_tm, snd_pos, tx_pend>>
      /\ rm_q' \subseteq Handles
  BY DEF Rm, others_of_rm, cur_vars
<1> QED
  BY <1>1 DEF PollInv, PollTypeOK, QueueSorted, HandlesUnique, HandlesPast, EntryInUse,
     Positions, NodeAt

LEMMA RmLockedInv == ASSUME PollInv, NEW h \in Handles, RmLocked(h) PROVE PollInv'
<1> DEFINE i == First({j \in Positions : poll_lst[j].handle = h})
<1>1. /\ UNCHANGED <<handle_gen, others_of_rm>> /\ poll_mtx = "free"
      /\ poll_mtx' \in {poll_mtx, "null_deref"} /\ rm_q' \subseteq Handles
      /\ nw_mtx' \in Nodes \cup {0}
  BY DEF RmLocked, PollMtxFree, PollInv, PollTypeOK, others_of_rm
<1>2. poll_lst' = IF i \in Positions THEN RemoveAt(poll_lst, i) ELSE poll_lst
  BY DEF RmLocked
<1> HIDE DEF i
<1>3. poll_lst' \in Seq(Entries) /\ QueueSorted' /\ HandlesUnique' /\ HandlesPast'
  <2>1. CASE i \in Positions
    BY <1>1, <1>2, <2>1, RemoveInv
  <2>2. CASE i \notin Positions
    BY <1>1, <1>2, <2>2 DEF PollInv, PollTypeOK, QueueSorted, HandlesUnique, HandlesPast,
       Positions, NodeAt
  <2> QED
    BY <2>1, <2>2
<1> QED
  BY <1>1, <1>3, RemovalInv

LEMMA RmMulInv == ASSUME PollInv, NEW t \in Tokens, RmMul(t) PROVE PollInv'
<1> DEFINE K == {i \in Positions : poll_lst[i].req.usr_token # t}
<1>1. /\ UNCHANGED <<handle_gen, others_of_rm>> /\ poll_mtx = "free"
      /\ poll_mtx' \in {poll_mtx, "null_deref"} /\ rm_q' \subseteq Handles
      /\ nw_mtx' \in Nodes \cup {0}
  BY DEF RmMul, PollMtxFree, PollInv, PollTypeOK, others_of_rm
<1>2. Keep(K)
  BY DEF RmMul
<1>3. poll_lst' \in Seq(Entries) /\ QueueSorted' /\ HandlesUnique' /\ HandlesPast'
  BY <1>1, <1>2, KeepInv
<1> QED
  BY <1>1, <1>3, RemovalInv

LEMMA ZwnodeRmInv == ASSUME PollInv, NEW node_id \in Nodes, ZwnodeRm(node_id) PROVE PollInv'
<1>1. /\ UNCHANGED <<poll_lst, poll_mtx, rm_q, next_left, tmr_sem, handle_gen, cur_node_id,
                     cur_handle, cur_node_last, cur_rpt, cur_cmd_tm, snd_pos, tx_pend>>
      /\ nw_mtx' \in Nodes \cup {0}
  BY DEF ZwnodeRm, others_of_rm, cur_vars
<1> QED
  BY <1>1 DEF PollInv, PollTypeOK, QueueSorted, HandlesUnique, HandlesPast, EntryInUse,
     Positions, NodeAt

LEMMA ZwpollNodeRmInv == ASSUME PollInv, ZwpollNodeRm PROVE PollInv'
<1> DEFINE K == {i \in Positions : NodeAt(i) # nw_mtx}
<1>1. /\ UNCHANGED <<handle_gen, others_of_rm>> /\ poll_mtx = "free"
      /\ poll_mtx' \in {poll_mtx, "null_deref"} /\ rm_q' \subseteq Handles
      /\ nw_mtx' \in Nodes \cup {0}
  BY DEF ZwpollNodeRm, PollMtxFree, PollInv, PollTypeOK, others_of_rm
<1>2. Keep(K)
  BY DEF ZwpollNodeRm
<1>3. poll_lst' \in Seq(Entries) /\ QueueSorted' /\ HandlesUnique' /\ HandlesPast'
  BY <1>1, <1>2, KeepInv
<1> QED
  BY <1>1, <1>3, RemovalInv

LEMMA PollNextInv == PollInv /\ [PollNext]_poll_vars => PollInv'
<1> SUFFICES ASSUME PollInv, [PollNext]_poll_vars PROVE PollInv'
  OBVIOUS
<1>1. CASE Tick
  BY <1>1, TickInv
<1>2. CASE ChkThrd
  BY <1>2, ChkThrdInv
<1>3. CASE EndSend
  BY <1>3, EndSendInv
<1>4. CASE RptChk
  BY <1>4, RptChkInv
<1>5. CASE TxCb
  BY <1>5, TxCbInv
<1>6. CASE \E r \in Requests : Add(r)
  BY <1>6, AddInv
<1>7. CASE \E t \in Tokens : RmMul(t)
  BY <1>7, RmMulInv
<1>8. CASE \E h \in Handles : Rm(h) \/ RmLocked(h)
  BY <1>8, RmInv, RmLockedInv
<1>9. CASE \E node_id \in Nodes : ZwnodeRm(node_id)
  BY <1>9, ZwnodeRmInv
<1>10. CASE ZwpollNodeRm
  BY <1>10, ZwpollNodeRmInv
<1>11. CASE UNCHANGED poll_vars
  BY <1>11 DEF poll_vars, cur_vars, PollInv, PollTypeOK, QueueSorted, HandlesUnique, HandlesPast,
     EntryInUse, Positions, NodeAt
<1> QED
  BY <1>1, <1>2, <1>3, <1>4, <1>5, <1>6, <1>7, <1>8, <1>9, <1>10, <1>11 DEF PollNext

LEMMA PollInvariant == PollSpec => []PollInv
BY PollInitInv, PollNextInv, PTL DEF PollSpec

---------------------------------------------------------------------------

\* The variables of zw_poll.c keep their types, for any requests and intervals:
\* in particular the count left of a request never passes zero.
THEOREM PollTypeCorrect == PollSpec => []PollTypeOK
<1>1. PollInv => PollTypeOK
  BY DEF PollInv
<1> QED
  BY <1>1, PollInvariant, PTL

\* The poll queue of zwpoll_add stays sorted by node under all removals and
\* polls, for any number of requests.
THEOREM PollQueueSorted == PollSpec => []QueueSorted
<1>1. PollInv => QueueSorted
  BY DEF PollInv
<1> QED
  BY <1>1, PollInvariant, PTL

\* Until handle_gen wraps, no two entries of the queue have the same handle.
THEOREM PollHandlesUnique == PollSpec => []HandlesUnique
<1>1. PollInv => HandlesUnique
  BY DEF PollInv
<1> QED
  BY <1>1, PollInvariant, PTL

\* The entry that zwpoll_cmd_send works on is in the queue until it is done.
THEOREM PollEntryInUse == PollSpec => []EntryInUse
<1>1. PollInv => EntryInUse
  BY DEF PollInv
<1> QED
  BY <1>1, PollInvariant, PTL

-----------------------------------------------------------------------------
(***************************************************************************)
(* The sending of commands to a node: each command taken on is in one      *)
(* place, and a wait for a report has something that ends it.  The first   *)
(* needs that no identifier is twice in a queue, the second what a node    *)
(* that does not listen for a beam can not have: a wait, a command behind  *)
(* it, or a queued GET.                                                    *)
(***************************************************************************)

---------------------------------------------------------------------------
(* Places.                                                                 *)

\* No command is twice in a queue.
Distinct(q) == \A i, j \in DOMAIN q : q[i].id = q[j].id => i = j
Requested(i) == SeqIds(cmd_q_req[i])

QueuesDistinct ==
  /\ Distinct(n.wait_cmd_q) /\ Distinct(n.mul_cmd_q) /\ Distinct(cmd_q_thrd)
  /\ \A i \in DOMAIN cmd_q_req : Distinct(cmd_q_req[i])

\* What is in a queue, with a thread or done with has been taken on; the other way round
\* unless zwnode_mul_cmd_ctl_set drops commands.
Waiting == SeqIds(n.wait_cmd_q)
BeingSent == SeqIds(wait_q_thrd.cmd)
Mul == SeqIds(n.mul_cmd_q)
BeingWorkedOff == SeqIds(cmd_q_thrd)
AllRequested == UNION {Requested(i) : i \in DOMAIN cmd_q_req}
AllPlaces == Waiting \cup BeingSent \cup Mul \cup BeingWorkedOff \cup done \cup AllRequested
NoneLost == AllPlaces \subseteq taken /\ ("ctl_on" \notin Races => taken \subseteq AllPlaces)

Apart(A, B) == \A x \in A : x \notin B
AllApart(W, S, M, C, D, R) ==
  /\ Apart(W, S) /\ Apart(W, M) /\ Apart(W, C) /\ Apart(W, D) /\ Apart(W, R)
  /\ Apart(S, M) /\ Apart(S, C) /\ Apart(S, D) /\ Apart(S, R)
  /\ Apart(M, C) /\ Apart(M, D) /\ Apart(M, R)
  /\ Apart(C, D) /\ Apart(C, R) /\ Apart(D, R)
InOnePlace ==
  /\ AllApart(Waiting, BeingSent, Mul, BeingWorkedOff, done, AllRequested)
  /\ \A i, j \in DOMAIN cmd_q_req : i # j => Apart(Requested(i), Requested(j))

TakenAreOld == \A id \in taken : id <= calls

PlacesInv == QueuesDistinct /\ NoneLost /\ InOnePlace /\ TakenAreOld

---------------------------------------------------------------------------
(* Waits.                                                                  *)

NoneWaits(q) == \A i \in DOMAIN q : ~ q[i].wait_rpt
\* Only a node that is woken by a beam waits for reports, only one that sleeps keeps its
\* commands until it wakes up, and one that has gone waits for nothing.
NodeOk(x) ==
  /\ ~ kind.beam => ~ x.wait_rpt_flg /\ x.wait_cmd_q = <<>> /\ NoneWaits(x.mul_cmd_q)
  /\ x.enable_cmd_q => kind.sleep_cap
  /\ ~ x.there => ~ x.wait_rpt_flg
\* WaitEnds, of any node, transmissions and timers.
Ends(x, a, l) ==
  x.wait_rpt_flg =>
    \/ a # {} \/ x.wait_tmr \/ "wait" \in l
    \/ WaitsForReport(x.mul_cmd_q) /\ (x.mul_cmd_tmr \/ "mul_cmd" \in l)
ThreadsOk ==
  /\ ~ kind.beam => wait_q_thrd.cmd = <<>>
  /\ cmd_q_req # <<>> => kind.sleep_cap
  /\ \A i \in DOMAIN cmd_q_req : NoneWaits(cmd_q_req[i])

\* Nothing takes a queued GET away from the timer.
NothingTaken == Races \subseteq {"cmd_num"}
WaitInv == NodeOk(n) /\ ThreadsOk /\ (NothingTaken => WaitEnds)
ExecInv == ExecTypeOK /\ PlacesInv /\ WaitInv

---------------------------------------------------------------------------
(* Queues.                                                                 *)

LEMMA QueueFields ==
  ASSUME NEW q \in Seq(Entry)
  PROVE  /\ Len(q) \in Nat /\ DOMAIN q = 1 .. Len(q)
         /\ \A i \in DOMAIN q : q[i] \in Entry /\ q[i].id \in Ids
         /\ SeqIds(q) \subseteq Ids
         /\ q # <<>> => 1 \in DOMAIN q /\ Head(q) = q[1] /\ Head(q) \in Entry /\ Tail(q) \in Seq(Entry)
<1>1. Len(q) \in Nat /\ DOMAIN q = 1 .. Len(q) /\ \A i \in DOMAIN q : q[i] \in Entry
  BY LenProperties, ElementOfSeq
<1>2. \A i \in DOMAIN q : q[i].id \in Ids
  BY <1>1 DEF Entry
<1>3. q # <<>> => 1 \in DOMAIN q /\ Head(q) = q[1] /\ Tail(q) \in Seq(Entry)
  BY <1>1, EmptySeq, HeadTailProperties
<1> QED
  BY <1>1, <1>2, <1>3 DEF SeqIds

LEMMA EmptyQueue ==
  SeqIds(<<>>) = {} /\ Distinct(<<>>) /\ NoneWaits(<<>>) /\ ~ WaitsForReport(<<>>)
BY DEF SeqIds, Distinct, NoneWaits, WaitsForReport

\* A command is appended that is not in the queue.
LEMMA AppendedQueue ==
  ASSUME NEW q \in Seq(Entry), NEW e \in Entry
  PROVE  /\ Append(q, e) \in Seq(Entry)
         /\ SeqIds(Append(q, e)) = SeqIds(q) \cup {e.id}
         /\ Distinct(q) /\ e.id \notin SeqIds(q) => Distinct(Append(q, e))
         /\ NoneWaits(q) /\ ~ e.wait_rpt => NoneWaits(Append(q, e))
         /\ WaitsForReport(q) \/ e.wait_rpt => WaitsForReport(Append(q, e))
<1> DEFINE r == Append(q, e)
<1>1. /\ Len(q) \in Nat /\ DOMAIN q = 1 .. Len(q)
      /\ r \in Seq(Entry) /\ Len(r) = Len(q) + 1 /\ r[Len(q) + 1] = e
      /\ \A i \in DOMAIN q : r[i] = q[i]
  BY QueueFields, AppendProperties
<1>2. DOMAIN r = 1 .. Len(q) + 1
  BY <1>1, LenProperties
<1> HIDE DEF r
<1>3. \A i \in DOMAIN r : i \in DOMAIN q \/ i = Len(q) + 1
  BY <1>1, <1>2
<1>4. Len(q) + 1 \in DOMAIN r /\ \A i \in DOMAIN q : i \in DOMAIN r
  BY <1>1, <1>2
<1>5. SeqIds(r) = SeqIds(q) \cup {e.id}
  BY <1>1, <1>3, <1>4 DEF SeqIds
<1>6. Distinct(q) /\ e.id \notin SeqIds(q) => Distinct(r)
  BY <1>1, <1>3 DEF Distinct, SeqIds
<1>7. NoneWaits(q) /\ ~ e.wait_rpt => NoneWaits(r)
  BY <1>1, <1>3 DEF NoneWaits
<1>8. WaitsForReport(q) \/ e.wait_rpt => WaitsForReport(r)
  BY <1>1, <1>4 DEF WaitsForReport
<1> QED
  BY <1>1, <1>5, <1>6, <1>7, <1>8 DEF r

\* The first command leaves the queue.
LEMMA TailOfQueue ==
  ASSUME NEW q \in Seq(Entry), q # <<>>, Distinct(q)
  PROVE  /\ Head(q).id \in SeqIds(q) /\ SeqIds(Tail(q)) = SeqIds(q) \ {Head(q).id}
         /\ Distinct(Tail(q))
<1> DEFINE r == Tail(q)
<1>1. /\ Len(q) \in Nat /\ DOMAIN q = 1 .. Len(q) /\ 1 \in DOMAIN q /\ Head(q) = q[1]
      /\ r \in Seq(Entry) /\ Len(r) = Len(q) - 1 /\ \A i \in 1 .. Len(q) - 1 : r[i] = q[i + 1]
  BY QueueFields, HeadTailProperties
<1>2. DOMAIN r = 1 .. Len(q) - 1
  BY <1>1, LenProperties
<1> HIDE DEF r
<1>3. ASSUME NEW i \in DOMAIN r
      PROVE  i + 1 \in DOMAIN q /\ r[i] = q[i + 1] /\ q[i + 1].id # q[1].id
  <2>1. i + 1 \in DOMAIN q /\ r[i] = q[i + 1] /\ i + 1 # 1
    BY <1>1, <1>2
  <2> QED
    BY <1>1, <2>1 DEF Distinct
<1>4. ASSUME NEW i \in DOMAIN q, i # 1
      PROVE  i - 1 \in DOMAIN r /\ r[i - 1] = q[i]
  <2>1. i - 1 \in 1 .. Len(q) - 1 /\ (i - 1) + 1 = i
    BY <1>1, <1>4
  <2> QED
    BY <1>1, <1>2, <2>1
<1>5. SeqIds(r) \subseteq SeqIds(q) \ {q[1].id}
  BY <1>3 DEF SeqIds
<1>6. SeqIds(q) \ {q[1].id} \subseteq SeqIds(r)
  <2>1. ASSUME NEW i \in DOMAIN q, q[i].id # q[1].id
        PROVE  q[i].id \in SeqIds(r)
    BY <1>4, <2>1 DEF SeqIds
  <2> QED
    BY <2>1 DEF SeqIds
<1>7. Distinct(r)
  <2>1. ASSUME NEW i \in DOMAIN r, NEW j \in DOMAIN r, r[i].id = r[j].id
        PROVE  i = j
    <3>1. i + 1 = j + 1
      BY <1>3, <2>1 DEF Distinct
    <3> QED
      BY <1>2, <3>1, <1>1
  <2> QED
    BY <2>1 DEF Distinct
<1> QED
  BY <1>1, <1>5, <1>6, <1>7 DEF SeqIds, r

---------------------------------------------------------------------------
(* The node.                                                               *)

LEMMA NodeFields ==
  ASSUME NEW x \in NodeType
  PROVE  /\ x.there \in BOOLEAN /\ x.wait_rpt_flg \in BOOLEAN /\ x.wait_rpt \in Gets \cup {NoCommand}
         /\ x.wait_cmd_q \in Seq(Entry) /\ x.cmd_num \in 0 .. 1 /\ x.mul_cmd_q \in Seq(Entry)
         /\ x.mul_cmd_ctl \in BOOLEAN /\ x.enable_cmd_q \in BOOLEAN /\ x.wait_tmr \in BOOLEAN
         /\ x.mul_cmd_tmr \in BOOLEAN /\ x.wait_q_req \in Nat
BY DEF NodeType

\* One of the fields that tell nothing about the queues and the wait is set.
LEMMA WaitRptTmoutNode ==
  ASSUME NEW x \in NodeType
  PROVE  LET y == WaitRptTmout(x)
         IN  /\ y \in NodeType /\ ~ y.wait_rpt_flg /\ y.there = x.there
             /\ y.wait_cmd_q = x.wait_cmd_q /\ y.mul_cmd_q = x.mul_cmd_q
             /\ y.enable_cmd_q = x.enable_cmd_q
<1> DEFINE a == [x EXCEPT !.wait_tmr = FALSE]
           b == [a EXCEPT !.wait_rpt_flg = FALSE]
           c == [b EXCEPT !.wait_q_req = @ + 1]
<1>1. a \in NodeType /\ a.there = x.there /\ a.wait_cmd_q = x.wait_cmd_q
      /\ a.mul_cmd_q = x.mul_cmd_q /\ a.enable_cmd_q = x.enable_cmd_q
  BY DEF NodeType
<1>2. WaitRptTmout(x) = c
  BY Zenon DEF WaitRptTmout
<1> HIDE DEF a
<1>3. b \in NodeType /\ ~ b.wait_rpt_flg /\ b.there = x.there /\ b.wait_cmd_q = x.wait_cmd_q
      /\ b.mul_cmd_q = x.mul_cmd_q /\ b.enable_cmd_q = x.enable_cmd_q
  BY <1>1 DEF NodeType
<1> HIDE DEF b
<1>4. c \in NodeType /\ ~ c.wait_rpt_flg /\ c.there = x.there /\ c.wait_cmd_q = x.wait_cmd_q
      /\ c.mul_cmd_q = x.mul_cmd_q /\ c.enable_cmd_q = x.enable_cmd_q
  BY <1>3 DEF NodeType
<1> HIDE DEF c
<1> QED
  BY <1>2, <1>4

---------------------------------------------------------------------------
(* Outcomes.  What an outcome does to the queues of the node, and that it  *)
(* leaves the node right and its wait, if there is one, with an end.       *)

SameQueues(x, y) == y.wait_cmd_q = x.wait_cmd_q /\ y.mul_cmd_q = x.mul_cmd_q
\* The command is put into one of the queues.
PutInQueue(x, y, id) ==
  \E e \in Entry :
    /\ e.id = id
    /\ \/ y.wait_cmd_q = Append(x.wait_cmd_q, e) /\ y.mul_cmd_q = x.mul_cmd_q
       \/ y.mul_cmd_q = Append(x.mul_cmd_q, e) /\ y.wait_cmd_q = x.wait_cmd_q
Placed(x, o, id) ==
  IF o.res = "queued" THEN PutInQueue(x, o.node, id) ELSE SameQueues(x, o.node)

Typed(o, id) == o.node \in NodeType /\ o.air \subseteq {id}
Right(x, o) ==
  /\ NodeOk(x) => NodeOk(o.node)
  /\ \A a \in SUBSET Ids, l \in SUBSET {"wait", "mul_cmd"} :
       NodeOk(x) /\ Ends(x, a, l) => Ends(o.node, a \cup o.air, l)
Good(x, o, id) == Typed(o, id) /\ Placed(x, o, id) /\ Right(x, o)

\* x and y differ in nothing that an outcome is asked for.
Alike(x, y) ==
  /\ y \in NodeType /\ y.there = x.there /\ y.wait_cmd_q = x.wait_cmd_q /\ y.mul_cmd_q = x.mul_cmd_q
  /\ y.wait_rpt_flg = x.wait_rpt_flg /\ y.enable_cmd_q = x.enable_cmd_q /\ y.wait_tmr = x.wait_tmr
  /\ y.mul_cmd_tmr = x.mul_cmd_tmr /\ y.mul_cmd_ctl = x.mul_cmd_ctl

LEMMA OutcomeFields ==
  ASSUME NEW x, NEW r, NEW a
  PROVE  Outcome(x, r, a).node = x /\ Outcome(x, r, a).res = r /\ Outcome(x, r, a).air = a
BY DEF Outcome

LEMMA GoodAlike ==
  ASSUME NEW x \in NodeType, NEW y, Alike(x, y), NEW o, NEW id, Good(y, o, id)
  PROVE  Good(x, o, id)
<1>1. Typed(o, id)
  BY DEF Good
<1>2. Placed(x, o, id)
  BY DEF Good, Placed, SameQueues, PutInQueue, Alike
<1>3. Right(x, o)
  <2>1. NodeOk(x) => NodeOk(y)
    BY DEF NodeOk, Alike
  <2>2. \A a \in SUBSET Ids, l \in SUBSET {"wait", "mul_cmd"} : Ends(x, a, l) => Ends(y, a, l)
    BY DEF Ends, Alike
  <2>3. /\ NodeOk(y) => NodeOk(o.node)
        /\ \A a \in SUBSET Ids, l \in SUBSET {"wait", "mul_cmd"} :
             NodeOk(y) /\ Ends(y, a, l) => Ends(o.node, a \cup o.air, l)
    BY DEF Good, Right
  <2>4. ASSUME NEW a \in SUBSET Ids, NEW l \in SUBSET {"wait", "mul_cmd"}, NodeOk(x), Ends(x, a, l)
        PROVE  Ends(o.node, a \cup o.air, l)
    <3>1. NodeOk(y) /\ Ends(y, a, l)
      BY <2>1, <2>2, <2>4
    <3> QED
      BY <2>3, <3>1
  <2> QED
    BY <2>1, <2>3, <2>4 DEF Right
<1> QED
  BY <1>1, <1>2, <1>3 DEF Good

\* What has to be shown of an outcome.
LEMMA GoodOutcome ==
  ASSUME NEW x, NEW y \in NodeType, NEW r, NEW id, NEW b \in SUBSET {id},
         r = "queued" => PutInQueue(x, y, id), r # "queued" => SameQueues(x, y),
         NodeOk(x) => NodeOk(y),
         \A a \in SUBSET Ids, l \in SUBSET {"wait", "mul_cmd"} :
           NodeOk(x) /\ Ends(x, a, l) => Ends(y, a \cup b, l)
  PROVE  Good(x, Outcome(y, r, b), id)
<1> DEFINE o == Outcome(y, r, b)
<1>1. o.node = y /\ o.res = r /\ o.air = b
  BY OutcomeFields
<1> HIDE DEF o
<1>2. Typed(o, id) /\ Placed(x, o, id)
  BY <1>1 DEF Typed, Placed
<1>3. ASSUME NEW a \in SUBSET Ids, NEW l \in SUBSET {"wait", "mul_cmd"}, NodeOk(x), Ends(x, a, l)
      PROVE  Ends(o.node, a \cup o.air, l)
  <2>1. Ends(y, a \cup b, l)
    BY <1>3
  <2> QED
    BY <1>1, <2>1
<1>4. NodeOk(x) => NodeOk(o.node)
  BY <1>1
<1>5. Right(x, o)
  BY <1>3, <1>4 DEF Right
<1>6. Good(x, o, id)
  BY <1>2, <1>5 DEF Good
<1> QED
  BY <1>6 DEF o

LEMMA NothingDone ==
  ASSUME NEW x \in NodeType, NEW y, Alike(x, y), NEW id, NEW r, r # "queued"
  PROVE  Good(x, Outcome(y, r, {}), id)
<1>1. y \in NodeType /\ SameQueues(x, y)
  BY DEF SameQueues, Alike
<1>2. NodeOk(x) => NodeOk(y)
  BY DEF NodeOk, Alike
<1>3. \A a \in SUBSET Ids, l \in SUBSET {"wait", "mul_cmd"} :
        NodeOk(x) /\ Ends(x, a, l) => Ends(y, a \cup {}, l)
  BY DEF Ends, Alike
<1> QED
  BY <1>1, <1>2, <1>3, GoodOutcome

\* The transmission; a report can be waited for only by a node that listens for a beam.
LEMMA SendGood ==
  ASSUME NEW x \in NodeType, NEW id, NEW wait_rpt \in BOOLEAN, x.there,
         wait_rpt => kind.beam, NEW o \in Send(x, id, wait_rpt)
  PROVE  Good(x, o, id) /\ o.res \in {"sent", "busy", "failed"}
<1> DEFINE y == [x EXCEPT !.wait_rpt_flg = @ \/ wait_rpt]
<1>1. /\ y \in NodeType /\ SameQueues(x, y) /\ y.there = x.there
      /\ y.enable_cmd_q = x.enable_cmd_q
      /\ y.wait_rpt_flg = (x.wait_rpt_flg \/ wait_rpt) /\ y.wait_tmr = x.wait_tmr
      /\ y.mul_cmd_tmr = x.mul_cmd_tmr
  BY NodeFields DEF NodeType, SameQueues
<1>2. \/ o = Outcome(y, "sent", IF wait_rpt THEN {id} ELSE {})
      \/ \E r \in {"busy", "failed"} : o = Outcome(IF wait_rpt THEN WaitRptTmout(y) ELSE y, r, {})
  BY DEF Send
<1> HIDE DEF y
<1>3. NodeOk(x) => NodeOk(y)
  BY <1>1 DEF NodeOk, SameQueues
<1>4. CASE o = Outcome(y, "sent", IF wait_rpt THEN {id} ELSE {})
  <2> DEFINE b == IF wait_rpt THEN {id} ELSE {}
  <2>1. \A a \in SUBSET Ids, l \in SUBSET {"wait", "mul_cmd"} :
          NodeOk(x) /\ Ends(x, a, l) => Ends(y, a \cup b, l)
    BY <1>1 DEF Ends, SameQueues
  <2>2. b \in SUBSET {id}
    OBVIOUS
  <2>3. o = Outcome(y, "sent", b)
    BY <1>4
  <2> HIDE DEF b
  <2>4. Good(x, Outcome(y, "sent", b), id)
    BY <1>1, <1>3, <2>1, <2>2, GoodOutcome
  <2> QED
    BY <2>3, <2>4, OutcomeFields
<1>5. CASE wait_rpt /\ \E r \in {"busy", "failed"} : o = Outcome(WaitRptTmout(y), r, {})
  <2> DEFINE z == WaitRptTmout(y)
  <2>1. z \in NodeType /\ SameQueues(x, z) /\ ~ z.wait_rpt_flg /\ z.there = x.there
        /\ z.enable_cmd_q = x.enable_cmd_q
    BY <1>1, WaitRptTmoutNode DEF SameQueues
  <2>2. PICK r \in {"busy", "failed"} : o = Outcome(z, r, {})
    BY <1>5
  <2> HIDE DEF z
  <2>3. NodeOk(x) => NodeOk(z)
    BY <2>1 DEF NodeOk, SameQueues
  <2>4. \A a \in SUBSET Ids, l \in SUBSET {"wait", "mul_cmd"} :
          NodeOk(x) /\ Ends(x, a, l) => Ends(z, a \cup {}, l)
    BY <2>1 DEF Ends
  <2>5. Good(x, Outcome(z, r, {}), id)
    BY <2>1, <2>3, <2>4, GoodOutcome
  <2> QED
    BY <2>2, <2>5, OutcomeFields
<1>6. CASE ~ wait_rpt /\ \E r \in {"busy", "failed"} : o = Outcome(y, r, {})
  <2>1. PICK r \in {"busy", "failed"} : o = Outcome(y, r, {})
    BY <1>6
  <2>2. \A a \in SUBSET Ids, l \in SUBSET {"wait", "mul_cmd"} :
          NodeOk(x) /\ Ends(x, a, l) => Ends(y, a \cup {}, l)
    BY <1>1, <1>6 DEF Ends, SameQueues
  <2>3. Good(x, Outcome(y, r, {}), id)
    BY <1>1, <1>3, <2>2, GoodOutcome
  <2> QED
    BY <2>1, <2>3, OutcomeFields
<1> QED
  BY <1>2, <1>4, <1>5, <1>6

\* Put into wait_cmd_q, which only a node that listens for a beam has.
LEMMA WaitQueuedGood ==
  ASSUME NEW x \in NodeType, NEW e \in Entry, kind.beam
  PROVE  Good(x, WaitQueued(x, e), e.id) /\ WaitQueued(x, e).res \in {"queued", "duplicate"}
<1> DEFINE y == [x EXCEPT !.wait_q_req = @ + 1]
           z == [y EXCEPT !.wait_cmd_q = Append(@, e)]
<1>1. Alike(x, y)
  BY DEF NodeType, Alike
<1>2. y \in NodeType /\ y.wait_cmd_q = x.wait_cmd_q
  BY <1>1 DEF Alike
<1>3. WaitQueued(x, e) = IF InQueue(x.wait_cmd_q, e) THEN Outcome(y, "duplicate", {})
                         ELSE Outcome(z, "queued", {})
  BY Zenon DEF WaitQueued
<1>4. Good(x, Outcome(y, "duplicate", {}), e.id)
  BY <1>1, NothingDone
<1> HIDE DEF y
<1>5. /\ z \in NodeType /\ z.wait_cmd_q = Append(x.wait_cmd_q, e) /\ z.mul_cmd_q = y.mul_cmd_q
      /\ z.there = y.there /\ z.enable_cmd_q = y.enable_cmd_q /\ z.wait_rpt_flg = y.wait_rpt_flg
      /\ z.wait_tmr = y.wait_tmr /\ z.mul_cmd_tmr = y.mul_cmd_tmr
  BY <1>2, NodeFields, AppendedQueue DEF NodeType
<1> HIDE DEF z
<1>6. PutInQueue(x, z, e.id)
  BY <1>1, <1>5 DEF PutInQueue, Alike
<1>7. NodeOk(x) => NodeOk(z)
  BY <1>1, <1>5 DEF NodeOk, Alike
<1>8. \A a \in SUBSET Ids, l \in SUBSET {"wait", "mul_cmd"} :
        NodeOk(x) /\ Ends(x, a, l) => Ends(z, a \cup {}, l)
  BY <1>1, <1>5 DEF Ends, Alike
<1>9. Good(x, Outcome(z, "queued", {}), e.id)
  BY <1>5, <1>6, <1>7, <1>8, GoodOutcome
<1> QED
  BY <1>3, <1>4, <1>9, OutcomeFields

\* Put into mul_cmd_q: a GET that waits there has a timer, because its node does not sleep.
LEMMA MulQueuedGood ==
  ASSUME NEW x \in NodeType, NEW e \in Entry, ExecAssumption, kind \in Kinds,
         e.wait_rpt => kind.beam, x.there, MulQ(x)
  PROVE  Good(x, MulQueued(x, e), e.id) /\ MulQueued(x, e).res \in {"queued", "duplicate"}
<1> DEFINE y == [x EXCEPT !.mul_cmd_tmr = @ \/ (x.mul_cmd_ctl /\ ~ x.enable_cmd_q)]
           w == [y EXCEPT !.mul_cmd_q = Append(@, e)]
           z == [w EXCEPT !.wait_rpt_flg = @ \/ e.wait_rpt]
<1>1. /\ y \in NodeType /\ SameQueues(x, y) /\ y.there = x.there /\ y.enable_cmd_q = x.enable_cmd_q
      /\ y.wait_rpt_flg = x.wait_rpt_flg /\ y.wait_tmr = x.wait_tmr
      /\ y.mul_cmd_tmr = (x.mul_cmd_tmr \/ (x.mul_cmd_ctl /\ ~ x.enable_cmd_q))
  BY NodeFields DEF NodeType, SameQueues
<1>2. MulQueued(x, e) = IF InQueue(x.mul_cmd_q, e) THEN Outcome(y, "duplicate", {})
                        ELSE Outcome([y EXCEPT !.mul_cmd_q = Append(@, e),
                                               !.wait_rpt_flg = @ \/ e.wait_rpt], "queued", {})
  BY Zenon DEF MulQueued
<1> HIDE DEF y
<1>3. [y EXCEPT !.mul_cmd_q = Append(@, e), !.wait_rpt_flg = @ \/ e.wait_rpt] = z
  BY <1>1 DEF NodeType
<1>4. /\ w \in NodeType /\ w.mul_cmd_q = Append(x.mul_cmd_q, e) /\ w.wait_cmd_q = x.wait_cmd_q
      /\ w.there = x.there /\ w.enable_cmd_q = x.enable_cmd_q
      /\ w.wait_rpt_flg = x.wait_rpt_flg /\ w.wait_tmr = x.wait_tmr /\ w.mul_cmd_tmr = y.mul_cmd_tmr
  BY <1>1, NodeFields, AppendedQueue DEF NodeType, SameQueues
<1> HIDE DEF w
<1>5. e.wait_rpt \in BOOLEAN
  BY DEF Entry
<1>6. /\ z \in NodeType /\ z.mul_cmd_q = Append(x.mul_cmd_q, e) /\ z.wait_cmd_q = x.wait_cmd_q
      /\ z.there = x.there /\ z.enable_cmd_q = x.enable_cmd_q
      /\ z.wait_rpt_flg = (x.wait_rpt_flg \/ e.wait_rpt)
      /\ z.wait_tmr = x.wait_tmr /\ z.mul_cmd_tmr = y.mul_cmd_tmr
  BY <1>4, <1>5, NodeFields DEF NodeType
<1> HIDE DEF z
<1>7. /\ NoneWaits(x.mul_cmd_q) /\ ~ e.wait_rpt => NoneWaits(z.mul_cmd_q)
      /\ WaitsForReport(x.mul_cmd_q) \/ e.wait_rpt => WaitsForReport(z.mul_cmd_q)
  BY <1>6, NodeFields, AppendedQueue
<1>8. Good(x, Outcome(y, "duplicate", {}), e.id)
  <2>1. NodeOk(x) => NodeOk(y)
    BY <1>1 DEF NodeOk, SameQueues
  <2>2. \A a \in SUBSET Ids, l \in SUBSET {"wait", "mul_cmd"} :
          NodeOk(x) /\ Ends(x, a, l) => Ends(y, a \cup {}, l)
    BY <1>1 DEF Ends, SameQueues
  <2> QED
    BY <1>1, <2>1, <2>2, GoodOutcome
<1>9. Good(x, Outcome(z, "queued", {}), e.id)
  <2>1. PutInQueue(x, z, e.id)
    BY <1>6 DEF PutInQueue
  <2>2. NodeOk(x) => NodeOk(z)
    BY <1>6, <1>7 DEF NodeOk
  <2>3. ASSUME NodeOk(x), e.wait_rpt
        PROVE  z.mul_cmd_tmr /\ WaitsForReport(z.mul_cmd_q)
    <3>1. ~ kind.sleep_cap
      BY <2>3 DEF ExecAssumption
    <3> QED
      BY <1>1, <1>6, <1>7, <2>3, <3>1 DEF NodeOk, MulQ
  <2>4. \A a \in SUBSET Ids, l \in SUBSET {"wait", "mul_cmd"} :
          NodeOk(x) /\ Ends(x, a, l) => Ends(z, a \cup {}, l)
    BY <1>1, <1>5, <1>6, <1>7, <2>3 DEF Ends
  <2> QED
    BY <1>6, <2>1, <2>2, <2>4, GoodOutcome
<1> QED
  BY <1>2, <1>3, <1>8, <1>9, OutcomeFields

Results == {"sent", "busy", "failed", "queued", "duplicate", "no_node", "too_large"}

LEMMA NoNode ==
  ASSUME NEW x \in NodeType, NEW id, NEW r \in {"no_node", "sent", "too_large"}
  PROVE  Good(x, Outcome(x, r, {}), id) /\ Outcome(x, r, {}).res = r
<1>1. Alike(x, x)
  BY DEF Alike
<1> QED
  BY <1>1, NothingDone, OutcomeFields

\* Everything that zwif_exec_ex may do with a command.
LEMMA ExecGood ==
  ASSUME ExecAssumption, kind \in Kinds, NEW x \in NodeType, NEW e \in Entry, ~ e.wait_rpt,
         NEW poll \in BOOLEAN, NEW o \in Exec(x, e, poll)
  PROVE  Good(x, o, e.id) /\ o.res \in Results
<1> DEFINE reset == IF poll THEN x ELSE [x EXCEPT !.cmd_num = 0]
           awaits == [x EXCEPT !.wait_rpt = e.what]
           resets == [reset EXCEPT !.wait_rpt = e.what]
           f == [e EXCEPT !.wait_rpt = TRUE]
<1>1. \/ ~ x.there /\ o = Outcome(x, "no_node", {})
      \/ x.there /\ kind.beam /\ o = WaitQueued(reset, e)
      \/ x.there /\ kind.beam /\ e.what \in Gets /\ Queues(x, e) /\ o = MulQueued(resets, f)
      \/ x.there /\ kind.beam /\ e.what \in Gets /\ o \in Send(awaits, e.id, TRUE)
      \/ x.there /\ Queues(x, e) /\ o = MulQueued(reset, e)
      \/ x.there /\ o \in Send(x, e.id, FALSE)
  BY DEF Exec
<1>2. reset \in NodeType /\ Alike(x, reset)
  BY DEF NodeType, Alike
<1>3. f \in Entry /\ f.id = e.id
  BY DEF Entry
<1>4. ASSUME e.what \in Gets
      PROVE  awaits \in NodeType /\ Alike(x, awaits)
  BY <1>4 DEF NodeType, Alike
<1> HIDE DEF f, awaits
<1>5. ASSUME e.what \in Gets
      PROVE  resets \in NodeType /\ Alike(x, resets)
  <2> HIDE DEF reset
  <2> QED
    BY <1>2, <1>5 DEF NodeType, Alike
<1> HIDE DEF reset, resets
<1>6. CASE ~ x.there /\ o = Outcome(x, "no_node", {})
  BY <1>6, NoNode DEF Results
<1>7. CASE kind.beam /\ o = WaitQueued(reset, e)
  <2>1. Good(reset, o, e.id) /\ o.res \in {"queued", "duplicate"}
    BY <1>2, <1>7, WaitQueuedGood
  <2> QED
    BY <1>2, <2>1, GoodAlike DEF Results
<1>8. CASE x.there /\ kind.beam /\ e.what \in Gets /\ Queues(x, e) /\ o = MulQueued(resets, f)
  <2>1. resets.there /\ MulQ(resets)
    BY <1>5, <1>8 DEF Alike, Queues, MulQ
  <2>2. Good(resets, o, f.id) /\ o.res \in {"queued", "duplicate"}
    BY <1>3, <1>5, <1>8, <2>1, MulQueuedGood
  <2> QED
    BY <1>3, <1>5, <1>8, <2>2, GoodAlike DEF Results
<1>9. CASE x.there /\ kind.beam /\ e.what \in Gets /\ o \in Send(awaits, e.id, TRUE)
  <2>1. awaits.there
    BY <1>4, <1>9 DEF Alike
  <2>2. Good(awaits, o, e.id) /\ o.res \in {"sent", "busy", "failed"}
    BY <1>4, <1>9, <2>1, SendGood
  <2> QED
    BY <1>4, <1>9, <2>2, GoodAlike DEF Results
<1>10. CASE x.there /\ Queues(x, e) /\ o = MulQueued(reset, e)
  <2>1. reset.there /\ MulQ(reset)
    BY <1>2, <1>10 DEF Alike, Queues, MulQ
  <2>2. Good(reset, o, e.id) /\ o.res \in {"queued", "duplicate"}
    BY <1>2, <1>10, <2>1, MulQueuedGood
  <2> QED
    BY <1>2, <2>2, GoodAlike DEF Results
<1>11. CASE x.there /\ o \in Send(x, e.id, FALSE)
  <2>1. Good(x, o, e.id) /\ o.res \in {"sent", "busy", "failed"}
    BY <1>11, SendGood
  <2> QED
    BY <2>1 DEF Results
<1> QED
  BY <1>1, <1>6, <1>7, <1>8, <1>9, <1>10, <1>11

\* A command that the thread of wait_cmd_q has taken.
LEMMA ExecEntryGood ==
  ASSUME ExecAssumption, kind \in Kinds, kind.beam, NEW x \in NodeType, NEW e \in Entry,
         NEW o \in ExecEntry(x, e)
  PROVE  Good(x, o, e.id) /\ o.res \in Results
<1> DEFINE y == IF e.what \in Gets THEN [x EXCEPT !.wait_rpt = e.what] ELSE x
           get == e.what \in Gets
           f == [e EXCEPT !.wait_rpt = get]
<1>1. \/ ~ x.there /\ o = Outcome(x, "no_node", {})
      \/ x.there /\ Queues(x, f) /\ o = MulQueued(y, f)
      \/ x.there /\ o \in Send(y, e.id, f.wait_rpt)
  BY DEF ExecEntry
<1>2. y \in NodeType /\ Alike(x, y)
  BY DEF NodeType, Alike
<1>3. f \in Entry /\ f.id = e.id /\ f.wait_rpt \in BOOLEAN
  <2>1. get \in BOOLEAN
    OBVIOUS
  <2> HIDE DEF get
  <2> QED
    BY <2>1 DEF Entry
<1> HIDE DEF y, f
<1>4. CASE ~ x.there /\ o = Outcome(x, "no_node", {})
  BY <1>4, NoNode DEF Results
<1>5. CASE x.there /\ Queues(x, f) /\ o = MulQueued(y, f)
  <2>1. y.there /\ MulQ(y)
    BY <1>2, <1>5 DEF Alike, Queues, MulQ
  <2>2. Good(y, o, f.id) /\ o.res \in {"queued", "duplicate"}
    BY <1>2, <1>3, <1>5, <2>1, MulQueuedGood
  <2> QED
    BY <1>2, <1>3, <2>2, GoodAlike DEF Results
<1>6. CASE x.there /\ o \in Send(y, e.id, f.wait_rpt)
  <2>1. y.there
    BY <1>2, <1>6 DEF Alike
  <2>2. Good(y, o, e.id) /\ o.res \in {"sent", "busy", "failed"}
    BY <1>2, <1>3, <1>6, <2>1, SendGood
  <2> QED
    BY <1>2, <2>2, GoodAlike DEF Results
<1> QED
  BY <1>1, <1>4, <1>5, <1>6

LEMMA ExecImdGood ==
  ASSUME NEW x \in NodeType, NEW e \in Entry, NEW wait_rpt \in BOOLEAN, wait_rpt => kind.beam,
         NEW o \in ExecImd(x, e, wait_rpt)
  PROVE  Good(x, o, e.id) /\ o.res \in Results \ {"queued", "duplicate"}
<1>1. \/ ~ x.there /\ o = Outcome(x, "no_node", {})
      \/ x.there /\ o \in Send(x, e.id, wait_rpt)
  BY DEF ExecImd
<1>2. CASE ~ x.there /\ o = Outcome(x, "no_node", {})
  BY <1>2, NoNode DEF Results
<1>3. CASE x.there /\ o \in Send(x, e.id, wait_rpt)
  BY <1>3, SendGood DEF Results
<1> QED
  BY <1>1, <1>2, <1>3

\* The last frame of a multi command holds commands of the queue.
LEMMA LastFrameInQueue ==
  ASSUME ExecAssumption, NEW q \in Seq(Entry), q # <<>>
  PROVE  LastFrame(q) \in Entry
<1> DEFINE m == Len(q) - 1
           d == m \div FrameMax
<1>1. Len(q) \in Nat /\ DOMAIN q = 1 .. Len(q) /\ Len(q) >= 1
  BY QueueFields
<1>2. FrameMax \in Nat \ {0} /\ m \in Nat
  BY <1>1 DEF ExecAssumption
<1> HIDE DEF m
<1>3. d \in Nat /\ FrameMax * d <= m /\ FrameMax * d \in Nat
  BY <1>2, Z3
<1> HIDE DEF d
<1>4. FrameMax * d + 1 \in DOMAIN q
  BY <1>1, <1>2, <1>3 DEF m
<1>5. LastFrame(q) = q[FrameMax * d + 1]
  BY DEF LastFrame, d, m
<1> QED
  BY <1>4, <1>5, QueueFields

\* A transmission that waits for a report has a status, or takes the flag back.
LEMMA SendEnds ==
  ASSUME NEW x \in NodeType, NEW id, NEW o \in Send(x, id, TRUE)
  PROVE  o.air # {} \/ ~ o.node.wait_rpt_flg
<1> DEFINE y == [x EXCEPT !.wait_rpt_flg = @ \/ TRUE]
<1>1. \/ o = Outcome(y, "sent", {id})
      \/ \E r \in {"busy", "failed"} : o = Outcome(WaitRptTmout(y), r, {})
  BY DEF Send
<1>2. y \in NodeType
  BY NodeFields DEF NodeType
<1> HIDE DEF y
<1>3. ~ WaitRptTmout(y).wait_rpt_flg
  BY <1>2, WaitRptTmoutNode
<1> QED
  BY <1>1, <1>3, OutcomeFields

\* A queue is sent: its GET waits for the status of its transmission.
LEMMA MulCmdSendGood ==
  ASSUME ExecAssumption, NEW x \in NodeType, NEW q \in Seq(Entry),
         WaitsForReport(q) => kind.beam, NEW o \in MulCmdSend(x, q)
  PROVE  /\ o.node \in NodeType /\ o.air \subseteq Ids /\ SameQueues(x, o.node) /\ Right(x, o)
         /\ WaitsForReport(q) => ~ x.there \/ o.air # {} \/ ~ o.node.wait_rpt_flg
<1>1. CASE q = <<>>
  <2>1. o = Outcome(x, "sent", {}) /\ ~ WaitsForReport(q)
    BY <1>1, EmptyQueue DEF MulCmdSend
  <2>2. Good(x, o, 0) /\ o.res = "sent" /\ o.air = {}
    BY <2>1, NoNode, OutcomeFields
  <2> QED
    BY <2>1, <2>2 DEF Good, Typed, Placed
<1>2. CASE q # <<>>
  <2> DEFINE e == LastFrame(q)
             b == WaitsForReport(q)
  <2>1. e \in Entry /\ e.id \in Ids
    BY <1>2, LastFrameInQueue DEF Entry
  <2>2. b \in BOOLEAN /\ (b => kind.beam)
    BY DEF WaitsForReport
  <2>3. o \in ExecImd(x, e, b)
    BY <1>2 DEF MulCmdSend
  <2> HIDE DEF e, b
  <2>4. Good(x, o, e.id) /\ o.res # "queued"
    BY <2>1, <2>2, <2>3, ExecImdGood
  <2>5. ASSUME b, x.there
        PROVE  o.air # {} \/ ~ o.node.wait_rpt_flg
    <3>1. o \in Send(x, e.id, TRUE)
      BY <2>2, <2>3, <2>5 DEF ExecImd
    <3> QED
      BY <3>1, SendEnds
  <2> QED
    BY <2>1, <2>4, <2>5 DEF Good, Typed, Placed, b
<1> QED
  BY <1>1, <1>2

---------------------------------------------------------------------------
(* What a step leaves as it is.                                            *)

\* The queues, the threads' commands and the two sets do not change.
LEMMA QuietPlaces ==
  ASSUME PlacesInv, n'.wait_cmd_q = n.wait_cmd_q, n'.mul_cmd_q = n.mul_cmd_q,
         wait_q_thrd'.cmd = wait_q_thrd.cmd, UNCHANGED <<cmd_q_thrd, cmd_q_req, done, taken, calls>>
  PROVE  PlacesInv'
<1>1. /\ Waiting' = Waiting /\ BeingSent' = BeingSent /\ Mul' = Mul
      /\ BeingWorkedOff' = BeingWorkedOff /\ AllRequested' = AllRequested
  BY DEF Waiting, BeingSent, Mul, BeingWorkedOff, AllRequested, Requested
<1>2. QueuesDistinct'
  BY DEF PlacesInv, QueuesDistinct
<1>3. NoneLost' /\ TakenAreOld'
  BY <1>1 DEF PlacesInv, NoneLost, AllPlaces, TakenAreOld
<1>4. InOnePlace'
  BY <1>1 DEF PlacesInv, InOnePlace, AllApart, Requested
<1> QED
  BY <1>2, <1>3, <1>4 DEF PlacesInv

\* The requests for the thread of mul_cmd_q do not change, and the other places are right.
LEMMA RequestsKept ==
  ASSUME PlacesInv, UNCHANGED cmd_q_req,
         Distinct(n'.wait_cmd_q), Distinct(n'.mul_cmd_q), Distinct(cmd_q_thrd'),
         AllApart(Waiting', BeingSent', Mul', BeingWorkedOff', done', AllRequested)
  PROVE  QueuesDistinct' /\ InOnePlace' /\ AllRequested' = AllRequested
<1>1. AllRequested' = AllRequested
  BY DEF AllRequested, Requested
<1>2. QueuesDistinct'
  BY DEF PlacesInv, QueuesDistinct
<1>3. InOnePlace'
  BY <1>1 DEF PlacesInv, InOnePlace, Requested
<1> QED
  BY <1>1, <1>2, <1>3

LEMMA SameEnd ==
  ASSUME UNCHANGED <<air, late>>, WaitEnds,
         n'.wait_rpt_flg => n.wait_rpt_flg,
         n'.wait_tmr = n.wait_tmr, n'.mul_cmd_tmr = n.mul_cmd_tmr, n'.mul_cmd_q = n.mul_cmd_q
  PROVE  WaitEnds'
BY DEF WaitEnds

LEMMA ThreadsKept ==
  ASSUME ThreadsOk, UNCHANGED <<kind, cmd_q_req>>, wait_q_thrd'.cmd = wait_q_thrd.cmd
  PROVE  ThreadsOk'
BY DEF ThreadsOk

---------------------------------------------------------------------------
(* The steps.                                                              *)

LEMMA StutterKept ==
  ASSUME ExecInv, UNCHANGED exec_vars
  PROVE  ExecInv'
<1>1. ExecTypeOK'
  BY DEF ExecInv, ExecTypeOK, exec_vars
<1>2. PlacesInv'
  BY QuietPlaces DEF ExecInv, exec_vars
<1>3. WaitInv'
  BY ThreadsKept DEF ExecInv, WaitInv, NodeOk, WaitEnds, exec_vars
<1> QED
  BY <1>1, <1>2, <1>3 DEF ExecInv

LEMMA CmdIdSetKept ==
  ASSUME ExecInv, NEW w \in Commands, CmdIdSet(w)
  PROVE  ExecInv'
<1>1. n \in NodeType
  BY DEF ExecInv, ExecTypeOK
<1>2. /\ n' \in NodeType /\ n'.wait_cmd_q = n.wait_cmd_q /\ n'.mul_cmd_q = n.mul_cmd_q
      /\ n'.there = n.there /\ n'.enable_cmd_q = n.enable_cmd_q /\ n'.wait_rpt_flg = n.wait_rpt_flg
      /\ n'.wait_tmr = n.wait_tmr /\ n'.mul_cmd_tmr = n.mul_cmd_tmr
  <2>1. n' = [n EXCEPT !.cmd_num = 1]
    BY DEF CmdIdSet
  <2> QED
    BY <1>1, <2>1 DEF NodeType
<1>3. UNCHANGED <<kind, air, late, wait_q_thrd, cmd_q_thrd, cmd_q_req, calls, ctls, taken, done>>
  BY DEF CmdIdSet
<1>4. ExecTypeOK'
  BY <1>2, <1>3 DEF ExecInv, ExecTypeOK, CmdIdSet
<1>5. PlacesInv'
  BY <1>2, <1>3, QuietPlaces DEF ExecInv
<1>6. NodeOk(n)' /\ (NothingTaken => WaitEnds')
  BY <1>2, <1>3, SameEnd DEF ExecInv, WaitInv, NodeOk
<1>7. ThreadsOk'
  BY <1>3, ThreadsKept DEF ExecInv, WaitInv
<1> QED
  BY <1>4, <1>5, <1>6, <1>7 DEF ExecInv, WaitInv

\* A wait ends.
LEMMA TmoutKept ==
  ASSUME ExecInv, n' = WaitRptTmout(n), air' \subseteq air, late' \subseteq late,
         UNCHANGED <<kind, named, wait_q_thrd, cmd_q_thrd, cmd_q_req, calls, ctls, taken, done>>
  PROVE  ExecInv'
<1>1. n \in NodeType
  BY DEF ExecInv, ExecTypeOK
<1>2. /\ n' \in NodeType /\ n'.wait_cmd_q = n.wait_cmd_q /\ n'.mul_cmd_q = n.mul_cmd_q
      /\ n'.there = n.there /\ n'.enable_cmd_q = n.enable_cmd_q /\ ~ n'.wait_rpt_flg
  BY <1>1, WaitRptTmoutNode
<1>3. ExecTypeOK'
  BY <1>2 DEF ExecInv, ExecTypeOK
<1>4. PlacesInv'
  BY <1>2, QuietPlaces DEF ExecInv
<1>5. NodeOk(n)' /\ WaitEnds'
  BY <1>2 DEF ExecInv, WaitInv, NodeOk, WaitEnds
<1>6. ThreadsOk'
  BY ThreadsKept DEF ExecInv, WaitInv
<1> QED
  BY <1>3, <1>4, <1>5, <1>6 DEF ExecInv, WaitInv

LEMMA ReportKept ==
  ASSUME ExecInv, NEW w \in Commands, Report(w)
  PROVE  ExecInv'
BY TmoutKept DEF Report

LEMMA WaitRptTmoutCbKept ==
  ASSUME ExecInv, WaitRptTmoutCb
  PROVE  ExecInv'
<1>1. late' \subseteq late
  BY DEF WaitRptTmoutCb
<1> QED
  BY <1>1, TmoutKept DEF WaitRptTmoutCb

\* A status ends the wait or starts its timer.
LEMMA WaitTxCbKept ==
  ASSUME ExecInv, NEW id, NEW ok, WaitTxCb(id, ok)
  PROVE  ExecInv'
<1>1. /\ n \in NodeType /\ air' \subseteq air
      /\ UNCHANGED <<kind, late, named, wait_q_thrd, cmd_q_thrd, cmd_q_req, calls, ctls, taken, done>>
  BY DEF ExecInv, ExecTypeOK, WaitTxCb
<1>2. CASE n' = WaitRptTmout(n)
  BY <1>1, <1>2, TmoutKept
<1>3. CASE ~ n.there /\ n' = n
  <2>1. ~ n.wait_rpt_flg
    BY <1>3 DEF ExecInv, WaitInv, NodeOk
  <2>2. ExecTypeOK'
    BY <1>1, <1>3 DEF ExecInv, ExecTypeOK
  <2>3. PlacesInv'
    BY <1>1, <1>3, QuietPlaces DEF ExecInv
  <2>4. NodeOk(n)' /\ WaitEnds'
    BY <1>1, <1>3, <2>1 DEF ExecInv, WaitInv, NodeOk, WaitEnds
  <2>5. ThreadsOk'
    BY <1>1, ThreadsKept DEF ExecInv, WaitInv
  <2> QED
    BY <2>2, <2>3, <2>4, <2>5 DEF ExecInv, WaitInv
<1>4. CASE n' = [n EXCEPT !.wait_tmr = TRUE]
  <2>1. /\ n' \in NodeType /\ n'.wait_cmd_q = n.wait_cmd_q /\ n'.mul_cmd_q = n.mul_cmd_q
        /\ n'.there = n.there /\ n'.enable_cmd_q = n.enable_cmd_q
        /\ n'.wait_rpt_flg = n.wait_rpt_flg /\ n'.wait_tmr
    BY <1>1, <1>4 DEF NodeType
  <2>2. ExecTypeOK'
    BY <1>1, <2>1 DEF ExecInv, ExecTypeOK
  <2>3. PlacesInv'
    BY <1>1, <2>1, QuietPlaces DEF ExecInv
  <2>4. NodeOk(n)' /\ WaitEnds'
    BY <1>1, <2>1 DEF ExecInv, WaitInv, NodeOk, WaitEnds
  <2>5. ThreadsOk'
    BY <1>1, ThreadsKept DEF ExecInv, WaitInv
  <2> QED
    BY <2>2, <2>3, <2>4, <2>5 DEF ExecInv, WaitInv
<1> QED
  BY <1>2, <1>3, <1>4 DEF WaitTxCb

\* A timer expires: its callback waits for the lock.
LEMMA TmrExpiresKept ==
  ASSUME ExecInv, WaitTmrExpires \/ MulCmdTmrExpires
  PROVE  ExecInv'
<1>1. /\ n \in NodeType /\ late' \subseteq {"wait", "mul_cmd"}
      /\ UNCHANGED <<kind, air, named, wait_q_thrd, cmd_q_thrd, cmd_q_req, calls, ctls, taken, done>>
  BY DEF ExecInv, ExecTypeOK, WaitTmrExpires, MulCmdTmrExpires
<1>2. /\ n' \in NodeType /\ n'.wait_cmd_q = n.wait_cmd_q /\ n'.mul_cmd_q = n.mul_cmd_q
      /\ n'.there = n.there /\ n'.enable_cmd_q = n.enable_cmd_q
      /\ n'.wait_rpt_flg = n.wait_rpt_flg
  BY <1>1 DEF NodeType, WaitTmrExpires, MulCmdTmrExpires
<1>3. ExecTypeOK'
  BY <1>1, <1>2 DEF ExecInv, ExecTypeOK
<1>4. PlacesInv'
  BY <1>1, <1>2, QuietPlaces DEF ExecInv
<1>5. NodeOk(n)'
  BY <1>1, <1>2 DEF ExecInv, WaitInv, NodeOk
<1>6. NothingTaken => WaitEnds'
  <2>1. CASE WaitTmrExpires
    BY <1>1, <1>2, <2>1 DEF ExecInv, WaitInv, WaitEnds, WaitTmrExpires
  <2>2. CASE MulCmdTmrExpires
    <3>1. n'.wait_tmr = n.wait_tmr /\ "mul_cmd" \in late' /\ late \subseteq late'
      BY <1>1, <2>2 DEF MulCmdTmrExpires, NodeType
    <3> QED
      BY <1>1, <1>2, <3>1 DEF ExecInv, WaitInv, WaitEnds
  <2> QED
    BY <2>1, <2>2
<1>7. ThreadsOk'
  BY <1>1, ThreadsKept DEF ExecInv, WaitInv
<1> QED
  BY <1>3, <1>4, <1>5, <1>6, <1>7 DEF ExecInv, WaitInv

LEMMA WaitQRequestKept ==
  ASSUME ExecInv, WaitQRequest
  PROVE  ExecInv'
<1>1. /\ n \in NodeType
      /\ UNCHANGED <<kind, air, late, named, cmd_q_thrd, cmd_q_req, calls, ctls, taken, done>>
  BY DEF ExecInv, ExecTypeOK, WaitQRequest
<1>2. /\ n' \in NodeType /\ n'.wait_cmd_q = n.wait_cmd_q /\ n'.mul_cmd_q = n.mul_cmd_q
      /\ n'.there = n.there /\ n'.enable_cmd_q = n.enable_cmd_q /\ n'.wait_rpt_flg = n.wait_rpt_flg
      /\ n'.wait_tmr = n.wait_tmr /\ n'.mul_cmd_tmr = n.mul_cmd_tmr
  BY <1>1 DEF NodeType, WaitQRequest
<1>3. wait_q_thrd.cmd = <<>>
  BY EmptySeq DEF ExecInv, ExecTypeOK, WaitQRequest
<1>4. wait_q_thrd' = [at |-> "serve", cmd |-> <<>>, retry_cnt |-> 0]
  BY DEF WaitQRequest, Serving, Idle
<1>5. ExecTypeOK'
  BY <1>1, <1>2, <1>4, EmptySeq DEF ExecInv, ExecTypeOK
<1>6. PlacesInv'
  BY <1>1, <1>2, <1>3, <1>4, QuietPlaces DEF ExecInv
<1>7. NodeOk(n)' /\ (NothingTaken => WaitEnds')
  BY <1>1, <1>2, SameEnd DEF ExecInv, WaitInv, NodeOk
<1>8. ThreadsOk'
  BY <1>1, <1>3, <1>4, ThreadsKept DEF ExecInv, WaitInv
<1> QED
  BY <1>5, <1>6, <1>7, <1>8 DEF ExecInv, WaitInv

\* An outcome becomes the node.
LEMMA RightKept ==
  ASSUME ExecTypeOK, WaitInv, NEW o, Right(n, o), n' = o.node, air' = air \cup o.air,
         UNCHANGED <<kind, late>>
  PROVE  NodeOk(n)' /\ (NothingTaken => WaitEnds')
<1>1. NodeOk(n) /\ NodeOk(o.node)
  BY DEF WaitInv, Right
<1>2. NodeOk(n)'
  BY <1>1 DEF NodeOk
<1>3. ASSUME NothingTaken
      PROVE  WaitEnds'
  <2>1. air \in SUBSET Ids /\ late \in SUBSET {"wait", "mul_cmd"} /\ Ends(n, air, late)
    BY <1>3 DEF ExecTypeOK, WaitInv, WaitEnds, Ends
  <2>2. \A a \in SUBSET Ids, l \in SUBSET {"wait", "mul_cmd"} :
          NodeOk(n) /\ Ends(n, a, l) => Ends(o.node, a \cup o.air, l)
    BY DEF Right
  <2>3. Ends(o.node, air \cup o.air, late)
    BY <1>1, <2>1, <2>2
  <2>4. Ends(n', air', late')
    BY <2>3
  <2> QED
    BY <2>4 DEF Ends, WaitEnds
<1> QED
  BY <1>2, <1>3

\* What zwif_exec_ex comes to: the command's identifier is a new one.
LEMMA CalledKept ==
  ASSUME ExecInv, ExecAssumption, calls < MaxCalls, NEW o, Good(n, o, calls + 1), o.res \in Results,
         calls' = calls + 1, n' = o.node, air' = air \cup o.air,
         taken' = IF o.res \in {"sent", "queued"} THEN taken \cup {calls + 1} ELSE taken,
         done' = IF o.res = "sent" THEN done \cup {calls + 1} ELSE done,
         UNCHANGED <<kind, late, wait_q_thrd, cmd_q_thrd, cmd_q_req, ctls>>,
         named' \in Commands \cup {NoCommand}
  PROVE  ExecInv'
<1> DEFINE k == calls + 1
<1>1. /\ calls \in Nat /\ MaxCalls \in Nat /\ taken \subseteq Ids /\ done \subseteq taken
      /\ air \subseteq Ids /\ n \in NodeType
      /\ \A id \in taken : id \in Nat /\ id <= calls
  BY DEF ExecInv, ExecTypeOK, PlacesInv, TakenAreOld, ExecAssumption, Ids
<1>2. k \in Ids /\ k \notin taken /\ \A id \in taken \cup {k} : id <= calls'
  <2>1. k \in Nat /\ calls < k /\ calls' = k /\ k \in Ids
    BY <1>1 DEF Ids
  <2>2. ASSUME NEW id \in taken
        PROVE  id # k /\ id <= k
    BY <1>1, <2>1
  <2> QED
    BY <2>1, <2>2
<1>3. o.node \in NodeType /\ o.air \subseteq {k} /\ Placed(n, o, k) /\ Right(n, o)
  BY DEF Good, Typed
<1>4. calls' = k
  OBVIOUS
<1>5. calls' \in 0 .. MaxCalls
  BY <1>1
<1>6. /\ taken' = IF o.res \in {"sent", "queued"} THEN taken \cup {k} ELSE taken
      /\ done' = IF o.res = "sent" THEN done \cup {k} ELSE done
  OBVIOUS
<1> HIDE DEF k
<1>7. ExecTypeOK'
  BY <1>1, <1>2, <1>3, <1>5, <1>6 DEF ExecInv, ExecTypeOK
<1>8. TakenAreOld'
  BY <1>2, <1>6 DEF TakenAreOld
<1>9. BeingSent' = BeingSent /\ BeingWorkedOff' = BeingWorkedOff /\ Distinct(cmd_q_thrd')
  BY DEF BeingSent, BeingWorkedOff, ExecInv, PlacesInv, QueuesDistinct
<1>10. PlacesInv'
  <2>1. CASE o.res = "queued"
    <3>1. PICK e \in Entry :
            /\ e.id = k
            /\ \/ n'.wait_cmd_q = Append(n.wait_cmd_q, e) /\ n'.mul_cmd_q = n.mul_cmd_q
               \/ n'.mul_cmd_q = Append(n.mul_cmd_q, e) /\ n'.wait_cmd_q = n.wait_cmd_q
      BY <1>3, <2>1 DEF Placed, PutInQueue
    <3>2. /\ n.wait_cmd_q \in Seq(Entry) /\ n.mul_cmd_q \in Seq(Entry)
          /\ Distinct(n.wait_cmd_q) /\ Distinct(n.mul_cmd_q)
          /\ k \notin Waiting /\ k \notin Mul
      BY <1>1, <1>2, NodeFields DEF ExecInv, PlacesInv, QueuesDistinct, NoneLost, AllPlaces
    <3>3. taken' = taken \cup {k} /\ done' = done
      BY <1>6, <2>1
    <3>4. CASE n'.wait_cmd_q = Append(n.wait_cmd_q, e) /\ n'.mul_cmd_q = n.mul_cmd_q
      <4>1. Waiting' = Waiting \cup {k} /\ Mul' = Mul /\ Distinct(n'.wait_cmd_q) /\ Distinct(n'.mul_cmd_q)
        BY <3>1, <3>2, <3>4, AppendedQueue DEF Waiting, Mul
      <4>2. AllApart(Waiting', BeingSent', Mul', BeingWorkedOff', done', AllRequested)
        BY <1>2, <1>9, <3>3, <4>1 DEF ExecInv, PlacesInv, InOnePlace, NoneLost, AllPlaces, AllApart, Apart
      <4>3. QueuesDistinct' /\ InOnePlace' /\ AllRequested' = AllRequested
        BY <1>9, <4>1, <4>2, RequestsKept DEF ExecInv
      <4>4. NoneLost'
        BY <1>9, <3>3, <4>1, <4>3 DEF ExecInv, PlacesInv, NoneLost, AllPlaces
      <4> QED
        BY <1>8, <4>3, <4>4 DEF PlacesInv
    <3>5. CASE n'.mul_cmd_q = Append(n.mul_cmd_q, e) /\ n'.wait_cmd_q = n.wait_cmd_q
      <4>1. Mul' = Mul \cup {k} /\ Waiting' = Waiting /\ Distinct(n'.wait_cmd_q) /\ Distinct(n'.mul_cmd_q)
        BY <3>1, <3>2, <3>5, AppendedQueue DEF Waiting, Mul
      <4>2. AllApart(Waiting', BeingSent', Mul', BeingWorkedOff', done', AllRequested)
        BY <1>2, <1>9, <3>3, <4>1 DEF ExecInv, PlacesInv, InOnePlace, NoneLost, AllPlaces, AllApart, Apart
      <4>3. QueuesDistinct' /\ InOnePlace' /\ AllRequested' = AllRequested
        BY <1>9, <4>1, <4>2, RequestsKept DEF ExecInv
      <4>4. NoneLost'
        BY <1>9, <3>3, <4>1, <4>3 DEF ExecInv, PlacesInv, NoneLost, AllPlaces
      <4> QED
        BY <1>8, <4>3, <4>4 DEF PlacesInv
    <3> QED
      BY <3>1, <3>4, <3>5
  <2>2. CASE o.res # "queued"
    <3>1. Waiting' = Waiting /\ Mul' = Mul /\ Distinct(n'.wait_cmd_q) /\ Distinct(n'.mul_cmd_q)
      BY <1>3, <2>2 DEF Placed, SameQueues, Waiting, Mul, ExecInv, PlacesInv, QueuesDistinct
    <3>2. (taken' = taken /\ done' = done) \/ (taken' = taken \cup {k} /\ done' = done \cup {k})
      BY <1>6, <2>2
    <3>3. AllApart(Waiting', BeingSent', Mul', BeingWorkedOff', done', AllRequested)
      BY <1>2, <1>9, <3>1, <3>2 DEF ExecInv, PlacesInv, InOnePlace, NoneLost, AllPlaces, AllApart, Apart
    <3>4. QueuesDistinct' /\ InOnePlace' /\ AllRequested' = AllRequested
      BY <1>9, <3>1, <3>3, RequestsKept DEF ExecInv
    <3>5. NoneLost'
      BY <1>9, <3>1, <3>2, <3>4 DEF ExecInv, PlacesInv, NoneLost, AllPlaces
    <3> QED
      BY <1>8, <3>4, <3>5 DEF PlacesInv
  <2> QED
    BY <2>1, <2>2
<1>11. WaitInv'
  BY <1>3, RightKept, ThreadsKept DEF ExecInv, WaitInv
<1> QED
  BY <1>7, <1>10, <1>11 DEF ExecInv

LEMMA CalledOutcome ==
  ASSUME ExecInv, ExecAssumption, calls < MaxCalls, NEW outcomes, Called(outcomes),
         \A o \in outcomes : Good(n, o, calls + 1) /\ o.res \in Results,
         UNCHANGED <<kind, late, wait_q_thrd, cmd_q_thrd, cmd_q_req, ctls>>,
         named' \in Commands \cup {NoCommand}
  PROVE  ExecInv'
<1>1. PICK o \in outcomes :
        /\ calls' = calls + 1 /\ n' = o.node /\ air' = air \cup o.air
        /\ taken' = IF o.res \in {"sent", "queued"} THEN taken \cup {calls + 1} ELSE taken
        /\ done' = IF o.res = "sent" THEN done \cup {calls + 1} ELSE done
  BY DEF Called
<1> QED
  BY <1>1, CalledKept

\* A new command of any kind, by any caller.
LEMMA NewCommand ==
  ASSUME ExecInv, ExecAssumption, calls < MaxCalls, NEW w \in Commands, NEW k \in 0 .. 1,
         NEW poll \in BOOLEAN, NEW o \in Exec(n, NewEntry(w, k), poll)
  PROVE  Good(n, o, calls + 1) /\ o.res \in Results
<1> DEFINE e == NewEntry(w, k)
<1>1. calls + 1 \in Ids
  BY DEF ExecInv, ExecTypeOK, ExecAssumption, Ids
<1>2. e \in Entry /\ ~ e.wait_rpt /\ e.id = calls + 1
  BY <1>1 DEF NewEntry, Entry
<1>3. n \in NodeType /\ kind \in Kinds
  BY DEF ExecInv, ExecTypeOK
<1>4. o \in Exec(n, e, poll)
  OBVIOUS
<1> HIDE DEF e
<1>5. Good(n, o, e.id) /\ o.res \in Results
  BY <1>2, <1>3, <1>4, ExecGood
<1> QED
  BY <1>2, <1>5

LEMMA LibExecKept ==
  ASSUME ExecInv, ExecAssumption, NEW w \in Commands, LibExec(w)
  PROVE  ExecInv'
<1>1. n.cmd_num \in 0 .. 1 /\ named \in Commands \cup {NoCommand}
  BY NodeFields DEF ExecInv, ExecTypeOK
<1>2. \A o \in Exec(n, NewEntry(w, n.cmd_num), FALSE) : Good(n, o, calls + 1) /\ o.res \in Results
  BY <1>1, NewCommand DEF LibExec
<1> QED
  BY <1>1, <1>2, CalledOutcome DEF LibExec

LEMMA PollExecKept ==
  ASSUME ExecInv, ExecAssumption, NEW w \in Commands, PollExec(w)
  PROVE  ExecInv'
<1>1. named \in Commands \cup {NoCommand}
  BY DEF ExecInv, ExecTypeOK
<1>2. \A o \in Exec(n, NewEntry(w, 1), TRUE) : Good(n, o, calls + 1) /\ o.res \in Results
  <2>1. calls < MaxCalls /\ 1 \in 0 .. 1 /\ TRUE \in BOOLEAN
    BY DEF PollExec
  <2> QED
    BY <2>1, NewCommand
<1> QED
  BY <1>1, <1>2, CalledOutcome DEF PollExec

LEMMA ApiExecKept ==
  ASSUME ExecInv, ExecAssumption, ApiExec
  PROVE  ExecInv'
<1>1. n \in NodeType /\ n.cmd_num \in 0 .. 1 /\ named \in Commands
  BY NodeFields DEF ExecInv, ExecTypeOK, ApiExec
<1>2. \A o \in Exec(n, NewEntry(named, n.cmd_num), FALSE) : Good(n, o, calls + 1) /\ o.res \in Results
  BY <1>1, NewCommand DEF ApiExec
<1>3. \A o \in TooLarge(named) : Good(n, o, calls + 1) /\ o.res \in Results
  <2>1. Good(n, Outcome(n, "too_large", {}), calls + 1) /\ Outcome(n, "too_large", {}).res \in Results
    BY <1>1, NoNode DEF Results
  <2> QED
    BY <2>1 DEF TooLarge
<1>4. \A o \in Exec(n, NewEntry(named, n.cmd_num), FALSE) \cup TooLarge(named) :
        Good(n, o, calls + 1) /\ o.res \in Results
  BY <1>2, <1>3
<1> QED
  BY <1>4, CalledOutcome DEF ApiExec

---------------------------------------------------------------------------
(* The thread of wait_cmd_q.                                               *)

LEMMA WaitQTakeKept ==
  ASSUME ExecInv, WaitQTake
  PROVE  ExecInv'
<1>1. /\ n \in NodeType /\ wait_q_thrd.at = "serve"
      /\ UNCHANGED <<kind, air, late, named, cmd_q_thrd, cmd_q_req, calls, ctls, taken, done>>
  BY DEF ExecInv, ExecTypeOK, WaitQTake
<1>2. wait_q_thrd.cmd = <<>> /\ BeingSent = {}
  <2>1. wait_q_thrd.cmd = <<>>
    BY <1>1, EmptySeq DEF ExecInv, ExecTypeOK
  <2> QED
    BY <2>1, EmptyQueue DEF BeingSent
<1>3. CASE wait_q_thrd' = Idle /\ UNCHANGED n
  <2>1. wait_q_thrd' = [at |-> "idle", cmd |-> <<>>, retry_cnt |-> 0]
    BY <1>3 DEF Idle
  <2>2. ExecTypeOK'
    BY <1>1, <1>3, <2>1, EmptySeq DEF ExecInv, ExecTypeOK
  <2>3. PlacesInv'
    BY <1>1, <1>2, <1>3, <2>1, QuietPlaces DEF ExecInv
  <2>4. NodeOk(n)' /\ (NothingTaken => WaitEnds')
    BY <1>1, <1>3, SameEnd DEF ExecInv, WaitInv, NodeOk
  <2>5. ThreadsOk'
    BY <1>1, <1>2, <2>1, ThreadsKept DEF ExecInv, WaitInv
  <2> QED
    BY <2>2, <2>3, <2>4, <2>5 DEF ExecInv, WaitInv
<1>4. CASE /\ n.wait_cmd_q # <<>>
           /\ wait_q_thrd' = [at |-> "send", cmd |-> <<Head(n.wait_cmd_q)>>, retry_cnt |-> 2]
           /\ n' = [n EXCEPT !.wait_cmd_q = Tail(@)]
  <2> DEFINE e == Head(n.wait_cmd_q)
  <2>1. /\ n.wait_cmd_q \in Seq(Entry) /\ Distinct(n.wait_cmd_q) /\ Distinct(n.mul_cmd_q)
        /\ Distinct(cmd_q_thrd)
    BY <1>1, NodeFields DEF ExecInv, PlacesInv, QueuesDistinct
  <2>2. e \in Entry /\ Tail(n.wait_cmd_q) \in Seq(Entry)
    BY <1>4, <2>1, QueueFields
  <2>3. /\ n' \in NodeType /\ n'.wait_cmd_q = Tail(n.wait_cmd_q) /\ n'.mul_cmd_q = n.mul_cmd_q
        /\ n'.there = n.there /\ n'.enable_cmd_q = n.enable_cmd_q /\ n'.wait_rpt_flg = n.wait_rpt_flg
        /\ n'.wait_tmr = n.wait_tmr /\ n'.mul_cmd_tmr = n.mul_cmd_tmr
    BY <1>1, <1>4, <2>2 DEF NodeType
  <2>4. e.id \in Waiting /\ Waiting' = Waiting \ {e.id} /\ Distinct(n'.wait_cmd_q)
    BY <1>4, <2>1, <2>3, TailOfQueue DEF Waiting
  <2>5. wait_q_thrd' = [at |-> "send", cmd |-> <<e>>, retry_cnt |-> 2]
    BY <1>4
  <2> HIDE DEF e
  <2>6. <<e>> \in Seq(Entry) /\ Len(<<e>>) = 1 /\ DOMAIN <<e>> = {1} /\ <<e>>[1] = e
    BY <2>2
  <2>7. BeingSent' = {e.id}
    BY <2>5, <2>6 DEF BeingSent, SeqIds
  <2>8. ExecTypeOK'
    BY <1>1, <2>3, <2>5, <2>6 DEF ExecInv, ExecTypeOK
  <2>9. Mul' = Mul /\ BeingWorkedOff' = BeingWorkedOff
    BY <1>1, <2>3 DEF Mul, BeingWorkedOff
  <2>10. AllApart(Waiting', BeingSent', Mul', BeingWorkedOff', done', AllRequested)
    BY <1>1, <2>4, <2>7, <2>9 DEF ExecInv, PlacesInv, InOnePlace, AllApart, Apart
  <2>11. QueuesDistinct' /\ InOnePlace' /\ AllRequested' = AllRequested
    BY <1>1, <2>1, <2>3, <2>4, <2>10, RequestsKept DEF ExecInv
  <2>12. NoneLost' /\ TakenAreOld'
    BY <1>1, <1>2, <2>4, <2>7, <2>9, <2>11 DEF ExecInv, PlacesInv, NoneLost, AllPlaces, TakenAreOld
  <2>13. NodeOk(n)' /\ (NothingTaken => WaitEnds')
    BY <1>1, <1>4, <2>3, SameEnd DEF ExecInv, WaitInv, NodeOk
  <2>14. ThreadsOk'
    BY <1>1, <1>4 DEF ExecInv, WaitInv, ThreadsOk, NodeOk
  <2> QED
    BY <2>8, <2>11, <2>12, <2>13, <2>14 DEF ExecInv, PlacesInv, WaitInv
<1> QED
  BY <1>3, <1>4 DEF WaitQTake

\* The command goes to one place: it is done with, it is in mul_cmd_q, or it is tried again.
LEMMA WaitQSendKept ==
  ASSUME ExecInv, ExecAssumption, WaitQSend
  PROVE  ExecInv'
<1> DEFINE t == wait_q_thrd
           e == t.cmd[1]
<1>1. /\ n \in NodeType /\ kind \in Kinds /\ air \subseteq Ids /\ t.at = "send"
      /\ t.cmd \in Seq(Entry) /\ Len(t.cmd) = 1 /\ t.retry_cnt \in 0 .. 2
      /\ t \in [at : {"idle", "serve", "send"}, cmd : Seq(Entry), retry_cnt : 0 .. 2]
      /\ UNCHANGED <<kind, late, named, cmd_q_thrd, cmd_q_req, calls, ctls, taken>>
  BY DEF ExecInv, ExecTypeOK, WaitQSend
<1>2. DOMAIN t.cmd = {1} /\ e \in Entry /\ e.id \in Ids
  <2>1. DOMAIN t.cmd = 1 .. 1 /\ \A i \in DOMAIN t.cmd : t.cmd[i] \in Entry /\ t.cmd[i].id \in Ids
    BY <1>1, QueueFields
  <2> QED
    BY <2>1
<1>3. kind.beam
  <2>1. t.cmd # <<>>
    BY <1>1
  <2> QED
    BY <2>1 DEF ExecInv, WaitInv, ThreadsOk
<1>4. BeingSent = {e.id}
  BY <1>2 DEF BeingSent, SeqIds
<1>5. PICK o \in ExecEntry(n, e) :
        /\ n' = o.node /\ air' = air \cup o.air /\ wait_q_thrd' = AfterSend(t, o)
        /\ done' = IF wait_q_thrd'.at = "send" \/ o.res = "queued" THEN done ELSE done \cup {e.id}
  BY DEF WaitQSend
<1>6. Good(n, o, e.id) /\ o.res \in Results
  BY <1>1, <1>2, <1>3, <1>5, ExecEntryGood
<1>7. o.node \in NodeType /\ o.air \subseteq Ids /\ Placed(n, o, e.id) /\ Right(n, o)
  BY <1>2, <1>6 DEF Good, Typed
<1> HIDE DEF e
<1>8. \/ wait_q_thrd' \in {Idle, Serving}
      \/ o.res = "busy" /\ t.retry_cnt > 1 /\ wait_q_thrd' = [t EXCEPT !.retry_cnt = @ - 1]
  BY <1>5 DEF AfterSend, Accepts
<1>9. CASE o.res = "busy" /\ t.retry_cnt > 1 /\ wait_q_thrd' = [t EXCEPT !.retry_cnt = @ - 1]
  <2>1. t.retry_cnt - 1 \in 0 .. 2
    BY <1>1, <1>9
  <2>2. wait_q_thrd' = [t EXCEPT !.retry_cnt = t.retry_cnt - 1]
    BY <1>9
  <2>3. /\ wait_q_thrd' \in [at : {"idle", "serve", "send"}, cmd : Seq(Entry), retry_cnt : 0 .. 2]
        /\ wait_q_thrd'.at = "send" /\ wait_q_thrd'.cmd = t.cmd
    BY <1>1, <2>1, <2>2
  <2>4. done' = done
    BY <1>5, <2>3
  <2>5. Len(wait_q_thrd'.cmd) = (IF wait_q_thrd'.at = "send" THEN 1 ELSE 0)
    BY <1>1, <2>3
  <2> HIDE DEF t
  <2>6. ExecTypeOK'
    BY <1>1, <1>5, <1>7, <2>3, <2>4, <2>5 DEF ExecInv, ExecTypeOK
  <2>7. PlacesInv'
    BY <1>1, <1>5, <1>7, <1>9, <2>3, <2>4, QuietPlaces DEF ExecInv, Placed, SameQueues, t
  <2>8. WaitInv'
    BY <1>1, <1>5, <1>7, <2>3, RightKept, ThreadsKept DEF ExecInv, WaitInv, t
  <2> QED
    BY <2>6, <2>7, <2>8 DEF ExecInv
<1>10. CASE wait_q_thrd' \in {Idle, Serving}
  <2>1. wait_q_thrd' \in [at : {"idle", "serve", "send"}, cmd : Seq(Entry), retry_cnt : 0 .. 2]
        /\ wait_q_thrd'.at # "send" /\ wait_q_thrd'.cmd = <<>> /\ Len(wait_q_thrd'.cmd) = 0
    <3>1. /\ Idle = [at |-> "idle", cmd |-> <<>>, retry_cnt |-> 0]
          /\ Serving = [at |-> "serve", cmd |-> <<>>, retry_cnt |-> 0]
      BY DEF Idle, Serving
    <3>2. <<>> \in Seq(Entry) /\ Len(<<>>) = 0
      BY EmptySeq
    <3>3. CASE wait_q_thrd' = Idle
      BY <3>1, <3>2, <3>3
    <3>4. CASE wait_q_thrd' = Serving
      BY <3>1, <3>2, <3>4
    <3> QED
      BY <1>10, <3>3, <3>4
  <2>2. BeingSent' = {} /\ BeingWorkedOff' = BeingWorkedOff
    BY <1>1, <2>1, EmptyQueue DEF BeingSent, BeingWorkedOff
  <2>3. done' = IF o.res = "queued" THEN done ELSE done \cup {e.id}
    BY <1>5, <2>1
  <2>4. e.id \in taken /\ e.id \notin Waiting /\ e.id \notin Mul /\ e.id \notin BeingWorkedOff
        /\ e.id \notin done /\ e.id \notin AllRequested
    BY <1>4 DEF ExecInv, PlacesInv, NoneLost, AllPlaces, InOnePlace, AllApart, Apart
  <2>5. ExecTypeOK'
    BY <1>1, <1>5, <1>7, <2>1, <2>3, <2>4 DEF ExecInv, ExecTypeOK
  <2>6. WaitInv'
    <3>1. ThreadsOk'
      BY <1>1, <2>1 DEF ExecInv, WaitInv, ThreadsOk
    <3> QED
      BY <1>1, <1>5, <1>7, <3>1, RightKept DEF ExecInv, WaitInv
  <2>7. /\ n.wait_cmd_q \in Seq(Entry) /\ n.mul_cmd_q \in Seq(Entry)
        /\ Distinct(n.wait_cmd_q) /\ Distinct(n.mul_cmd_q) /\ Distinct(cmd_q_thrd')
    BY <1>1, NodeFields DEF ExecInv, PlacesInv, QueuesDistinct
  <2>8. /\ Distinct(n'.wait_cmd_q) /\ Distinct(n'.mul_cmd_q)
        /\ \/ o.res = "queued" /\ Waiting' = Waiting \cup {e.id} /\ Mul' = Mul
           \/ o.res = "queued" /\ Waiting' = Waiting /\ Mul' = Mul \cup {e.id}
           \/ o.res # "queued" /\ Waiting' = Waiting /\ Mul' = Mul
    <3>1. CASE o.res = "queued"
      <4>1. PICK f \in Entry :
              /\ f.id = e.id
              /\ \/ n'.wait_cmd_q = Append(n.wait_cmd_q, f) /\ n'.mul_cmd_q = n.mul_cmd_q
                 \/ n'.mul_cmd_q = Append(n.mul_cmd_q, f) /\ n'.wait_cmd_q = n.wait_cmd_q
        BY <1>5, <1>7, <3>1 DEF Placed, PutInQueue
      <4> QED
        BY <2>4, <2>7, <3>1, <4>1, AppendedQueue DEF Waiting, Mul
    <3>2. CASE o.res # "queued"
      BY <1>5, <1>7, <2>7, <3>2 DEF Placed, SameQueues, Waiting, Mul
    <3> QED
      BY <3>1, <3>2
  <2>9. AllApart(Waiting', BeingSent', Mul', BeingWorkedOff', done', AllRequested)
    BY <2>2, <2>3, <2>4, <2>8 DEF ExecInv, PlacesInv, InOnePlace, AllApart, Apart
  <2>10. QueuesDistinct' /\ InOnePlace' /\ AllRequested' = AllRequested
    BY <1>1, <2>7, <2>8, <2>9, RequestsKept DEF ExecInv
  <2>11. NoneLost' /\ TakenAreOld'
    BY <1>1, <1>4, <2>2, <2>3, <2>4, <2>8, <2>10 DEF ExecInv, PlacesInv, NoneLost, AllPlaces, TakenAreOld
  <2> QED
    BY <2>5, <2>6, <2>10, <2>11 DEF ExecInv, PlacesInv
<1> QED
  BY <1>8, <1>9, <1>10

---------------------------------------------------------------------------
(* mul_cmd_q is sent, given up or thrown away.                             *)

\* The commands of mul_cmd_q are done with.
LEMMA MulDone ==
  ASSUME ExecInv, n'.wait_cmd_q = n.wait_cmd_q, n'.mul_cmd_q = <<>>, done' = done \cup Mul,
         UNCHANGED <<wait_q_thrd, cmd_q_thrd, cmd_q_req, taken, calls>>
  PROVE  PlacesInv' /\ done' \subseteq taken'
<1>1. /\ Waiting' = Waiting /\ BeingSent' = BeingSent /\ Mul' = {} /\ BeingWorkedOff' = BeingWorkedOff
      /\ Distinct(n'.wait_cmd_q) /\ Distinct(n'.mul_cmd_q) /\ Distinct(cmd_q_thrd')
  BY EmptyQueue DEF Waiting, BeingSent, Mul, BeingWorkedOff, ExecInv, PlacesInv, QueuesDistinct
<1>2. AllApart(Waiting', BeingSent', Mul', BeingWorkedOff', done', AllRequested)
  BY <1>1 DEF ExecInv, PlacesInv, InOnePlace, AllApart, Apart
<1>3. QueuesDistinct' /\ InOnePlace' /\ AllRequested' = AllRequested
  BY <1>1, <1>2, RequestsKept DEF ExecInv
<1>4. NoneLost' /\ TakenAreOld'
  BY <1>1, <1>3 DEF ExecInv, PlacesInv, NoneLost, AllPlaces, TakenAreOld
<1>5. done' \subseteq taken'
  BY DEF ExecInv, PlacesInv, NoneLost, AllPlaces
<1> QED
  BY <1>3, <1>4, <1>5 DEF PlacesInv

\* The commands are sent: the end of a wait for the queued GET moves to its transmission.
LEMMA FlushedKept ==
  ASSUME ExecInv, ExecAssumption, NEW x \in NodeType, Flushed(x),
         x.there = n.there, x.wait_cmd_q = n.wait_cmd_q, x.mul_cmd_q = n.mul_cmd_q,
         x.wait_rpt_flg = n.wait_rpt_flg, x.enable_cmd_q = n.enable_cmd_q, x.wait_tmr = n.wait_tmr,
         late' \subseteq late, "wait" \in late => "wait" \in late', ctls' \in 0 .. MaxCtls,
         UNCHANGED <<kind, named, wait_q_thrd, cmd_q_thrd, cmd_q_req, calls, taken>>
  PROVE  ExecInv'
<1> DEFINE y == [x EXCEPT !.mul_cmd_q = <<>>, !.mul_cmd_tmr = FALSE]
           q == n.mul_cmd_q
<1>1. /\ y \in NodeType /\ y.mul_cmd_q = <<>> /\ y.there = n.there /\ y.wait_cmd_q = n.wait_cmd_q
      /\ y.wait_rpt_flg = n.wait_rpt_flg /\ y.enable_cmd_q = n.enable_cmd_q /\ y.wait_tmr = n.wait_tmr
  <2> DEFINE a == [x EXCEPT !.mul_cmd_q = <<>>]
             b == [a EXCEPT !.mul_cmd_tmr = FALSE]
  <2>1. /\ a \in NodeType /\ a.mul_cmd_q = <<>> /\ a.there = n.there /\ a.wait_cmd_q = n.wait_cmd_q
        /\ a.wait_rpt_flg = n.wait_rpt_flg /\ a.enable_cmd_q = n.enable_cmd_q
        /\ a.wait_tmr = n.wait_tmr
    BY EmptySeq DEF NodeType
  <2>2. y = b
    BY Zenon
  <2> HIDE DEF a, y
  <2>3. /\ b \in NodeType /\ b.mul_cmd_q = <<>> /\ b.there = n.there /\ b.wait_cmd_q = n.wait_cmd_q
        /\ b.wait_rpt_flg = n.wait_rpt_flg /\ b.enable_cmd_q = n.enable_cmd_q
        /\ b.wait_tmr = n.wait_tmr
    BY <2>1 DEF NodeType
  <2> HIDE DEF b
  <2> QED
    BY <2>2, <2>3
<1>2. PICK o \in MulCmdSend(y, q) :
        n' = o.node /\ air' = air \cup o.air /\ done' = done \cup SeqIds(q)
  BY DEF Flushed
<1>3. q \in Seq(Entry) /\ (WaitsForReport(q) => kind.beam)
  <2>1. q \in Seq(Entry)
    BY NodeFields DEF ExecInv, ExecTypeOK
  <2>2. ~ kind.beam => NoneWaits(q)
    BY DEF ExecInv, WaitInv, NodeOk
  <2> QED
    BY <2>1, <2>2 DEF WaitsForReport, NoneWaits
<1> HIDE DEF y
<1>4. /\ o.node \in NodeType /\ o.air \subseteq Ids /\ SameQueues(y, o.node) /\ Right(y, o)
      /\ WaitsForReport(q) => ~ y.there \/ o.air # {} \/ ~ o.node.wait_rpt_flg
  BY <1>1, <1>2, <1>3, MulCmdSendGood
<1>5. PlacesInv' /\ done' \subseteq taken'
  <2>1. n'.wait_cmd_q = n.wait_cmd_q /\ n'.mul_cmd_q = <<>> /\ done' = done \cup Mul
    BY <1>1, <1>2, <1>4 DEF SameQueues, Mul
  <2> QED
    BY <2>1, MulDone
<1>6. ExecTypeOK'
  BY <1>2, <1>4, <1>5 DEF ExecInv, ExecTypeOK
<1>7. NodeOk(y) /\ NodeOk(o.node)
  <2>1. NodeOk(y)
    BY <1>1, EmptyQueue DEF ExecInv, WaitInv, NodeOk
  <2> QED
    BY <1>4, <2>1 DEF Right
<1>8. NodeOk(n)'
  BY <1>2, <1>7 DEF NodeOk
<1>9. ASSUME NothingTaken
      PROVE  WaitEnds'
  <2>1. air \in SUBSET Ids /\ late' \in SUBSET {"wait", "mul_cmd"}
    BY DEF ExecInv, ExecTypeOK
  <2>2. Ends(n', air', late')
    <3>1. CASE Ends(y, air, late')
      <4>1. \A a \in SUBSET Ids, l \in SUBSET {"wait", "mul_cmd"} :
              NodeOk(y) /\ Ends(y, a, l) => Ends(o.node, a \cup o.air, l)
        BY <1>4 DEF Right
      <4>2. Ends(o.node, air \cup o.air, late')
        BY <1>7, <2>1, <3>1, <4>1
      <4> QED
        BY <1>2, <4>2
    <3>2. CASE ~ Ends(y, air, late')
      <4>1. n.wait_rpt_flg /\ WaitsForReport(q)
        BY <1>1, <1>9, <3>2 DEF ExecInv, WaitInv, WaitEnds, Ends
      <4>2. n.there
        BY <4>1 DEF ExecInv, WaitInv, NodeOk
      <4> QED
        BY <1>1, <1>2, <1>4, <4>1, <4>2 DEF Ends
    <3> QED
      BY <3>1, <3>2
  <2> QED
    BY <2>2 DEF Ends, WaitEnds
<1>10. ThreadsOk'
  BY ThreadsKept DEF ExecInv, WaitInv
<1> QED
  BY <1>5, <1>6, <1>8, <1>9, <1>10 DEF ExecInv, WaitInv

LEMMA MulCmdTmoutCbKept ==
  ASSUME ExecInv, ExecAssumption, MulCmdTmoutCb
  PROVE  ExecInv'
<1>1. n \in NodeType /\ ctls' \in 0 .. MaxCtls
  BY DEF ExecInv, ExecTypeOK, MulCmdTmoutCb
<1>2. late' \subseteq late /\ ("wait" \in late => "wait" \in late')
  BY DEF MulCmdTmoutCb
<1> QED
  BY <1>1, <1>2, FlushedKept DEF MulCmdTmoutCb

LEMMA CtlTypes ==
  ASSUME ExecInv, Ctl
  PROVE  ctls' \in 0 .. MaxCtls /\ n.there
BY ExecAssumption DEF ExecInv, ExecTypeOK, Ctl, ExecAssumption

LEMMA MulCmdCtlSetKept ==
  ASSUME ExecInv, ExecAssumption, NEW on \in BOOLEAN, MulCmdCtlSet(on)
  PROVE  ExecInv'
<1>1. /\ n \in NodeType /\ ctls' \in 0 .. MaxCtls
      /\ UNCHANGED <<kind, late, named, wait_q_thrd, cmd_q_thrd, cmd_q_req, calls, taken>>
  BY CtlTypes DEF ExecInv, ExecTypeOK, MulCmdCtlSet
<1>2. CASE ~ on
  <2> DEFINE x == [n EXCEPT !.mul_cmd_ctl = FALSE]
  <2>1. /\ x \in NodeType /\ x.there = n.there /\ x.wait_cmd_q = n.wait_cmd_q
        /\ x.mul_cmd_q = n.mul_cmd_q /\ x.wait_rpt_flg = n.wait_rpt_flg
        /\ x.enable_cmd_q = n.enable_cmd_q /\ x.wait_tmr = n.wait_tmr
    BY <1>1 DEF NodeType
  <2>2. Flushed(x)
    BY <1>2 DEF MulCmdCtlSet
  <2> HIDE DEF x
  <2> QED
    BY <1>1, <2>1, <2>2, FlushedKept
<1>3. CASE on
  <2>1. /\ n.mul_cmd_q # <<>> => "ctl_on" \in Races
        /\ n' = [n EXCEPT !.mul_cmd_ctl = TRUE, !.mul_cmd_q = <<>>] /\ UNCHANGED <<air, done>>
    BY <1>3 DEF MulCmdCtlSet
  <2> DEFINE a == [n EXCEPT !.mul_cmd_ctl = TRUE]
             b == [a EXCEPT !.mul_cmd_q = <<>>]
  <2>2. /\ a \in NodeType /\ a.there = n.there /\ a.wait_cmd_q = n.wait_cmd_q
        /\ a.wait_rpt_flg = n.wait_rpt_flg /\ a.enable_cmd_q = n.enable_cmd_q
        /\ a.wait_tmr = n.wait_tmr /\ a.mul_cmd_tmr = n.mul_cmd_tmr
    BY <1>1 DEF NodeType
  <2>3. n' = b
    BY <2>1, Zenon
  <2> HIDE DEF a
  <2>4. /\ n' \in NodeType /\ n'.there = n.there /\ n'.wait_cmd_q = n.wait_cmd_q
        /\ n'.mul_cmd_q = <<>> /\ n'.wait_rpt_flg = n.wait_rpt_flg
        /\ n'.enable_cmd_q = n.enable_cmd_q /\ n'.wait_tmr = n.wait_tmr
        /\ n'.mul_cmd_tmr = n.mul_cmd_tmr
    BY <2>2, <2>3, EmptySeq DEF NodeType
  <2> HIDE DEF b
  <2>5. ExecTypeOK'
    BY <1>1, <2>1, <2>4 DEF ExecInv, ExecTypeOK
  <2>6. /\ Waiting' = Waiting /\ BeingSent' = BeingSent /\ Mul' = {} /\ BeingWorkedOff' = BeingWorkedOff
        /\ Distinct(n'.wait_cmd_q) /\ Distinct(n'.mul_cmd_q) /\ Distinct(cmd_q_thrd')
        /\ "ctl_on" \notin Races => Mul = {}
    BY <1>1, <2>1, <2>4, EmptyQueue
       DEF Waiting, BeingSent, Mul, BeingWorkedOff, ExecInv, PlacesInv, QueuesDistinct
  <2>7. AllApart(Waiting', BeingSent', Mul', BeingWorkedOff', done', AllRequested)
    BY <2>1, <2>6 DEF ExecInv, PlacesInv, InOnePlace, AllApart, Apart
  <2>8. QueuesDistinct' /\ InOnePlace' /\ AllRequested' = AllRequested
    BY <1>1, <2>6, <2>7, RequestsKept DEF ExecInv
  <2>9. NoneLost' /\ TakenAreOld'
    BY <1>1, <2>1, <2>6, <2>8 DEF ExecInv, PlacesInv, NoneLost, AllPlaces, TakenAreOld
  <2>10. NodeOk(n)'
    BY <1>1, <2>4, EmptyQueue DEF ExecInv, WaitInv, NodeOk
  <2>11. NothingTaken => WaitEnds'
    BY <1>1, <2>1, <2>4, SameEnd DEF ExecInv, WaitInv, NothingTaken
  <2>12. ThreadsOk'
    BY <1>1, ThreadsKept DEF ExecInv, WaitInv
  <2> QED
    BY <2>5, <2>8, <2>9, <2>10, <2>11, <2>12 DEF ExecInv, PlacesInv, WaitInv
<1> QED
  BY <1>2, <1>3

LEMMA CmdQEnaSetKept ==
  ASSUME ExecInv, ExecAssumption, NEW enable \in BOOLEAN, CmdQEnaSet(enable)
  PROVE  ExecInv'
<1> DEFINE q == IF enable THEN n.mul_cmd_q ELSE <<>>
           a == [n EXCEPT !.enable_cmd_q = enable]
           b == [a EXCEPT !.mul_cmd_q = q]
<1>1. /\ n \in NodeType /\ ctls' \in 0 .. MaxCtls /\ kind.sleep_cap /\ ~ kind.beam
      /\ UNCHANGED <<kind, air, late, named, wait_q_thrd, cmd_q_thrd, cmd_q_req, calls, taken>>
  BY CtlTypes DEF ExecInv, ExecTypeOK, CmdQEnaSet, ExecAssumption
<1>2. n' = b
  <2>1. n' = [n EXCEPT !.enable_cmd_q = enable, !.mul_cmd_q = IF enable THEN @ ELSE <<>>]
    BY DEF CmdQEnaSet
  <2>2. a.mul_cmd_q = n.mul_cmd_q
    BY <1>1 DEF NodeType
  <2>3. n' = [a EXCEPT !.mul_cmd_q = IF enable THEN @ ELSE <<>>]
    BY <2>1, Zenon
  <2> HIDE DEF a
  <2> QED
    BY <2>2, <2>3
<1>3. q \in Seq(Entry)
  BY <1>1, NodeFields, EmptySeq
<1> HIDE DEF q
<1>4. /\ a \in NodeType /\ a.there = n.there /\ a.wait_cmd_q = n.wait_cmd_q
      /\ a.wait_rpt_flg = n.wait_rpt_flg
  BY <1>1 DEF NodeType
<1> HIDE DEF a
<1>5. /\ n' \in NodeType /\ n'.there = n.there /\ n'.wait_cmd_q = n.wait_cmd_q
      /\ n'.mul_cmd_q = q /\ n'.wait_rpt_flg = n.wait_rpt_flg
  BY <1>2, <1>3, <1>4 DEF NodeType
<1> HIDE DEF b
<1>6. done' = done \cup SeqIds(IF enable THEN <<>> ELSE n.mul_cmd_q)
  BY DEF CmdQEnaSet, Discarded
<1>7. PlacesInv' /\ done' \subseteq taken'
  <2>1. CASE enable
    <3>1. done' = done /\ n'.mul_cmd_q = n.mul_cmd_q
      BY <1>5, <1>6, <2>1, EmptyQueue DEF q
    <3> QED
      BY <1>1, <1>5, <3>1, QuietPlaces DEF ExecInv, ExecTypeOK
  <2>2. CASE ~ enable
    <3>1. done' = done \cup Mul /\ n'.mul_cmd_q = <<>>
      BY <1>5, <1>6, <2>2 DEF q, Mul
    <3> QED
      BY <1>1, <1>5, <3>1, MulDone
  <2> QED
    BY <2>1, <2>2
<1>8. ExecTypeOK'
  BY <1>1, <1>5, <1>7 DEF ExecInv, ExecTypeOK
<1>9. NoneWaits(q)
  BY <1>1, EmptyQueue DEF ExecInv, WaitInv, NodeOk, q
<1>10. NodeOk(n)' /\ WaitEnds'
  BY <1>1, <1>5, <1>9 DEF ExecInv, WaitInv, NodeOk, WaitEnds
<1>11. ThreadsOk'
  BY <1>1, ThreadsKept DEF ExecInv, WaitInv
<1> QED
  BY <1>7, <1>8, <1>10, <1>11 DEF ExecInv, WaitInv

LEMMA CmdQCancelKept ==
  ASSUME ExecInv, ExecAssumption, CmdQCancel
  PROVE  ExecInv'
<1>1. /\ n \in NodeType /\ ctls' \in 0 .. MaxCtls
      /\ UNCHANGED <<kind, air, late, named, wait_q_thrd, cmd_q_thrd, cmd_q_req, calls, taken>>
      /\ WaitsForReport(n.mul_cmd_q) => "cancel" \in Races
  BY CtlTypes DEF ExecInv, ExecTypeOK, CmdQCancel
<1>2. n' = [n EXCEPT !.mul_cmd_q = <<>>] /\ done' = done \cup Mul
  BY DEF CmdQCancel, Discarded, Mul
<1>3. /\ n' \in NodeType /\ n'.there = n.there /\ n'.wait_cmd_q = n.wait_cmd_q
      /\ n'.mul_cmd_q = <<>> /\ n'.wait_rpt_flg = n.wait_rpt_flg
      /\ n'.enable_cmd_q = n.enable_cmd_q /\ n'.wait_tmr = n.wait_tmr
  BY <1>1, <1>2, EmptySeq DEF NodeType
<1>4. PlacesInv' /\ done' \subseteq taken'
  BY <1>1, <1>2, <1>3, MulDone
<1>5. ExecTypeOK'
  BY <1>1, <1>3, <1>4 DEF ExecInv, ExecTypeOK
<1>6. NodeOk(n)'
  BY <1>1, <1>3, EmptyQueue DEF ExecInv, WaitInv, NodeOk
<1>7. NothingTaken => WaitEnds'
  BY <1>1, <1>3 DEF ExecInv, WaitInv, WaitEnds, NothingTaken
<1>8. ThreadsOk'
  BY <1>1, ThreadsKept DEF ExecInv, WaitInv
<1> QED
  BY <1>4, <1>5, <1>6, <1>7, <1>8 DEF ExecInv, WaitInv

LEMMA NewNodeFields ==
  /\ NewNode \in NodeType /\ ~ NewNode.wait_rpt_flg /\ NewNode.wait_cmd_q = <<>>
  /\ NewNode.mul_cmd_q = <<>> /\ ~ NewNode.enable_cmd_q
BY EmptySeq DEF NewNode, NodeType

LEMMA NodeRmKept ==
  ASSUME ExecInv, ExecAssumption, NodeRm
  PROVE  ExecInv'
<1>1. /\ n \in NodeType /\ ctls' \in 0 .. MaxCtls
      /\ UNCHANGED <<kind, air, late, named, wait_q_thrd, cmd_q_thrd, cmd_q_req, calls, taken>>
      /\ done' = done \cup Waiting \cup Mul
  BY CtlTypes DEF ExecInv, ExecTypeOK, NodeRm, Waiting, Mul
<1>2. n' = [NewNode EXCEPT !.there = FALSE, !.wait_q_req = n.wait_q_req]
  BY DEF NodeRm
<1>3. n.wait_q_req \in Nat
  BY <1>1, NodeFields
<1>4. /\ n' \in NodeType /\ n'.wait_cmd_q = <<>> /\ n'.mul_cmd_q = <<>>
      /\ ~ n'.wait_rpt_flg /\ ~ n'.enable_cmd_q
  BY <1>2, <1>3, NewNodeFields DEF NodeType
<1>5. /\ Waiting' = {} /\ BeingSent' = BeingSent /\ Mul' = {} /\ BeingWorkedOff' = BeingWorkedOff
      /\ Distinct(n'.wait_cmd_q) /\ Distinct(n'.mul_cmd_q) /\ Distinct(cmd_q_thrd')
  BY <1>1, <1>4, EmptyQueue DEF Waiting, BeingSent, Mul, BeingWorkedOff, ExecInv, PlacesInv, QueuesDistinct
<1>6. AllApart(Waiting', BeingSent', Mul', BeingWorkedOff', done', AllRequested)
  BY <1>1, <1>5 DEF ExecInv, PlacesInv, InOnePlace, AllApart, Apart
<1>7. QueuesDistinct' /\ InOnePlace' /\ AllRequested' = AllRequested
  BY <1>1, <1>5, <1>6, RequestsKept DEF ExecInv
<1>8. NoneLost' /\ TakenAreOld' /\ done' \subseteq taken'
  BY <1>1, <1>5, <1>7 DEF ExecInv, PlacesInv, NoneLost, AllPlaces, TakenAreOld
<1>9. ExecTypeOK'
  BY <1>1, <1>4, <1>8 DEF ExecInv, ExecTypeOK
<1>10. NodeOk(n)' /\ WaitEnds'
  BY <1>4, EmptyQueue DEF NodeOk, WaitEnds
<1>11. ThreadsOk'
  BY <1>1, ThreadsKept DEF ExecInv, WaitInv
<1> QED
  BY <1>7, <1>8, <1>9, <1>10, <1>11 DEF ExecInv, PlacesInv, WaitInv

---------------------------------------------------------------------------
(* Waking up, and the thread of mul_cmd_q.                                 *)

LEMMA CmdDequeueKept ==
  ASSUME ExecInv, ExecAssumption, CmdDequeue
  PROVE  ExecInv'
<1> DEFINE q == n.mul_cmd_q
           R == cmd_q_req
<1>1. /\ n \in NodeType /\ kind.sleep_cap /\ ~ kind.beam /\ n' = [n EXCEPT !.mul_cmd_q = <<>>]
      /\ cmd_q_req' = Append(R, q) /\ R \in Seq(Seq(Entry)) /\ q \in Seq(Entry)
      /\ UNCHANGED <<kind, air, late, named, wait_q_thrd, cmd_q_thrd, calls, ctls, taken, done>>
  BY NodeFields DEF ExecInv, ExecTypeOK, CmdDequeue, Dequeued, ExecAssumption
<1>2. /\ n' \in NodeType /\ n'.there = n.there /\ n'.wait_cmd_q = n.wait_cmd_q
      /\ n'.mul_cmd_q = <<>> /\ n'.wait_rpt_flg = n.wait_rpt_flg
      /\ n'.enable_cmd_q = n.enable_cmd_q
  BY <1>1, EmptySeq DEF NodeType
<1>3. /\ cmd_q_req' \in Seq(Seq(Entry)) /\ Len(R) \in Nat /\ DOMAIN R = 1 .. Len(R)
      /\ DOMAIN cmd_q_req' = 1 .. Len(R) + 1 /\ cmd_q_req'[Len(R) + 1] = q
      /\ \A i \in DOMAIN R : cmd_q_req'[i] = R[i]
  <2>1. /\ Append(R, q) \in Seq(Seq(Entry)) /\ Len(R) \in Nat /\ DOMAIN R = 1 .. Len(R)
        /\ Len(Append(R, q)) = Len(R) + 1 /\ Append(R, q)[Len(R) + 1] = q
        /\ \A i \in 1 .. Len(R) : Append(R, q)[i] = R[i]
    BY <1>1, LenProperties, AppendProperties
  <2>2. DOMAIN Append(R, q) = 1 .. Len(R) + 1
    BY <2>1, LenProperties
  <2> QED
    BY <1>1, <2>1, <2>2
<1>4. /\ \A i \in DOMAIN cmd_q_req' : i \in DOMAIN R \/ i = Len(R) + 1
      /\ Len(R) + 1 \in DOMAIN cmd_q_req' /\ \A i \in DOMAIN R : i \in DOMAIN cmd_q_req'
  BY <1>3
<1> HIDE DEF R, q
<1>5. ExecTypeOK'
  BY <1>1, <1>2, <1>3 DEF ExecInv, ExecTypeOK
<1>6. /\ Waiting' = Waiting /\ BeingSent' = BeingSent /\ Mul' = {} /\ BeingWorkedOff' = BeingWorkedOff
      /\ SeqIds(q) = Mul
  BY <1>1, <1>2, EmptyQueue DEF Waiting, BeingSent, Mul, BeingWorkedOff, q
<1>7. AllRequested' = AllRequested \cup Mul
  <2>1. AllRequested' = UNION {SeqIds(cmd_q_req'[i]) : i \in DOMAIN cmd_q_req'}
    BY DEF AllRequested, Requested
  <2>2. AllRequested = UNION {SeqIds(R[i]) : i \in DOMAIN R}
    BY DEF AllRequested, Requested, R
  <2> QED
    BY <1>3, <1>4, <1>6, <2>1, <2>2
<1>8. AllApart(Waiting', BeingSent', Mul', BeingWorkedOff', done', AllRequested')
  BY <1>1, <1>6, <1>7 DEF ExecInv, PlacesInv, InOnePlace, AllApart, Apart
<1>9. ASSUME NEW i \in DOMAIN cmd_q_req', NEW j \in DOMAIN cmd_q_req', i # j
      PROVE  Apart(SeqIds(cmd_q_req'[i]), SeqIds(cmd_q_req'[j]))
  <2>1. Apart(Mul, AllRequested)
    BY DEF ExecInv, PlacesInv, InOnePlace, AllApart
  <2>2. ASSUME NEW k \in DOMAIN R
        PROVE  SeqIds(cmd_q_req'[k]) \subseteq AllRequested
    BY <1>3 DEF AllRequested, Requested, R
  <2>3. CASE i \in DOMAIN R /\ j \in DOMAIN R
    BY <1>3, <1>9, <2>3 DEF ExecInv, PlacesInv, InOnePlace, Requested, R
  <2>4. CASE i = Len(R) + 1
    <3>1. j \in DOMAIN R /\ cmd_q_req'[i] = q
      BY <1>3, <1>4, <1>9, <2>4
    <3> QED
      BY <1>6, <2>1, <2>2, <3>1 DEF Apart
  <2>5. CASE j = Len(R) + 1
    <3>1. i \in DOMAIN R /\ cmd_q_req'[j] = q
      BY <1>3, <1>4, <1>9, <2>5
    <3> QED
      BY <1>6, <2>1, <2>2, <3>1 DEF Apart
  <2> QED
    BY <1>4, <2>3, <2>4, <2>5
<1>10. InOnePlace'
  BY <1>8, <1>9 DEF InOnePlace, Requested
<1>11. QueuesDistinct'
  <2>1. /\ Distinct(n'.wait_cmd_q) /\ Distinct(n'.mul_cmd_q) /\ Distinct(cmd_q_thrd') /\ Distinct(q)
        /\ \A i \in DOMAIN R : Distinct(R[i])
    BY <1>1, <1>2, EmptyQueue DEF ExecInv, PlacesInv, QueuesDistinct, q, R
  <2>2. \A i \in DOMAIN cmd_q_req' : Distinct(cmd_q_req'[i])
    BY <1>3, <1>4, <2>1
  <2> QED
    BY <2>1, <2>2 DEF QueuesDistinct
<1>12. NoneLost' /\ TakenAreOld'
  BY <1>1, <1>6, <1>7 DEF ExecInv, PlacesInv, NoneLost, AllPlaces, TakenAreOld
<1>13. NodeOk(n)' /\ WaitEnds'
  BY <1>1, <1>2, EmptyQueue DEF ExecInv, WaitInv, NodeOk, WaitEnds
<1>14. ThreadsOk'
  <2>1. NoneWaits(q) /\ \A i \in DOMAIN R : NoneWaits(R[i])
    BY <1>1 DEF ExecInv, WaitInv, NodeOk, ThreadsOk, q, R
  <2>2. \A i \in DOMAIN cmd_q_req' : NoneWaits(cmd_q_req'[i])
    BY <1>3, <1>4, <2>1
  <2> QED
    BY <1>1, <2>2 DEF ExecInv, WaitInv, ThreadsOk
<1> QED
  BY <1>5, <1>10, <1>11, <1>12, <1>13, <1>14 DEF ExecInv, PlacesInv, WaitInv

\* The first request is taken from the thread's queue.
LEMMA RequestTaken ==
  ASSUME ExecInv, cmd_q_req # <<>>, cmd_q_req' = Tail(cmd_q_req)
  PROVE  LET q == Head(cmd_q_req)
         IN  /\ q \in Seq(Entry) /\ Distinct(q) /\ NoneWaits(q) /\ cmd_q_req' \in Seq(Seq(Entry))
             /\ AllRequested = AllRequested' \cup SeqIds(q) /\ Apart(SeqIds(q), AllRequested')
             /\ \A i \in DOMAIN cmd_q_req' : Distinct(cmd_q_req'[i]) /\ NoneWaits(cmd_q_req'[i])
             /\ \A i, j \in DOMAIN cmd_q_req' :
                  i # j => Apart(SeqIds(cmd_q_req'[i]), SeqIds(cmd_q_req'[j]))
<1> DEFINE q == Head(cmd_q_req)
           R == cmd_q_req
           T == cmd_q_req'
<1>1. /\ R \in Seq(Seq(Entry)) /\ Len(R) \in Nat /\ DOMAIN R = 1 .. Len(R) /\ Len(R) >= 1
      /\ q = R[1] /\ q \in Seq(Entry) /\ T \in Seq(Seq(Entry)) /\ DOMAIN T = 1 .. Len(R) - 1
      /\ \A i \in 1 .. Len(R) - 1 : T[i] = R[i + 1]
  <2>1. R \in Seq(Seq(Entry)) /\ R # <<>> /\ T = Tail(R)
    BY DEF ExecInv, ExecTypeOK
  <2>2. Len(R) \in Nat /\ DOMAIN R = 1 .. Len(R) /\ Len(R) >= 1
    BY <2>1, LenProperties, EmptySeq
  <2>3. /\ q = R[1] /\ q \in Seq(Entry) /\ Tail(R) \in Seq(Seq(Entry)) /\ Len(Tail(R)) = Len(R) - 1
        /\ \A i \in 1 .. Len(Tail(R)) : Tail(R)[i] = R[i + 1]
    BY <2>1, HeadTailProperties
  <2>4. DOMAIN Tail(R) = 1 .. Len(R) - 1
    BY <2>3, LenProperties
  <2> QED
    BY <2>1, <2>2, <2>3, <2>4
<1>2. /\ \A i \in DOMAIN R : Distinct(R[i]) /\ NoneWaits(R[i])
      /\ \A i, j \in DOMAIN R : i # j => Apart(SeqIds(R[i]), SeqIds(R[j]))
      /\ AllRequested = UNION {SeqIds(R[i]) : i \in DOMAIN R}
  BY DEF ExecInv, PlacesInv, WaitInv, QueuesDistinct, ThreadsOk, InOnePlace, Requested, AllRequested
<1>3. AllRequested' = UNION {SeqIds(T[i]) : i \in DOMAIN T}
  BY DEF AllRequested, Requested
<1> HIDE DEF R, T, q
<1>4. \A i \in DOMAIN T : i + 1 \in DOMAIN R /\ i + 1 # 1 /\ T[i] = R[i + 1]
  BY <1>1
<1>5. ASSUME NEW i \in DOMAIN R, i # 1
      PROVE  i - 1 \in DOMAIN T /\ T[i - 1] = R[i]
  <2>1. i - 1 \in 1 .. Len(R) - 1 /\ (i - 1) + 1 = i
    BY <1>1, <1>5
  <2> QED
    BY <1>1, <2>1
<1>6. 1 \in DOMAIN R
  BY <1>1
<1>7. AllRequested = AllRequested' \cup SeqIds(q)
  <2>1. ASSUME NEW x \in AllRequested
        PROVE  x \in AllRequested' \cup SeqIds(q)
    <3>1. PICK i \in DOMAIN R : x \in SeqIds(R[i])
      BY <1>2
    <3>2. CASE i = 1
      BY <1>1, <3>1, <3>2
    <3>3. CASE i # 1
      BY <1>3, <1>5, <3>1, <3>3
    <3> QED
      BY <3>2, <3>3
  <2>2. AllRequested' \subseteq AllRequested
    BY <1>2, <1>3, <1>4
  <2>3. SeqIds(q) \subseteq AllRequested
    BY <1>1, <1>2, <1>6
  <2> QED
    BY <2>1, <2>2, <2>3
<1>8. Apart(SeqIds(q), AllRequested')
  <2>1. ASSUME NEW i \in DOMAIN T
        PROVE  Apart(SeqIds(q), SeqIds(T[i]))
    BY <1>1, <1>2, <1>4, <1>6
  <2> QED
    BY <1>3, <2>1 DEF Apart
<1>9. ASSUME NEW i \in DOMAIN T, NEW j \in DOMAIN T, i # j
      PROVE  Apart(SeqIds(T[i]), SeqIds(T[j]))
  <2>1. i + 1 # j + 1
    BY <1>1, <1>9
  <2> QED
    BY <1>2, <1>4, <2>1
<1>10. \A i \in DOMAIN T : Distinct(T[i]) /\ NoneWaits(T[i])
  BY <1>2, <1>4
<1>11. Distinct(q) /\ NoneWaits(q)
  BY <1>1, <1>2, <1>6
<1> QED
  BY <1>1, <1>7, <1>8, <1>9, <1>10, <1>11 DEF q, T

LEMMA CmdQRequestKept ==
  ASSUME ExecInv, ExecAssumption, CmdQRequest
  PROVE  ExecInv'
<1> DEFINE q == Head(cmd_q_req)
<1>1. /\ n \in NodeType /\ cmd_q_thrd = <<>> /\ cmd_q_req # <<>> /\ cmd_q_req' = Tail(cmd_q_req)
      /\ UNCHANGED <<kind, late, named, wait_q_thrd, calls, ctls, taken>>
      /\ kind \in Kinds /\ air \subseteq Ids
  BY DEF ExecInv, ExecTypeOK, CmdQRequest
<1>2. /\ q \in Seq(Entry) /\ Distinct(q) /\ NoneWaits(q) /\ cmd_q_req' \in Seq(Seq(Entry))
      /\ AllRequested = AllRequested' \cup SeqIds(q) /\ Apart(SeqIds(q), AllRequested')
      /\ \A i \in DOMAIN cmd_q_req' : Distinct(cmd_q_req'[i]) /\ NoneWaits(cmd_q_req'[i])
      /\ \A i, j \in DOMAIN cmd_q_req' :
           i # j => Apart(SeqIds(cmd_q_req'[i]), SeqIds(cmd_q_req'[j]))
  BY <1>1, RequestTaken
<1>3. BeingWorkedOff = {} /\ BeingSent' = BeingSent
  BY <1>1, EmptyQueue DEF BeingWorkedOff, BeingSent
<1>4. \/ n' = n /\ air' = air /\ done' = done \cup SeqIds(q) /\ cmd_q_thrd' = <<>>
      \/ /\ \E o \in MulCmdSend(n, q) : n' = o.node /\ air' = air \cup o.air
         /\ done' = done \cup SeqIds(q) /\ cmd_q_thrd' = <<>>
      \/ n' = n /\ air' = air /\ done' = done /\ cmd_q_thrd' = q
  BY <1>1 DEF CmdQRequest
<1> HIDE DEF q
<1>5. /\ n' \in NodeType /\ air' \subseteq Ids /\ SameQueues(n, n')
      /\ NodeOk(n)' /\ (NothingTaken => WaitEnds')
  <2>1. CASE n' = n /\ air' = air
    BY <1>1, <2>1, SameEnd DEF SameQueues, ExecInv, WaitInv, NodeOk
  <2>2. CASE \E o \in MulCmdSend(n, q) : n' = o.node /\ air' = air \cup o.air
    <3>1. PICK o \in MulCmdSend(n, q) : n' = o.node /\ air' = air \cup o.air
      BY <2>2
    <3>2. WaitsForReport(q) => kind.beam
      BY <1>2 DEF WaitsForReport, NoneWaits
    <3>3. o.node \in NodeType /\ o.air \subseteq Ids /\ SameQueues(n, o.node) /\ Right(n, o)
      BY <1>1, <1>2, <3>2, MulCmdSendGood
    <3>4. NodeOk(n)' /\ (NothingTaken => WaitEnds')
      BY <1>1, <3>1, <3>3, RightKept DEF ExecInv
    <3> QED
      BY <1>1, <3>1, <3>3, <3>4
  <2> QED
    BY <1>4, <2>1, <2>2
<1>6. Waiting' = Waiting /\ Mul' = Mul
  BY <1>5 DEF SameQueues, Waiting, Mul
<1>7. /\ cmd_q_thrd' \in Seq(Entry) /\ Distinct(cmd_q_thrd')
      /\ \/ done' = done \cup SeqIds(q) /\ BeingWorkedOff' = {}
         \/ done' = done /\ BeingWorkedOff' = SeqIds(q)
  BY <1>2, <1>4, EmptyQueue, EmptySeq DEF BeingWorkedOff
<1>8. SeqIds(q) \subseteq taken
  BY <1>2 DEF ExecInv, PlacesInv, NoneLost, AllPlaces
<1>9. ExecTypeOK'
  BY <1>1, <1>2, <1>5, <1>7, <1>8 DEF ExecInv, ExecTypeOK
<1>10. AllApart(Waiting', BeingSent', Mul', BeingWorkedOff', done', AllRequested')
  BY <1>2, <1>3, <1>6, <1>7 DEF ExecInv, PlacesInv, InOnePlace, AllApart, Apart
<1>11. InOnePlace'
  BY <1>2, <1>10 DEF InOnePlace, Requested
<1>12. QueuesDistinct'
  BY <1>2, <1>5, <1>7 DEF SameQueues, ExecInv, PlacesInv, QueuesDistinct
<1>13. NoneLost' /\ TakenAreOld'
  BY <1>1, <1>2, <1>3, <1>6, <1>7 DEF ExecInv, PlacesInv, NoneLost, AllPlaces, TakenAreOld
<1>14. ThreadsOk'
  BY <1>1, <1>2 DEF ExecInv, WaitInv, ThreadsOk
<1> QED
  BY <1>5, <1>9, <1>11, <1>12, <1>13, <1>14 DEF ExecInv, PlacesInv, WaitInv

LEMMA CmdQSendKept ==
  ASSUME ExecInv, ExecAssumption, CmdQSend
  PROVE  ExecInv'
<1> DEFINE e == Head(cmd_q_thrd)
<1>1. /\ n \in NodeType /\ cmd_q_thrd \in Seq(Entry) /\ cmd_q_thrd # <<>> /\ Distinct(cmd_q_thrd)
      /\ cmd_q_thrd' = Tail(cmd_q_thrd) /\ done' = done \cup {e.id}
      /\ UNCHANGED <<kind, late, named, wait_q_thrd, cmd_q_req, calls, ctls, taken>>
      /\ kind \in Kinds /\ air \subseteq Ids
  BY DEF ExecInv, ExecTypeOK, PlacesInv, QueuesDistinct, CmdQSend
<1>2. e \in Entry /\ e.id \in Ids /\ cmd_q_thrd' \in Seq(Entry)
  BY <1>1, QueueFields DEF Entry
<1>3. e.id \in BeingWorkedOff /\ BeingWorkedOff' = BeingWorkedOff \ {e.id} /\ Distinct(cmd_q_thrd')
  BY <1>1, TailOfQueue DEF BeingWorkedOff
<1>4. PICK o \in ExecImd(n, e, FALSE) : n' = o.node /\ air' = air \cup o.air
  BY DEF CmdQSend
<1> HIDE DEF e
<1>5. Good(n, o, e.id) /\ o.res # "queued"
  <2>1. FALSE \in BOOLEAN
    OBVIOUS
  <2> QED
    BY <1>1, <1>2, <1>4, <2>1, ExecImdGood
<1>6. n' \in NodeType /\ o.air \subseteq Ids /\ air' \subseteq Ids /\ SameQueues(n, n') /\ Right(n, o)
  BY <1>1, <1>2, <1>4, <1>5 DEF Good, Typed, Placed
<1>7. /\ Waiting' = Waiting /\ Mul' = Mul /\ BeingSent' = BeingSent
      /\ Distinct(n'.wait_cmd_q) /\ Distinct(n'.mul_cmd_q)
  BY <1>1, <1>6 DEF SameQueues, Waiting, Mul, BeingSent, ExecInv, PlacesInv, QueuesDistinct
<1>8. ExecTypeOK'
  <2>1. e.id \in taken
    BY <1>3 DEF ExecInv, PlacesInv, NoneLost, AllPlaces
  <2> QED
    BY <1>1, <1>2, <1>6, <2>1 DEF ExecInv, ExecTypeOK
<1>9. AllApart(Waiting', BeingSent', Mul', BeingWorkedOff', done', AllRequested)
  BY <1>1, <1>3, <1>7 DEF ExecInv, PlacesInv, InOnePlace, AllApart, Apart
<1>10. QueuesDistinct' /\ InOnePlace' /\ AllRequested' = AllRequested
  BY <1>1, <1>3, <1>7, <1>9, RequestsKept DEF ExecInv
<1>11. NoneLost' /\ TakenAreOld'
  BY <1>1, <1>3, <1>7, <1>10 DEF ExecInv, PlacesInv, NoneLost, AllPlaces, TakenAreOld
<1>12. WaitInv'
  BY <1>1, <1>4, <1>6, RightKept, ThreadsKept DEF ExecInv, WaitInv
<1> QED
  BY <1>8, <1>10, <1>11, <1>12 DEF ExecInv, PlacesInv

---------------------------------------------------------------------------
(* The theorems.                                                           *)

LEMMA ExecInvInit == ExecInit => ExecInv
<1> SUFFICES ASSUME ExecInit
             PROVE  ExecInv
  OBVIOUS
<1> DEFINE a == [NewNode EXCEPT !.enable_cmd_q = kind.sleep_cap]
           b == [a EXCEPT !.mul_cmd_ctl = kind.mul_cmd_cap]
<1>1. /\ kind \in Kinds /\ kind.sleep_cap \in BOOLEAN /\ kind.mul_cmd_cap \in BOOLEAN
      /\ MaxCalls \in Nat /\ MaxCtls \in Nat
  BY ExecAssumption DEF ExecInit, ExecAssumption, KindType
<1>2. /\ a \in NodeType /\ ~ a.wait_rpt_flg /\ a.wait_cmd_q = <<>> /\ a.mul_cmd_q = <<>>
      /\ a.enable_cmd_q = kind.sleep_cap
  BY <1>1, NewNodeFields DEF NodeType
<1>3. n = b
  BY Zenon DEF ExecInit
<1> HIDE DEF a
<1>4. /\ n \in NodeType /\ ~ n.wait_rpt_flg /\ n.wait_cmd_q = <<>> /\ n.mul_cmd_q = <<>>
      /\ n.enable_cmd_q = kind.sleep_cap
  BY <1>1, <1>2, <1>3 DEF NodeType
<1> HIDE DEF b
<1>5. /\ wait_q_thrd = [at |-> "idle", cmd |-> <<>>, retry_cnt |-> 0] /\ cmd_q_thrd = <<>>
      /\ cmd_q_req = <<>> /\ air = {} /\ late = {} /\ named = NoCommand /\ calls = 0 /\ ctls = 0
      /\ taken = {} /\ done = {}
  BY DEF ExecInit, Idle
<1>6. <<>> \in Seq(Entry) /\ <<>> \in Seq(Seq(Entry)) /\ Len(<<>>) = 0
  BY EmptySeq
<1>7. ExecTypeOK
  BY <1>1, <1>4, <1>5, <1>6 DEF ExecTypeOK
<1>8. DOMAIN cmd_q_req = {}
  BY <1>5
<1>9. /\ Waiting = {} /\ BeingSent = {} /\ Mul = {} /\ BeingWorkedOff = {} /\ AllRequested = {}
  BY <1>4, <1>5, <1>8, EmptyQueue DEF Waiting, BeingSent, Mul, BeingWorkedOff, AllRequested
<1>10. PlacesInv
  BY <1>4, <1>5, <1>8, <1>9, EmptyQueue
     DEF PlacesInv, QueuesDistinct, NoneLost, AllPlaces, InOnePlace, AllApart, Apart, TakenAreOld
<1>11. WaitInv
  BY <1>4, <1>5, <1>8, EmptyQueue DEF WaitInv, NodeOk, ThreadsOk, WaitEnds
<1> QED
  BY <1>7, <1>10, <1>11 DEF ExecInv

LEMMA ExecInvNext == ExecInv /\ [ExecNext]_exec_vars => ExecInv'
<1> SUFFICES ASSUME ExecInv, [ExecNext]_exec_vars
             PROVE  ExecInv'
  OBVIOUS
<1> USE ExecAssumption
<1>1. CASE UNCHANGED exec_vars
  BY <1>1, StutterKept
<1>2. ASSUME NEW w \in Commands, CmdIdSet(w) \/ LibExec(w) \/ PollExec(w) \/ Report(w)
      PROVE  ExecInv'
  BY <1>2, CmdIdSetKept, LibExecKept, PollExecKept, ReportKept
<1>3. CASE ApiExec
  BY <1>3, ApiExecKept
<1>4. CASE TxStatus
  BY <1>4, WaitTxCbKept DEF TxStatus
<1>5. CASE WaitTmrExpires \/ MulCmdTmrExpires
  BY <1>5, TmrExpiresKept
<1>6. CASE WaitRptTmoutCb
  BY <1>6, WaitRptTmoutCbKept
<1>7. CASE MulCmdTmoutCb
  BY <1>7, MulCmdTmoutCbKept
<1>8. CASE WaitQStep
  BY <1>8, WaitQRequestKept, WaitQTakeKept, WaitQSendKept DEF WaitQStep
<1>9. CASE CmdDequeue
  BY <1>9, CmdDequeueKept
<1>10. CASE CmdQStep
  BY <1>10, CmdQRequestKept, CmdQSendKept DEF CmdQStep
<1>11. ASSUME NEW on \in BOOLEAN, MulCmdCtlSet(on) \/ CmdQEnaSet(on)
       PROVE  ExecInv'
  BY <1>11, MulCmdCtlSetKept, CmdQEnaSetKept
<1>12. CASE CmdQCancel
  BY <1>12, CmdQCancelKept
<1>13. CASE NodeRm
  BY <1>13, NodeRmKept
<1> QED
  BY <1>1, <1>2, <1>3, <1>4, <1>5, <1>6, <1>7, <1>8, <1>9, <1>10, <1>11, <1>12, <1>13 DEF ExecNext

\* The places in the order that TakenOnce gives them.
LEMMA PlacesAre ==
  ASSUME ExecTypeOK
  PROVE  /\ DOMAIN Places = 1 .. 5 + Len(cmd_q_req) /\ Len(cmd_q_req) \in Nat
         /\ DOMAIN cmd_q_req = 1 .. Len(cmd_q_req)
         /\ Places[1] = Waiting /\ Places[2] = BeingSent /\ Places[3] = Mul
         /\ Places[4] = BeingWorkedOff /\ Places[5] = done
         /\ \A i \in DOMAIN Places : ~ (i \in 1 .. 5) =>
              i - 5 \in DOMAIN cmd_q_req /\ Places[i] = Requested(i - 5)
         /\ \A i \in DOMAIN cmd_q_req : i + 5 \in DOMAIN Places /\ Places[i + 5] = Requested(i)
<1> DEFINE S == UNION {SUBSET Ids, {Waiting, BeingSent, Mul, BeingWorkedOff, done},
                       {Requested(i) : i \in DOMAIN cmd_q_req}}
           five == <<Waiting, BeingSent, Mul, BeingWorkedOff, done>>
           R == [i \in DOMAIN cmd_q_req |-> Requested(i)]
           m == Len(cmd_q_req)
<1>1. m \in Nat /\ DOMAIN cmd_q_req = 1 .. m
  <2>1. cmd_q_req \in Seq(Seq(Entry))
    BY DEF ExecTypeOK
  <2> QED
    BY <2>1, LenProperties
<1>2. five \in Seq(S) /\ Len(five) = 5 /\ five[1] = Waiting /\ five[2] = BeingSent /\ five[3] = Mul
      /\ five[4] = BeingWorkedOff /\ five[5] = done
  <2>1. Waiting \in S /\ BeingSent \in S /\ Mul \in S /\ BeingWorkedOff \in S /\ done \in S
    OBVIOUS
  <2> HIDE DEF S
  <2> QED
    BY <2>1
<1>3. R \in [1 .. m -> S] /\ \A i \in 1 .. m : R[i] = Requested(i)
  <2>1. \A i \in DOMAIN cmd_q_req : Requested(i) \in S
    OBVIOUS
  <2> HIDE DEF S
  <2> QED
    BY <1>1, <2>1
<1>4. Places = five \o R
  BY DEF Places, Waiting, BeingSent, Mul, BeingWorkedOff, Requested
<1> HIDE DEF S, five, R, m
<1>5. R \in Seq(S) /\ Len(R) = m
  <2>1. R \in Seq(S)
    BY <1>1, <1>3, SeqDef
  <2>2. DOMAIN R = 1 .. m /\ DOMAIN R = 1 .. Len(R) /\ Len(R) \in Nat
    BY <1>3, <2>1, LenProperties
  <2>3. (m > 0 => m \in 1 .. Len(R)) /\ (Len(R) > 0 => Len(R) \in 1 .. m)
    <3>1. 1 .. m = 1 .. Len(R)
      BY <2>2
    <3>2. (m > 0 => m \in 1 .. m) /\ (Len(R) > 0 => Len(R) \in 1 .. Len(R))
      BY <1>1, <2>2
    <3> QED
      BY <3>1, <3>2
  <2>4. (m > 0 => m <= Len(R)) /\ (Len(R) > 0 => Len(R) <= m)
    BY <2>3
  <2> QED
    BY <1>1, <2>1, <2>2, <2>4
<1>6. /\ Places \in Seq(S) /\ Len(Places) = 5 + m
      /\ \A i \in 1 .. 5 + m : Places[i] = IF i <= 5 THEN five[i] ELSE R[i - 5]
  <2>1. /\ five \o R \in Seq(S) /\ Len(five \o R) = Len(five) + Len(R)
        /\ \A i \in 1 .. Len(five) + Len(R) :
             (five \o R)[i] = IF i <= Len(five) THEN five[i] ELSE R[i - Len(five)]
    <3>1. five \in Seq(S) /\ R \in Seq(S)
      BY <1>2, <1>5
    <3> QED
      BY <3>1, ConcatProperties
  <2> QED
    BY <1>2, <1>4, <1>5, <2>1
<1>7. DOMAIN Places = 1 .. 5 + m
  BY <1>6, LenProperties
<1>8. /\ Places[1] = five[1] /\ Places[2] = five[2] /\ Places[3] = five[3] /\ Places[4] = five[4]
      /\ Places[5] = five[5]
  BY <1>1, <1>6
<1>9. ASSUME NEW i \in DOMAIN Places, ~ (i \in 1 .. 5)
      PROVE  i - 5 \in DOMAIN cmd_q_req /\ Places[i] = Requested(i - 5)
  <2>1. i \in 1 .. 5 + m /\ ~ (i <= 5) /\ i - 5 \in 1 .. m
    BY <1>1, <1>7, <1>9
  <2> QED
    BY <1>1, <1>3, <1>6, <2>1
<1>10. ASSUME NEW i \in DOMAIN cmd_q_req
       PROVE  i + 5 \in DOMAIN Places /\ Places[i + 5] = Requested(i)
  <2>1. i + 5 \in 1 .. 5 + m /\ ~ (i + 5 <= 5) /\ (i + 5) - 5 = i /\ i \in 1 .. m
    BY <1>1
  <2> QED
    BY <1>3, <1>6, <1>7, <2>1
<1> QED
  BY <1>1, <1>2, <1>7, <1>8, <1>9, <1>10 DEF m

LEMMA TakenOnceFollows ==
  ASSUME ExecTypeOK, PlacesInv, "ctl_on" \notin Races
  PROVE  TakenOnce
<1> USE PlacesAre
<1>1. UNION {Places[i] : i \in DOMAIN Places} = AllPlaces
  <2>1. ASSUME NEW i \in DOMAIN Places
        PROVE  Places[i] \subseteq AllPlaces
    <3>1. CASE i \in 1 .. 5
      <4>1. i = 1 \/ i = 2 \/ i = 3 \/ i = 4 \/ i = 5
        BY <3>1
      <4> QED
        BY <4>1 DEF AllPlaces
    <3>2. CASE ~ (i \in 1 .. 5)
      BY <3>2 DEF AllPlaces, AllRequested
    <3> QED
      BY <3>1, <3>2
  <2>2. 1 \in DOMAIN Places /\ 2 \in DOMAIN Places /\ 3 \in DOMAIN Places /\ 4 \in DOMAIN Places
        /\ 5 \in DOMAIN Places
    OBVIOUS
  <2>3. ASSUME NEW x \in AllPlaces
        PROVE  \E i \in DOMAIN Places : x \in Places[i]
    <3>1. CASE x \in AllRequested
      <4>1. PICK i \in DOMAIN cmd_q_req : x \in Requested(i)
        BY <3>1 DEF AllRequested
      <4> QED
        BY <4>1
    <3>2. CASE x \notin AllRequested
      BY <2>2, <3>2 DEF AllPlaces
    <3> QED
      BY <3>1, <3>2
  <2> QED
    BY <2>1, <2>3
<1>2. ASSUME NEW i \in DOMAIN Places, NEW j \in DOMAIN Places, i # j
      PROVE  Apart(Places[i], Places[j])
  <2>1. AllApart(Waiting, BeingSent, Mul, BeingWorkedOff, done, AllRequested)
    BY DEF PlacesInv, InOnePlace
  <2>2. i \in 1 .. 5 => i = 1 \/ i = 2 \/ i = 3 \/ i = 4 \/ i = 5
    OBVIOUS
  <2>3. j \in 1 .. 5 => j = 1 \/ j = 2 \/ j = 3 \/ j = 4 \/ j = 5
    OBVIOUS
  <2>4. CASE i \in 1 .. 5 /\ j \in 1 .. 5
    BY <1>2, <2>1, <2>2, <2>3, <2>4 DEF AllApart, Apart
  <2>5. CASE i \in 1 .. 5 /\ ~ (j \in 1 .. 5)
    <3>1. Places[j] \subseteq AllRequested
      BY <2>5 DEF AllRequested
    <3>2. Apart(Places[i], AllRequested)
      BY <2>1, <2>2, <2>5 DEF AllApart
    <3> QED
      BY <3>1, <3>2 DEF Apart
  <2>6. CASE ~ (i \in 1 .. 5) /\ j \in 1 .. 5
    <3>1. Places[i] \subseteq AllRequested
      BY <2>6 DEF AllRequested
    <3>2. Apart(Places[j], AllRequested)
      BY <2>1, <2>3, <2>6 DEF AllApart
    <3> QED
      BY <3>1, <3>2 DEF Apart
  <2>7. CASE ~ (i \in 1 .. 5) /\ ~ (j \in 1 .. 5)
    <3>1. /\ i - 5 \in DOMAIN cmd_q_req /\ j - 5 \in DOMAIN cmd_q_req
          /\ Places[i] = Requested(i - 5) /\ Places[j] = Requested(j - 5)
      BY <2>7
    <3>2. i - 5 # j - 5
      BY <1>2
    <3> QED
      BY <3>1, <3>2 DEF PlacesInv, InOnePlace
  <2> QED
    BY <2>4, <2>5, <2>6, <2>7
<1>3. taken = AllPlaces
  BY DEF PlacesInv, NoneLost
<1> QED
  BY <1>1, <1>2, <1>3 DEF TakenOnce, Apart

\* The invariant holds whatever else may happen, with the conjuncts of NoneLost and
\* WaitInv that a race breaks made conditional on it.
THEOREM ExecInvHolds == ExecSpec => []ExecInv
<1> QED
  BY ExecInvInit, ExecInvNext, PTL DEF ExecSpec

\* Every field of the node and every queue has its type, with any number of commands and
\* settings: zwif_exec_ex, zwnode_wait_q_thrd and zwnode_cmd_q_thrd.
THEOREM ExecTypesHold == ExecSpec => []ExecTypeOK
<1>1. ExecInv => ExecTypeOK
  BY DEF ExecInv
<1> QED
  BY <1>1, ExecInvHolds, PTL

\* A command that zwif_exec_ex took on is in one place until it is sent, given up or
\* cancelled: no queue and no thread has it a second time, and none loses it, unless
\* zwnode_mul_cmd_ctl_set is called with commands queued.
THEOREM CommandsAreInOnePlace ==
  ASSUME "ctl_on" \notin Races
  PROVE  ExecSpec => []TakenOnce
<1>1. ExecInv => TakenOnce
  BY TakenOnceFollows DEF ExecInv
<1> QED
  BY <1>1, ExecInvHolds, PTL

\* While wait_rpt_flg is set, the status of a transmission, the timer, or the timer of
\* mul_cmd_q with the GET that is queued there will clear it; nothing is asked of other
\* threads' use of cmd_num.
THEOREM EveryWaitEnds ==
  ASSUME Races \subseteq {"cmd_num"}
  PROVE  ExecSpec => []WaitEnds
<1>1. ExecInv => WaitEnds
  BY DEF ExecInv, WaitInv, NothingTaken
<1> QED
  BY <1>1, ExecInvHolds, PTL
=============================================================================
