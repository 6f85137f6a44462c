------------------------- MODULE ManagerListsProofs -------------------------
(***************************************************************************)
(* Proofs about ManagerLists for every number of servers, messages and     *)
(* addresses, with the setting roundrobinjaxers on, which is its default.  *)
(*                                                                         *)
(* The lists are memory: next fields that lead from one object to the      *)
(* next.  The proofs speak of a sequence that is Linked by them instead,   *)
(* and ChainIs says once that it is what the loops of the program meet.    *)
(* Each operator has a lemma that says which sequence it leads to.         *)
(***************************************************************************)
EXTENDS ManagerLists, FiniteSetTheorems, WellFoundedInduction, TLAPS

-----------------------------------------------------------------------------
(* Induction, on a set of numbers, and definition by recursion.            *)

\* A set of numbers that is not empty has a least one.
LEMMA Least ==
  ASSUME NEW T \in SUBSET Nat, T # {}
  PROVE  \E n \in T : \A k \in T : n <= k
<1>1. IsWellFoundedOn(OpToRel(<, Nat), Nat)
  BY NatLessThanWellFounded
<1>2. PICK n \in T : \A k \in T : ~(<<k, n>> \in OpToRel(<, Nat))
  BY <1>1, WFMin
<1>3. \A k \in T : ~(k < n)
  BY <1>2 DEF OpToRel
<1> QED
  BY <1>3

\* A set that has 0, and the successor of each number it has, has all numbers.
LEMMA Induct ==
  ASSUME NEW T, 0 \in T, \A n \in Nat : n \in T => n + 1 \in T
  PROVE  \A n \in Nat : n \in T
<1> DEFINE U == {n \in Nat : n \notin T}
<1>1. SUFFICES ASSUME U # {} PROVE FALSE
  OBVIOUS
<1>2. PICK n \in U : \A k \in U : n <= k
  BY <1>1, Least
<1>3. n # 0 /\ n - 1 \in Nat /\ n - 1 \in T
  BY <1>2
<1>4. n \in T
  BY <1>2, <1>3
<1> QED
  BY <1>2, <1>4

\* The steps F lead from the set S[n-1] into S[n].
Leads(N, S, F) == \A n \in 1..N : \A v \in S[n-1] : F[n][v] \in S[n]

\* f is what is built from b with the steps F.
Built(N, S, b, F, f) ==
  /\ f = [n \in 0..N |-> f[n]]
  /\ f[0] = b
  /\ \A n \in 1..N : f[n] = F[n][f[n-1]]
  /\ \A n \in 0..N : f[n] \in S[n]

\* What is defined by recursion along 1..N exists, and stays in the sets that the
\* steps lead through.
LEMMA Recursion ==
  ASSUME NEW N \in Nat, NEW S, NEW b \in S[0], NEW F, Leads(N, S, F)
  PROVE  \E f : Built(N, S, b, F, f)
<1> DEFINE R(n, f) == Built(n, S, b, F, f)
           T == {n \in Nat : n <= N => \E f : R(n, f)}
<1>1. 0 \in T
  <2>1. R(0, [k \in 0..0 |-> b])
    BY DEF Built
  <2> QED
    BY <2>1
<1>2. ASSUME NEW n \in Nat, n \in T PROVE n + 1 \in T
  <2>1. SUFFICES ASSUME n + 1 <= N PROVE \E g : R(n + 1, g)
    <3> HIDE DEF R
    <3> QED
      OBVIOUS
  <2>2. PICK f : R(n, f)
    BY <1>2, <2>1
  <2> DEFINE g == [k \in 0..n+1 |-> IF k = n + 1 THEN F[k][f[k-1]] ELSE f[k]]
  <2>3. g = [k \in 0..n+1 |-> g[k]]
    OBVIOUS
  <2>4. g[0] = b
    BY <2>2 DEF Built
  <2>5. ASSUME NEW k \in 1..n+1 PROVE g[k] = F[k][g[k-1]]
    <3>1. g[k-1] = f[k-1] /\ k \in 0..n+1
      OBVIOUS
    <3>2. k # n + 1 => k \in 1..n
      OBVIOUS
    <3>3. k # n + 1 => f[k] = F[k][f[k-1]]
      BY <2>2, <3>2 DEF Built
    <3> QED
      BY <3>1, <3>3
  <2>6. ASSUME NEW k \in 0..n+1 PROVE g[k] \in S[k]
    <3>1. CASE k = n + 1
      <4>1. f[n] \in S[n]
        BY <2>2 DEF Built
      <4>2. k \in 1..N /\ k - 1 = n
        BY <2>1, <3>1
      <4>3. F[k][f[n]] \in S[k]
        BY <4>1, <4>2 DEF Leads
      <4> QED
        BY <3>1, <4>2, <4>3
    <3>2. CASE k # n + 1
      BY <2>2, <3>2 DEF Built
    <3> QED
      BY <3>1, <3>2
  <2> HIDE DEF g
  <2> QED
    BY <2>3, <2>4, <2>5, <2>6 DEF Built
<1> HIDE DEF T
<1>3. N \in T
  BY <1>1, <1>2, Induct
<1> QED
  BY <1>3 DEF T

\* The values of a function that is defined so.
LEMMA RecursionStays ==
  ASSUME NEW N \in Nat, NEW S, NEW b \in S[0], NEW F, Leads(N, S, F),
         NEW f, f[0] = b,
         \A n \in 1..N : f[n-1] \in S[n-1] => f[n] = F[n][f[n-1]]
  PROVE  \A n \in 0..N : f[n] \in S[n]
<1> DEFINE T == {n \in Nat : n <= N => f[n] \in S[n]}
<1>1. 0 \in T
  OBVIOUS
<1>2. ASSUME NEW n \in Nat, n \in T PROVE n + 1 \in T
  <2>1. SUFFICES ASSUME n + 1 <= N PROVE f[n+1] \in S[n+1]
    OBVIOUS
  <2>2. f[n] \in S[n] /\ n + 1 \in 1..N /\ (n + 1) - 1 = n
    BY <1>2, <2>1
  <2>3. F[n+1][f[n]] \in S[n+1]
    BY <2>2 DEF Leads
  <2> QED
    BY <2>2, <2>3
<1> HIDE DEF T
<1>3. \A n \in Nat : n \in T
  BY <1>1, <1>2, Induct
<1> QED
  BY <1>3 DEF T

-----------------------------------------------------------------------------
(* A linked list.                                                          *)

\* From x on, next leads along the different elements of q to null.
Linked(next, x, null, q) ==
  /\ IF q = <<>> THEN x = null ELSE x = q[1] /\ next[q[Len(q)]] = null
  /\ \A i \in 1..Len(q)-1 : next[q[i]] = q[i+1]
  /\ \A i, j \in 1..Len(q) : q[i] = q[j] => i = j

\* A sequence without repetition is no longer than its set is large.
LEMMA DifferentElements ==
  ASSUME NEW D, IsFiniteSet(D), NEW q \in Seq(D),
         \A i, j \in 1..Len(q) : q[i] = q[j] => i = j
  PROVE  Len(q) <= Cardinality(D)
<1>1. q \in Injection(1..Len(q), D)
  BY DEF Injection, IsInjective
<1>2. Cardinality(1..Len(q)) <= Cardinality(D)
  BY <1>1, FS_Injection
<1>3. Cardinality(1..Len(q)) = Len(q)
  BY FS_Interval
<1> QED
  BY <1>2, <1>3

\* The rest of a sequence from k on is its k-th element and the rest after it.
LEMMA SubSeqFirst ==
  ASSUME NEW D, NEW q \in Seq(D), NEW k \in 1..Len(q)
  PROVE  <<q[k]>> \o SubSeq(q, k+1, Len(q)) = SubSeq(q, k, Len(q))
OBVIOUS

\* What Chain computes: a sequence that is linked from x to null is the chain from
\* x on, though Chain only goes as far as there are elements.
LEMMA ChainIs ==
  ASSUME NEW D, IsFiniteSet(D), NEW null, null \notin D,
         NEW next \in [D -> D \cup {null}], NEW x \in D \cup {null},
         NEW q \in Seq(D), Linked(next, x, null, q)
  PROVE  Chain(next, x, null) = q
<1> DEFINE N == Cardinality(D)
           S == D \cup {null}
           Lists == [S -> Seq(D)]
           P(f) == f = [n \in 0..N |->
                     [y \in S |-> IF n = 0 \/ y = null THEN <<>>
                                  ELSE <<y>> \o f[n-1][next[y]]]]
           from == CHOOSE f : P(f)
<1>1. DOMAIN next = D /\ N \in Nat
  BY FS_CardinalityType
<1>2. Chain(next, x, null) = from[N][x]
  BY <1>1 DEF Chain
<1>3. \E f : P(f)
  <2> DEFINE F == [n \in 1..N |-> [v \in Lists |->
                    [y \in S |-> IF y = null THEN <<>> ELSE <<y>> \o v[next[y]]]]]
             b == [y \in S |-> <<>>]
             In == [n \in 0..N |-> Lists]
  <2>1. b \in In[0]
    BY <1>1
  <2>2. ASSUME NEW n \in 1..N, NEW v \in In[n-1] PROVE F[n][v] \in In[n]
    <3>1. v \in Lists /\ n \in 0..N
      BY <1>1
    <3>2. F[n][v] = [y \in S |-> IF y = null THEN <<>> ELSE <<y>> \o v[next[y]]]
      BY <3>1
    <3>3. ASSUME NEW y \in S, y # null PROVE <<y>> \o v[next[y]] \in Seq(D)
      <4>1. y \in D /\ next[y] \in S
        BY <3>3
      <4>2. v[next[y]] \in Seq(D) /\ <<y>> \in Seq(D)
        BY <4>1, <3>1
      <4> QED
        BY <4>2
    <3>4. <<>> \in Seq(D)
      OBVIOUS
    <3>5. F[n][v] \in Lists
      <4> HIDE DEF F
      <4> QED
        BY <3>2, <3>3, <3>4
    <3> QED
      BY <3>5, <3>1
  <2> HIDE DEF F, b, In, N
  <2>3. Leads(N, In, F)
    BY <2>2 DEF Leads
  <2>5. PICK f : Built(N, In, b, F, f)
    BY <1>1, <2>1, <2>3, Recursion
  <2>4. ASSUME NEW n \in 0..N
        PROVE  f[n] = [y \in S |-> IF n = 0 \/ y = null THEN <<>>
                                   ELSE <<y>> \o f[n-1][next[y]]]
    <3>1. CASE n = 0
      BY <2>5, <3>1 DEF b, Built
    <3>2. CASE n # 0
      <4>1. n \in 1..N /\ n - 1 \in 0..N
        BY <1>1, <3>2
      <4>2. f[n] = F[n][f[n-1]] /\ f[n-1] \in Lists
        BY <2>5, <4>1 DEF In, Built
      <4>3. F[n][f[n-1]] =
              [y \in S |-> IF y = null THEN <<>> ELSE <<y>> \o f[n-1][next[y]]]
        BY <4>1, <4>2 DEF F
      <4> QED
        BY <3>2, <4>2, <4>3
    <3> QED
      BY <3>1, <3>2
  <2>6. P(f)
    BY <2>4, <2>5 DEF Built
  <2> QED
    BY <2>6
<1>4. P(from)
  <2> HIDE DEF P
  <2> QED
    BY <1>3
<1> HIDE DEF N, from
<1>5. \A n \in 0..N : from[n] = [y \in S |-> IF n = 0 \/ y = null THEN <<>>
                                             ELSE <<y>> \o from[n-1][next[y]]]
  BY <1>4
<1>6. ASSUME NEW n \in 0..N PROVE from[n][null] = <<>>
  BY <1>5
<1>7. ASSUME NEW n \in 1..N, NEW y \in D
      PROVE  from[n][y] = <<y>> \o from[n-1][next[y]]
  <2>1. n \in 0..N /\ n # 0
    BY <1>1
  <2>2. y \in S /\ y # null
    OBVIOUS
  <2>3. from[n][y] = IF n = 0 \/ y = null THEN <<>> ELSE <<y>> \o from[n-1][next[y]]
    <3> DEFINE g == from[n]
               h == from[n-1]
    <3>1. g = [z \in S |-> IF n = 0 \/ z = null THEN <<>> ELSE <<z>> \o h[next[z]]]
      BY <1>5, <2>1
    <3> HIDE DEF g, h
    <3>2. g[y] = IF n = 0 \/ y = null THEN <<>> ELSE <<y>> \o h[next[y]]
      BY <2>2, <3>1
    <3> QED
      BY <3>2 DEF g, h
  <2> QED
    BY <2>1, <2>2, <2>3
<1> DEFINE T == {n \in Nat : n <= N =>
                   \A k \in 1..Len(q) :
                     n > Len(q) - k => from[n][q[k]] = SubSeq(q, k, Len(q))}
<1>8. 0 \in T
  OBVIOUS
<1>9. ASSUME NEW n \in Nat, n \in T PROVE n + 1 \in T
  <2>1. SUFFICES ASSUME n + 1 <= N, NEW k \in 1..Len(q), n + 1 > Len(q) - k
                 PROVE  from[n+1][q[k]] = SubSeq(q, k, Len(q))
    OBVIOUS
  <2>2. q[k] \in D
    OBVIOUS
  <2>3. n + 1 \in 1..N /\ (n + 1) - 1 = n /\ n \in 0..N
    BY <1>1, <2>1
  <2>4. from[n+1][q[k]] = <<q[k]>> \o from[n][next[q[k]]]
    BY <1>7, <2>2, <2>3
  <2>5. CASE k = Len(q)
    <3>1. next[q[k]] = null
      BY <2>5 DEF Linked
    <3>2. SubSeq(q, k+1, Len(q)) = <<>>
      BY <2>5
    <3> QED
      BY <2>3, <2>4, <3>1, <3>2, <1>6, SubSeqFirst
  <2>6. CASE k # Len(q)
    <3>1. next[q[k]] = q[k+1] /\ k + 1 \in 1..Len(q) /\ n > Len(q) - (k + 1)
      BY <2>1, <2>6 DEF Linked
    <3>2. from[n][q[k+1]] = SubSeq(q, k+1, Len(q))
      BY <1>9, <2>3, <3>1
    <3> QED
      BY <2>4, <3>1, <3>2, SubSeqFirst
  <2> QED
    BY <2>5, <2>6
<1> HIDE DEF T
<1>10. N \in T
  BY <1>1, <1>8, <1>9, Induct
<1>11. CASE q = <<>>
  BY <1>1, <1>2, <1>6, <1>11 DEF Linked
<1>12. CASE q # <<>>
  <2>1. Len(q) <= N
    BY DifferentElements DEF Linked, N
  <2>2. 1 \in 1..Len(q) /\ N > Len(q) - 1
    BY <1>12, <2>1, <1>1
  <2>3. from[N][q[1]] = SubSeq(q, 1, Len(q))
    BY <1>1, <1>10, <2>2 DEF T
  <2>4. SubSeq(q, 1, Len(q)) = q
    OBVIOUS
  <2> QED
    BY <1>2, <1>12, <2>3, <2>4 DEF Linked
<1> QED
  BY <1>11, <1>12

-----------------------------------------------------------------------------
(* The memory, field by field.                                             *)

\* The idle list is the same in n as in m.
SameIdle(m, n) ==
  /\ n.idleServers = m.idleServers
  /\ n.nextIdle = m.nextIdle
  /\ n.idleCount = m.idleCount

\* The list of messages is the same.
SameMessages(m, n) ==
  /\ n.used = m.used
  /\ n.first = m.first
  /\ n.last = m.last
  /\ n.next = m.next
  /\ n.target = m.target
  /\ n.cancelled = m.cancelled
  /\ n.text = m.text
  /\ n.appended = m.appended

\* The same messages were sent.
SameSent(m, n) ==
  /\ n.lastSent = m.lastSent
  /\ n.refcount = m.refcount

Doings == {"none", "starting", "idle", "busy", "pushing", "exiting", "removed"}

\* The types of the fields.
LEMMA MemoryFields ==
  ASSUME NEW m \in Memory
  PROVE  /\ m.idleServers \in Servers \cup {NoServer}
         /\ m.nextIdle \in [Servers -> Servers \cup {NoServer}]
         /\ m.idleCount \in Nat
         /\ m.lastSent \in [Servers -> Slots \cup {NoMessage}]
         /\ m.used \in SUBSET Slots
         /\ m.first \in Slots
         /\ m.last \in Slots
         /\ m.next \in [Slots -> Slots \cup {NoMessage}]
         /\ m.refcount \in [Slots -> Nat]
         /\ m.target \in [Slots -> Servers \cup {NoServer}]
         /\ m.cancelled \in [Slots -> BOOLEAN]
         /\ m.text \in [Slots -> Texts \cup {NoText}]
         /\ m.appended \in 0..MaxMessages
         /\ m.doing \in [Servers -> Doings]
BY DEF Memory, Doings

-----------------------------------------------------------------------------
(* A memory some of whose fields are new, field by field.                   *)

WithIdle(m, x, f, c) == [m EXCEPT !.idleServers = x, !.nextIdle = f, !.idleCount = c]

IdleTyped(x, f, c) ==
  /\ x \in Servers \cup {NoServer}
  /\ f \in [Servers -> Servers \cup {NoServer}]
  /\ c \in Nat

\* The idle list changes.
LEMMA IdleFields ==
  ASSUME NEW m \in Memory, NEW x, NEW f, NEW c, IdleTyped(x, f, c),
         NEW n, n = WithIdle(m, x, f, c)
  PROVE  /\ n \in Memory
         /\ n.idleServers = x /\ n.nextIdle = f /\ n.idleCount = c
         /\ SameMessages(m, n) /\ SameSent(m, n) /\ n.doing = m.doing
<1> DEFINE m1 == [m EXCEPT !.idleServers = x]
           m2 == [m1 EXCEPT !.nextIdle = f]
<1> USE DEF IdleTyped
<1>1. m1 \in Memory
  BY DEF Memory
<1>2. n = [m1 EXCEPT !.nextIdle = f, !.idleCount = c]
  BY DEF WithIdle
<1>3. /\ n.idleServers = x /\ n.nextIdle = f /\ n.idleCount = c
      /\ SameMessages(m, n) /\ SameSent(m, n) /\ n.doing = m.doing
  BY DEF WithIdle, Memory, SameMessages, SameSent
<1> HIDE DEF m1
<1>4. m2 \in Memory
  BY <1>1 DEF Memory
<1>5. n = [m2 EXCEPT !.idleCount = c]
  BY <1>2
<1> HIDE DEF m2
<1>6. n \in Memory
  BY <1>4, <1>5 DEF Memory
<1> QED
  BY <1>3, <1>6

WithSent(m, r, f) == [m EXCEPT !.refcount = r, !.lastSent = f]

\* What was sent changes.
LEMMA SentFields ==
  ASSUME NEW m \in Memory, NEW r \in [Slots -> Nat],
         NEW f \in [Servers -> Slots \cup {NoMessage}],
         NEW n, n = WithSent(m, r, f)
  PROVE  /\ n \in Memory
         /\ n.refcount = r /\ n.lastSent = f
         /\ SameMessages(m, n) /\ SameIdle(m, n) /\ n.doing = m.doing
<1> DEFINE m1 == [m EXCEPT !.refcount = r]
<1>1. m1 \in Memory
  BY DEF Memory
<1>2. n = [m1 EXCEPT !.lastSent = f]
  BY DEF WithSent
<1>3. /\ n.refcount = r /\ n.lastSent = f
      /\ SameMessages(m, n) /\ SameIdle(m, n) /\ n.doing = m.doing
  BY DEF WithSent, Memory, SameMessages, SameIdle
<1> HIDE DEF m1
<1>4. n \in Memory
  BY <1>1, <1>2 DEF Memory
<1> QED
  BY <1>3, <1>4

WithCancelled(m, r, f, c) ==
  [m EXCEPT !.refcount = r, !.lastSent = f, !.cancelled = c]

\* What was sent, and which messages are cancelled.
LEMMA CancelledFields ==
  ASSUME NEW m \in Memory, NEW r \in [Slots -> Nat],
         NEW f \in [Servers -> Slots \cup {NoMessage}],
         NEW c \in [Slots -> BOOLEAN],
         NEW n, n = WithCancelled(m, r, f, c)
  PROVE  /\ n \in Memory
         /\ n.refcount = r /\ n.lastSent = f
         /\ n.used = m.used /\ n.first = m.first /\ n.last = m.last /\ n.next = m.next
         /\ SameIdle(m, n) /\ n.doing = m.doing
<1> DEFINE m1 == [m EXCEPT !.refcount = r]
           m2 == [m1 EXCEPT !.lastSent = f]
<1>1. m1 \in Memory
  BY DEF Memory
<1>2. n = [m1 EXCEPT !.lastSent = f, !.cancelled = c]
  BY DEF WithCancelled
<1>3. /\ n.refcount = r /\ n.lastSent = f
      /\ n.used = m.used /\ n.first = m.first /\ n.last = m.last /\ n.next = m.next
      /\ SameIdle(m, n) /\ n.doing = m.doing
  BY DEF WithCancelled, Memory, SameIdle
<1> HIDE DEF m1
<1>4. m2 \in Memory
  BY <1>1 DEF Memory
<1>5. n = [m2 EXCEPT !.cancelled = c]
  BY <1>2
<1> HIDE DEF m2
<1>6. n \in Memory
  BY <1>4, <1>5 DEF Memory
<1> QED
  BY <1>3, <1>6

WithAppended(m, u, f, l, t, x, a) ==
  [m EXCEPT !.used = u, !.next = f, !.last = l, !.target = t, !.text = x,
            !.appended = a]

\* The list of messages grows.
LEMMA AppendedFields ==
  ASSUME NEW m \in Memory, NEW u \in SUBSET Slots,
         NEW f \in [Slots -> Slots \cup {NoMessage}], NEW l \in Slots,
         NEW t \in [Slots -> Servers \cup {NoServer}],
         NEW x \in [Slots -> Texts \cup {NoText}], NEW a \in 0..MaxMessages,
         NEW n, n = WithAppended(m, u, f, l, t, x, a)
  PROVE  /\ n \in Memory
         /\ n.used = u /\ n.first = m.first /\ n.last = l /\ n.next = f
         /\ n.appended = a
         /\ SameIdle(m, n) /\ SameSent(m, n) /\ n.doing = m.doing
<1> DEFINE m1 == [m EXCEPT !.used = u]
           m2 == [m1 EXCEPT !.next = f]
           m3 == [m2 EXCEPT !.last = l]
           m4 == [m3 EXCEPT !.target = t]
           m5 == [m4 EXCEPT !.text = x]
<1>1. m1 \in Memory
  BY DEF Memory
<1>2. n = [m1 EXCEPT !.next = f, !.last = l, !.target = t, !.text = x, !.appended = a]
  BY DEF WithAppended
<1>3. /\ n.used = u /\ n.first = m.first /\ n.last = l /\ n.next = f
      /\ n.appended = a
      /\ SameIdle(m, n) /\ SameSent(m, n) /\ n.doing = m.doing
  BY DEF WithAppended, Memory, SameIdle, SameSent
<1> HIDE DEF m1
<1>4. m2 \in Memory
  BY <1>1 DEF Memory
<1>5. n = [m2 EXCEPT !.last = l, !.target = t, !.text = x, !.appended = a]
  BY <1>2
<1> HIDE DEF m2
<1>6. m3 \in Memory
  BY <1>4 DEF Memory
<1>7. n = [m3 EXCEPT !.target = t, !.text = x, !.appended = a]
  BY <1>5
<1> HIDE DEF m3
<1>8. m4 \in Memory
  BY <1>6 DEF Memory
<1>9. n = [m4 EXCEPT !.text = x, !.appended = a]
  BY <1>7
<1> HIDE DEF m4
<1>10. m5 \in Memory
  BY <1>8 DEF Memory
<1>11. n = [m5 EXCEPT !.appended = a]
  BY <1>9
<1> HIDE DEF m5
<1>12. n \in Memory
  BY <1>10, <1>11 DEF Memory
<1> QED
  BY <1>3, <1>12

WithDropped(m, i, u, f, t, c, x) ==
  [m EXCEPT !.first = i, !.used = u, !.next = f, !.target = t, !.cancelled = c,
            !.text = x]

\* The list of messages shrinks.
LEMMA DroppedFields ==
  ASSUME NEW m \in Memory, NEW i \in Slots, NEW u \in SUBSET Slots,
         NEW f \in [Slots -> Slots \cup {NoMessage}],
         NEW t \in [Slots -> Servers \cup {NoServer}],
         NEW c \in [Slots -> BOOLEAN],
         NEW x \in [Slots -> Texts \cup {NoText}],
         NEW n, n = WithDropped(m, i, u, f, t, c, x)
  PROVE  /\ n \in Memory
         /\ n.used = u /\ n.first = i /\ n.last = m.last /\ n.next = f
         /\ SameIdle(m, n) /\ SameSent(m, n) /\ n.doing = m.doing
<1> DEFINE m1 == [m EXCEPT !.first = i]
           m2 == [m1 EXCEPT !.used = u]
           m3 == [m2 EXCEPT !.next = f]
           m4 == [m3 EXCEPT !.target = t]
           m5 == [m4 EXCEPT !.cancelled = c]
<1>1. m1 \in Memory
  BY DEF Memory
<1>2. n = [m1 EXCEPT !.used = u, !.next = f, !.target = t, !.cancelled = c, !.text = x]
  BY DEF WithDropped
<1>3. /\ n.used = u /\ n.first = i /\ n.last = m.last /\ n.next = f
      /\ SameIdle(m, n) /\ SameSent(m, n) /\ n.doing = m.doing
  BY DEF WithDropped, Memory, SameIdle, SameSent
<1> HIDE DEF m1
<1>4. m2 \in Memory
  BY <1>1 DEF Memory
<1>5. n = [m2 EXCEPT !.next = f, !.target = t, !.cancelled = c, !.text = x]
  BY <1>2
<1> HIDE DEF m2
<1>6. m3 \in Memory
  BY <1>4 DEF Memory
<1>7. n = [m3 EXCEPT !.target = t, !.cancelled = c, !.text = x]
  BY <1>5
<1> HIDE DEF m3
<1>8. m4 \in Memory
  BY <1>6 DEF Memory
<1>9. n = [m4 EXCEPT !.cancelled = c, !.text = x]
  BY <1>7
<1> HIDE DEF m4
<1>10. m5 \in Memory
  BY <1>8 DEF Memory
<1>11. n = [m5 EXCEPT !.text = x]
  BY <1>9
<1> HIDE DEF m5
<1>12. n \in Memory
  BY <1>10, <1>11 DEF Memory
<1> QED
  BY <1>3, <1>12

\* What a server is doing, alone.
LEMMA DoingField ==
  ASSUME NEW m \in Memory, NEW s \in Servers, NEW what \in Doings,
         NEW n, n = Now(m, s, what)
  PROVE  /\ n \in Memory
         /\ n.doing = [m.doing EXCEPT ![s] = what]
         /\ SameMessages(m, n) /\ SameIdle(m, n) /\ SameSent(m, n)
<1> DEFINE f == [m.doing EXCEPT ![s] = what]
<1>1. f \in [Servers -> Doings]
  BY MemoryFields
<1>2. n = [m EXCEPT !.doing = f]
  BY DEF Now, Memory
<1> HIDE DEF f
<1>3. /\ n \in Memory /\ n.doing = f
      /\ SameMessages(m, n) /\ SameIdle(m, n) /\ SameSent(m, n)
  BY <1>1, <1>2 DEF Memory, Doings, SameMessages, SameIdle, SameSent
<1> QED
  BY <1>3 DEF f

-----------------------------------------------------------------------------
(* The idle list.                                                          *)

\* p is the idle list.
Idlers(m, p) ==
  /\ p \in Seq(Servers)
  /\ Linked(m.nextIdle, m.idleServers, NoServer, p)
  /\ m.idleCount = Len(p)

Elements(q) == {q[i] : i \in 1..Len(q)}

\* What is in a sequence.
LEMMA ToSetIs ==
  ASSUME NEW D, NEW q \in Seq(D)
  PROVE  ToSet(q) = Elements(q)
BY DEF ToSet, Elements

\* The idle list that the program walks along is p.
LEMMA IdleListIs ==
  ASSUME NEW m \in Memory, NEW p, Idlers(m, p)
  PROVE  IdleList(m) = p
<1>1. /\ m.nextIdle \in [Servers -> Servers \cup {NoServer}]
      /\ m.idleServers \in Servers \cup {NoServer}
  BY MemoryFields
<1> QED
  BY <1>1, ListAssumption, ChainIs DEF Idlers, IdleList

\* The idle list depends on its own fields only.
LEMMA SameIdlers ==
  ASSUME NEW m, NEW n, SameIdle(m, n), NEW p, Idlers(m, p)
  PROVE  Idlers(n, p)
BY DEF SameIdle, Idlers

\* A new element linked behind the last one of a list makes the list one longer.
LEMMA LinkedAppend ==
  ASSUME NEW D, NEW null, null \notin D, NEW next \in [D -> D \cup {null}],
         NEW x \in D \cup {null}, NEW q \in Seq(D), Linked(next, x, null, q),
         NEW y \in D \ Elements(q),
         NEW nnext \in [D -> D \cup {null}], nnext[y] = null,
         \A z \in D \ {y} : (q = <<>> \/ z # q[Len(q)]) => nnext[z] = next[z],
         q # <<>> => nnext[q[Len(q)]] = y,
         NEW nx \in D, nx = IF q = <<>> THEN y ELSE x,
         NEW r \in Seq(D), Len(r) = Len(q) + 1, r[Len(r)] = y,
         \A i \in 1..Len(q) : r[i] = q[i]
  PROVE  Linked(nnext, nx, null, r)
<1>1. /\ r \in Seq(D) /\ Len(r) = Len(q) + 1 /\ r[Len(r)] = y
      /\ \A i \in 1..Len(q) : r[i] = q[i]
  OBVIOUS
<1>2. \A i \in 1..Len(q) : q[i] # y /\ q[i] \in D
  BY DEF Elements
<1>3. \A i, j \in 1..Len(q) : q[i] = q[j] => i = j
  BY DEF Linked
<1>4. nx = r[1]
  BY <1>1 DEF Linked
<1>5. ASSUME NEW i \in 1..Len(r)-1 PROVE nnext[r[i]] = r[i+1]
  <2>1. i \in 1..Len(q) /\ r[i] = q[i] /\ Len(q) \in 1..Len(q) /\ q # <<>>
    BY <1>1
  <2>2. CASE i = Len(q)
    BY <1>1, <2>1, <2>2
  <2>3. CASE i # Len(q)
    <3>1. q[i] # q[Len(q)]
      BY <1>3, <2>1, <2>3
    <3>2. nnext[q[i]] = next[q[i]]
      BY <1>2, <2>1, <3>1
    <3>3. next[q[i]] = q[i+1] /\ r[i+1] = q[i+1]
      BY <1>1, <2>1, <2>3 DEF Linked
    <3> QED
      BY <2>1, <3>2, <3>3
  <2> QED
    BY <2>2, <2>3
<1>6. ASSUME NEW i \in 1..Len(r), NEW j \in 1..Len(r), r[i] = r[j] PROVE i = j
  <2>1. CASE i \in 1..Len(q) /\ j \in 1..Len(q)
    BY <1>1, <1>3, <1>6, <2>1
  <2>2. CASE i = Len(r) \/ j = Len(r)
    BY <1>1, <1>2, <1>6, <2>2
  <2> QED
    BY <1>1, <2>1, <2>2
<1>7. r # <<>> /\ nnext[r[Len(r)]] = null
  BY <1>1
<1> QED
  BY <1>4, <1>5, <1>6, <1>7 DEF Linked

\* A server that is not on the list is put at its end.
LEMMA AddIdleServerIs ==
  ASSUME NEW m \in Memory, NEW p, Idlers(m, p), NEW s \in Servers \ Elements(p),
         NEW n, n = AddIdleServer(m, s)
  PROVE  /\ n \in Memory
         /\ Idlers(n, Append(p, s))
         /\ SameMessages(m, n) /\ SameSent(m, n) /\ n.doing = m.doing
<1>1. /\ m.nextIdle \in [Servers -> Servers \cup {NoServer}]
      /\ m.idleServers \in Servers \cup {NoServer}
      /\ m.idleCount \in Nat
      /\ p \in Seq(Servers)
      /\ m.idleCount = Len(p)
      /\ Linked(m.nextIdle, m.idleServers, NoServer, p)
  BY MemoryFields DEF Idlers
<1>2. m.idleServers = NoServer <=> p = <<>>
  BY <1>1, ListAssumption DEF Linked
<1> DEFINE x == IF p = <<>> THEN s ELSE m.idleServers
           f == [t \in Servers |-> IF p # <<>> /\ t = p[Len(p)] THEN s
                                   ELSE IF t = s THEN NoServer ELSE m.nextIdle[t]]
           c == m.idleCount + 1
<1>3. x \in Servers /\ f \in [Servers -> Servers \cup {NoServer}] /\ c \in Nat
  BY <1>1, <1>2
<1>4. n = WithIdle(m, x, f, c)
  <2>1. CASE p = <<>>
    <3>1. f = [m.nextIdle EXCEPT ![s] = NoServer]
      BY <1>1, <2>1
    <3> QED
      BY <1>2, <2>1, <3>1 DEF AddIdleServer, WithIdle, Memory
  <2>2. CASE p # <<>>
    <3>1. Last(IdleList(m)) = p[Len(p)]
      BY IdleListIs DEF Last
    <3>2. p[Len(p)] \in Servers /\ p[Len(p)] # s
      BY <1>1, <2>2 DEF Elements
    <3>3. f = [[m.nextIdle EXCEPT ![s] = NoServer] EXCEPT ![p[Len(p)]] = s]
      BY <1>1, <2>2, <3>2
    <3> QED
      BY <1>2, <2>2, <3>1, <3>3 DEF AddIdleServer, WithIdle, Memory
  <2> QED
    BY <2>1, <2>2
<1> HIDE DEF f, x, c
<1>5. /\ n \in Memory
      /\ n.idleServers = x /\ n.nextIdle = f /\ n.idleCount = c
      /\ SameMessages(m, n) /\ SameSent(m, n) /\ n.doing = m.doing
  <2>1. IdleTyped(x, f, c)
    BY <1>3 DEF IdleTyped
  <2> QED
    BY <1>4, <2>1, IdleFields
<1>6. /\ f[s] = NoServer
      /\ \A z \in Servers \ {s} : (p = <<>> \/ z # p[Len(p)]) => f[z] = m.nextIdle[z]
      /\ p # <<>> => f[p[Len(p)]] = s
  BY <1>1 DEF f, Elements
<1> DEFINE r == Append(p, s)
<1>7. Linked(f, x, NoServer, r)
  <2>1. x = IF p = <<>> THEN s ELSE m.idleServers
    BY DEF x
  <2>2. /\ r \in Seq(Servers) /\ Len(r) = Len(p) + 1 /\ r[Len(r)] = s
        /\ \A i \in 1..Len(p) : r[i] = p[i]
    BY <1>1
  <2> HIDE DEF r
  <2>3. NoServer \notin Servers
    BY ListAssumption
  <2> DEFINE next == m.nextIdle
             y == m.idleServers
  <2>4. /\ next \in [Servers -> Servers \cup {NoServer}]
        /\ y \in Servers \cup {NoServer}
        /\ p \in Seq(Servers)
        /\ Linked(next, y, NoServer, p)
        /\ \A z \in Servers \ {s} : (p = <<>> \/ z # p[Len(p)]) => f[z] = next[z]
        /\ x = IF p = <<>> THEN s ELSE y
    BY <1>1, <1>6, <2>1
  <2>5. /\ f \in [Servers -> Servers \cup {NoServer}]
        /\ f[s] = NoServer
        /\ p # <<>> => f[p[Len(p)]] = s
        /\ x \in Servers
    BY <1>3, <1>6
  <2> HIDE DEF next, y
  <2> QED
    BY <2>2, <2>3, <2>4, <2>5, LinkedAppend
<1>8. r \in Seq(Servers) /\ Len(r) = c
  BY <1>1 DEF c
<1> QED
  BY <1>5, <1>7, <1>8 DEF Idlers

\* Of q, the one before the k-th element links past it.
Relinked(next, nnext, q, k) ==
  \A i \in 1..Len(q) : i # k =>
    nnext[q[i]] = IF i = k - 1 THEN next[q[k]] ELSE next[q[i]]

\* r is q without its k-th element.
Without(q, k, r) ==
  /\ Len(r) = Len(q) - 1
  /\ \A i \in 1..Len(r) : r[i] = IF i < k THEN q[i] ELSE q[i+1]

\* A list without its k-th element, when the one before is linked to the one after.
LEMMA LinkedRemove ==
  ASSUME NEW D, NEW null, null \notin D, NEW next \in [D -> D \cup {null}],
         NEW x, NEW q \in Seq(D), Linked(next, x, null, q),
         NEW k \in 1..Len(q),
         NEW nnext, Relinked(next, nnext, q, k),
         NEW nx, nx = IF k = 1 THEN next[x] ELSE x,
         NEW r \in Seq(D), Without(q, k, r)
  PROVE  Linked(nnext, nx, null, r) /\ Elements(r) = Elements(q) \ {q[k]}
<1>0. /\ Len(r) = Len(q) - 1
      /\ \A i \in 1..Len(r) : r[i] = IF i < k THEN q[i] ELSE q[i+1]
      /\ \A i \in 1..Len(q) : i # k =>
           nnext[q[i]] = IF i = k - 1 THEN next[q[k]] ELSE next[q[i]]
  BY DEF Without, Relinked
<1>1. /\ q # <<>> /\ x = q[1] /\ next[q[Len(q)]] = null
      /\ \A i \in 1..Len(q)-1 : next[q[i]] = q[i+1]
      /\ \A i, j \in 1..Len(q) : q[i] = q[j] => i = j
  BY DEF Linked
<1>2. \A i \in 1..Len(r) : IF i < k THEN i \in 1..Len(q) /\ r[i] = q[i]
                           ELSE i + 1 \in 1..Len(q) /\ r[i] = q[i+1]
  BY <1>0
<1>3. Elements(r) \subseteq Elements(q) \ {q[k]}
  BY <1>0, <1>1, <1>2 DEF Elements
<1>4. ASSUME NEW i \in 1..Len(q), i # k PROVE q[i] \in Elements(r)
  <2>1. CASE i < k
    <3>1. i \in 1..Len(r) /\ r[i] = q[i]
      BY <1>0, <2>1
    <3> QED
      BY <1>0, <3>1 DEF Elements
  <2>2. CASE i > k
    <3>1. i - 1 \in 1..Len(r) /\ r[i-1] = q[i]
      BY <1>0, <2>2
    <3> QED
      BY <1>0, <3>1 DEF Elements
  <2> QED
    BY <1>0, <1>4, <2>1, <2>2
<1>5. Elements(r) = Elements(q) \ {q[k]}
  <2>1. ASSUME NEW z \in Elements(q) \ {q[k]} PROVE z \in Elements(r)
    <3>1. PICK i \in 1..Len(q) : z = q[i]
      BY <1>0, <2>1 DEF Elements
    <3>2. i # k
      BY <1>0, <2>1, <3>1
    <3> QED
      BY <1>0, <1>4, <3>1, <3>2
  <2> QED
    BY <1>0, <1>3, <2>1
<1>6. ASSUME NEW i \in 1..Len(r), NEW j \in 1..Len(r), r[i] = r[j] PROVE i = j
  BY <1>0, <1>1, <1>2, <1>6
<1>7. ASSUME NEW i \in 1..Len(r)-1 PROVE nnext[r[i]] = r[i+1]
  <2>1. i \in 1..Len(r) /\ i + 1 \in 1..Len(r)
    OBVIOUS
  <2>2. CASE i + 1 < k
    <3>1. r[i] = q[i] /\ r[i+1] = q[i+1] /\ i \in 1..Len(q)-1 /\ i \in 1..Len(q)
      BY <1>0, <2>1, <2>2
    <3>2. nnext[q[i]] = next[q[i]]
      BY <1>0, <2>2, <3>1
    <3> QED
      BY <1>0, <1>1, <3>1, <3>2
  <2>3. CASE i + 1 = k
    <3>1. r[i] = q[i] /\ r[i+1] = q[k+1] /\ i \in 1..Len(q) /\ k \in 1..Len(q)-1
      BY <1>0, <2>1, <2>3
    <3>2. nnext[q[i]] = next[q[k]]
      BY <1>0, <2>3, <3>1
    <3> QED
      BY <1>0, <1>1, <3>1, <3>2
  <2>4. CASE i >= k
    <3>1. r[i] = q[i+1] /\ r[i+1] = q[(i+1)+1] /\ i + 1 \in 1..Len(q)-1 /\ i + 1 \in 1..Len(q)
      BY <1>0, <2>1, <2>4
    <3>2. nnext[q[i+1]] = next[q[i+1]]
      BY <1>0, <2>4, <3>1
    <3> QED
      BY <1>0, <1>1, <3>1, <3>2
  <2> QED
    BY <1>0, <2>2, <2>3, <2>4
<1>8. CASE r = <<>>
  <2>0. Len(r) = 0
    BY <1>0, <1>8
  <2>3. Len(q) \in Nat /\ Len(q) - 1 = 0
    BY <1>0, <2>0
  <2>1. Len(q) = 1 /\ k = 1
    BY <1>0, <2>3
  <2>2. nx = null
    BY <1>0, <1>1, <2>1
  <2> QED
    BY <1>5, <1>6, <1>7, <1>8, <2>2 DEF Linked
<1>9. CASE r # <<>>
  <2>1. 1 \in 1..Len(r) /\ Len(r) \in 1..Len(r)
    BY <1>0, <1>9
  <2>2. nx = r[1]
    <3>1. CASE k = 1
      <4>1. r[1] = q[1+1] /\ 1 \in 1..Len(q)-1
        BY <1>0, <2>1, <3>1
      <4> QED
        BY <1>0, <1>1, <3>1, <4>1
    <3>2. CASE k # 1
      <4>1. r[1] = q[1]
        BY <1>0, <2>1, <3>2
      <4> QED
        BY <1>0, <1>1, <3>2, <4>1
    <3> QED
      BY <1>0, <3>1, <3>2
  <2>3. nnext[r[Len(r)]] = null
    <3>1. CASE k = Len(q)
      <4>1. r[Len(r)] = q[k-1] /\ k - 1 \in 1..Len(q)
        BY <1>0, <2>1, <3>1
      <4>2. nnext[q[k-1]] = next[q[k]]
        <5> DEFINE j == k - 1
        <5>1. j \in 1..Len(q) /\ j # k /\ j = k - 1
          BY <1>0, <4>1
        <5> HIDE DEF j
        <5>2. nnext[q[j]] = next[q[k]]
          BY <1>0, <5>1
        <5> QED
          BY <1>0, <5>1, <5>2
      <4> QED
        BY <1>0, <1>1, <3>1, <4>1, <4>2
    <3>2. CASE k # Len(q)
      <4>1. r[Len(r)] = q[Len(q)] /\ Len(q) \in 1..Len(q) /\ Len(q) # k /\ Len(q) # k - 1
        BY <1>0, <2>1, <3>2
      <4>2. nnext[q[Len(q)]] = next[q[Len(q)]]
        BY <1>0, <4>1
      <4> QED
        BY <1>0, <1>1, <4>1, <4>2
    <3> QED
      BY <1>0, <3>1, <3>2
  <2> QED
    BY <1>5, <1>6, <1>7, <1>9, <2>2, <2>3 DEF Linked
<1> QED
  BY <1>0, <1>8, <1>9

\* A memory in which the k-th idle server was unlinked.
LEMMA TakenOff ==
  ASSUME NEW m \in Memory, NEW p, Idlers(m, p), NEW k \in 1..Len(p),
         NEW n \in Memory,
         Relinked(m.nextIdle, n.nextIdle, p, k),
         n.idleServers = IF k = 1 THEN m.nextIdle[p[1]] ELSE m.idleServers,
         n.idleCount = m.idleCount - 1
  PROVE  \E r : /\ Idlers(n, r) /\ Without(p, k, r)
               /\ Elements(r) = Elements(p) \ {p[k]}
<1> DEFINE next == m.nextIdle
           y == m.idleServers
           f == n.nextIdle
           x == n.idleServers
<1>1. /\ next \in [Servers -> Servers \cup {NoServer}]
      /\ p \in Seq(Servers)
      /\ Linked(next, y, NoServer, p)
  BY MemoryFields DEF Idlers
<1>2. y = p[1] /\ m.idleCount = Len(p)
  BY <1>1 DEF Linked, Idlers
<1>3. PICK r \in Seq(Servers) : Without(p, k, r)
  <2> DEFINE r == [i \in 1..Len(p)-1 |-> IF i < k THEN p[i] ELSE p[i+1]]
  <2>1. r \in Seq(Servers) /\ Len(r) = Len(p) - 1
    BY <1>1
  <2> QED
    BY <2>1 DEF Without
<1>4. Relinked(next, f, p, k)
  OBVIOUS
<1>5. x = IF k = 1 THEN next[y] ELSE y
  BY <1>2
<1>6. NoServer \notin Servers
  BY ListAssumption
<1>7. n.idleCount = Len(r)
  BY <1>1, <1>2, <1>3 DEF Without
<1>8. Linked(f, x, NoServer, r) /\ Elements(r) = Elements(p) \ {p[k]}
  <2> HIDE DEF next, y, f, x
  <2> QED
    BY <1>1, <1>3, <1>4, <1>5, <1>6, LinkedRemove
<1> QED
  BY <1>3, <1>7, <1>8 DEF Idlers

\* Who links to the k-th server of the list: the one before it.
LEMMA BeforeIs ==
  ASSUME NEW m \in Memory, NEW p, Idlers(m, p), NEW k \in 1..Len(p)
  PROVE  {t \in ToSet(IdleList(m)) : m.nextIdle[t] = p[k]} =
           {p[i] : i \in {i \in 1..Len(p) : i = k - 1}}
<1>1. ToSet(IdleList(m)) = Elements(p)
  BY IdleListIs, ToSetIs DEF Idlers
<1>2. /\ p \in Seq(Servers)
      /\ m.nextIdle[p[Len(p)]] = NoServer
      /\ \A i \in 1..Len(p)-1 : m.nextIdle[p[i]] = p[i+1]
      /\ \A i, j \in 1..Len(p) : p[i] = p[j] => i = j
  BY DEF Idlers, Linked
<1>3. ASSUME NEW i \in 1..Len(p) PROVE m.nextIdle[p[i]] = p[k] <=> i = k - 1
  <2>1. CASE i = Len(p)
    BY <1>2, <2>1, ListAssumption
  <2>2. CASE i # Len(p)
    <3>1. i \in 1..Len(p)-1 /\ i + 1 \in 1..Len(p)
      BY <2>2
    <3> QED
      BY <1>2, <3>1
  <2> QED
    BY <2>1, <2>2
<1> QED
  BY <1>1, <1>3 DEF Elements

\* With round robin the first server is handed out.
LEMMA GetIdleServerIs ==
  ASSUME RoundRobin = TRUE, NEW m \in Memory, NEW p, Idlers(m, p), p # <<>>,
         NEW n, n = GetIdleServer(m)
  PROVE  /\ IdleServer(m) = p[1] /\ p[1] \in Servers
         /\ n \in Memory
         /\ \E r : /\ Idlers(n, r) /\ Without(p, 1, r)
                   /\ Elements(r) = Elements(p) \ {p[1]}
         /\ SameMessages(m, n) /\ SameSent(m, n) /\ n.doing = m.doing
<1>1. /\ p \in Seq(Servers) /\ 1 \in 1..Len(p)
      /\ m.idleServers = p[1]
      /\ m.nextIdle \in [Servers -> Servers \cup {NoServer}]
      /\ \A i, j \in 1..Len(p) : p[i] = p[j] => i = j
  BY MemoryFields DEF Idlers, Linked
<1>2. IdleServer(m) = p[1] /\ p[1] \in Servers
  BY <1>1 DEF IdleServer
<1>3. {t \in ToSet(IdleList(m)) : m.nextIdle[t] = p[1]} = {}
  BY <1>1, BeforeIs
<1> DEFINE f == [t \in Servers |-> IF t = p[1] THEN NoServer ELSE m.nextIdle[t]]
           x == m.nextIdle[p[1]]
           c == m.idleCount - 1
           before == {t \in ToSet(IdleList(m)) : m.nextIdle[t] = p[1]}
<1>4. n = WithIdle(m, x, f, c)
  <2>1. f = [t \in Servers |-> IF t \in before \cup {p[1]} THEN NoServer
                               ELSE m.nextIdle[t]]
    BY <1>3
  <2>2. n = [m EXCEPT
              !.idleServers = IF @ = p[1] THEN m.nextIdle[p[1]] ELSE @,
              !.nextIdle = [t \in Servers |-> IF t \in before \cup {p[1]} THEN NoServer
                                             ELSE @[t]],
              !.idleCount = @ - 1]
    BY <1>2 DEF GetIdleServer
  <2> HIDE DEF before, f
  <2> QED
    BY <1>1, <2>1, <2>2 DEF WithIdle, Memory
<1>5. /\ f \in [Servers -> Servers \cup {NoServer}]
      /\ Relinked(m.nextIdle, f, p, 1)
      /\ x \in Servers \cup {NoServer}
      /\ c \in Nat
  BY <1>1, MemoryFields DEF Idlers, Relinked
<1> HIDE DEF f
<1>6. /\ n \in Memory
      /\ n.idleServers = x /\ n.nextIdle = f /\ n.idleCount = c
      /\ SameMessages(m, n) /\ SameSent(m, n) /\ n.doing = m.doing
  <2>1. IdleTyped(x, f, c)
    BY <1>5 DEF IdleTyped
  <2> HIDE DEF x, c
  <2> QED
    BY <1>4, <2>1, IdleFields
<1>7. \E r : /\ Idlers(n, r) /\ Without(p, 1, r)
             /\ Elements(r) = Elements(p) \ {p[1]}
  <2>1. Relinked(m.nextIdle, n.nextIdle, p, 1)
    BY <1>5, <1>6
  <2> QED
    BY <1>1, <1>6, <2>1, TakenOff
<1> QED
  BY <1>2, <1>6, <1>7

\* With round robin a server is taken off the list wherever it is, if it is there.
LEMMA RemoveIdleServerIs ==
  ASSUME RoundRobin = TRUE, NEW m \in Memory, NEW p, Idlers(m, p), NEW s \in Servers,
         NEW n, n = RemoveIdleServer(m, s)
  PROVE  /\ n \in Memory
         /\ \E r : /\ Idlers(n, r)
                   /\ Elements(r) = Elements(p) \ {s}
                   /\ r # p => \E k \in 1..Len(p) : p[k] = s /\ Without(p, k, r)
         /\ SameMessages(m, n) /\ SameSent(m, n) /\ n.doing = m.doing
<1>1. /\ p \in Seq(Servers)
      /\ IF p = <<>> THEN m.idleServers = NoServer
         ELSE m.idleServers = p[1] /\ m.nextIdle[p[Len(p)]] = NoServer
      /\ \A i \in 1..Len(p)-1 : m.nextIdle[p[i]] = p[i+1]
      /\ m.nextIdle \in [Servers -> Servers \cup {NoServer}]
      /\ \A i, j \in 1..Len(p) : p[i] = p[j] => i = j
  BY MemoryFields DEF Idlers, Linked
<1>2. CASE m.idleServers = s
  <2>1. p # <<>> /\ p[1] = s /\ 1 \in 1..Len(p)
    BY <1>1, <1>2, ListAssumption
  <2>2. n = GetIdleServer(m)
    BY <1>2 DEF RemoveIdleServer
  <2>3. /\ n \in Memory
        /\ \E r : /\ Idlers(n, r) /\ Without(p, 1, r)
                  /\ Elements(r) = Elements(p) \ {p[1]}
        /\ SameMessages(m, n) /\ SameSent(m, n) /\ n.doing = m.doing
    BY <2>1, <2>2, GetIdleServerIs
  <2>4. PICK r : /\ Idlers(n, r) /\ Without(p, 1, r)
                 /\ Elements(r) = Elements(p) \ {p[1]}
    BY <2>3
  <2>5. Elements(r) = Elements(p) \ {s}
    BY <2>1, <2>4
  <2> QED
    BY <2>1, <2>3, <2>4, <2>5
<1>3. CASE m.idleServers # s /\ s \notin Elements(p)
  <2>1. {t \in ToSet(IdleList(m)) : m.nextIdle[t] = s} = {}
    <3>1. ToSet(IdleList(m)) = Elements(p)
      BY IdleListIs, ToSetIs DEF Idlers
    <3>2. ASSUME NEW i \in 1..Len(p) PROVE m.nextIdle[p[i]] # s
      <4>1. CASE i = Len(p)
        BY <1>1, <4>1, ListAssumption
      <4>2. CASE i # Len(p)
        <5>1. i \in 1..Len(p)-1 /\ i + 1 \in 1..Len(p)
          BY <4>2
        <5> QED
          BY <1>1, <1>3, <5>1 DEF Elements
      <4> QED
        BY <4>1, <4>2
    <3> QED
      BY <3>1, <3>2 DEF Elements
  <2>2. n = m
    BY <1>3, <2>1 DEF RemoveIdleServer
  <2>3. Elements(p) = Elements(p) \ {s}
    BY <1>3
  <2> QED
    BY <2>2, <2>3 DEF SameMessages, SameSent
<1>4. CASE m.idleServers # s /\ s \in Elements(p)
  <2>1. PICK k \in 1..Len(p) : p[k] = s
    BY <1>4 DEF Elements
  <2>2. k # 1 /\ k - 1 \in 1..Len(p) /\ p # <<>>
    BY <1>1, <1>4, <2>1
  <2>3. {t \in ToSet(IdleList(m)) : m.nextIdle[t] = s} = {p[k-1]}
    BY <2>1, <2>2, BeforeIs
  <2> DEFINE f == [t \in Servers |-> IF t = p[k-1] THEN m.nextIdle[s] ELSE m.nextIdle[t]]
             x == m.idleServers
             c == m.idleCount - 1
  <2>4. n = WithIdle(m, x, f, c)
    BY <1>1, <1>4, <2>3 DEF RemoveIdleServer, WithIdle, Memory
  <2>5. /\ f \in [Servers -> Servers \cup {NoServer}]
        /\ Relinked(m.nextIdle, f, p, k)
        /\ x \in Servers \cup {NoServer}
        /\ c \in Nat
    BY <1>1, <2>1, <2>2, MemoryFields DEF Idlers, Relinked
  <2> HIDE DEF f
  <2>6. /\ n \in Memory
        /\ n.idleServers = x /\ n.nextIdle = f /\ n.idleCount = c
        /\ SameMessages(m, n) /\ SameSent(m, n) /\ n.doing = m.doing
    <3>1. IdleTyped(x, f, c)
      BY <2>5 DEF IdleTyped
    <3> HIDE DEF x, c
    <3> QED
      BY <2>4, <3>1, IdleFields
  <2>7. \E r : /\ Idlers(n, r) /\ Without(p, k, r)
               /\ Elements(r) = Elements(p) \ {p[k]}
    <3>1. Relinked(m.nextIdle, n.nextIdle, p, k)
      BY <2>5, <2>6
    <3> QED
      BY <2>2, <2>6, <3>1, TakenOff
  <2>8. PICK r : /\ Idlers(n, r) /\ Without(p, k, r)
                 /\ Elements(r) = Elements(p) \ {p[k]}
    BY <2>7
  <2>9. Elements(r) = Elements(p) \ {s}
    BY <2>1, <2>8
  <2> QED
    BY <2>1, <2>6, <2>8, <2>9
<1> QED
  BY <1>2, <1>3, <1>4

-----------------------------------------------------------------------------
(* The list of messages.                                                   *)

\* q is the list of messages, on which every message is.
Threaded(m, q) ==
  /\ q \in Seq(Slots) /\ q # <<>>
  /\ Linked(m.next, m.first, NoMessage, q)
  /\ m.last = q[Len(q)]
  /\ m.used = Elements(q)
  /\ \A i \in Slots \ m.used : m.next[i] = NoMessage

\* What servers remember was not deleted, and is counted.
Held(m) ==
  /\ \A i \in Slots :
       m.refcount[i] = Cardinality({s \in Servers : m.lastSent[s] = i})
  /\ \A s \in Servers : m.lastSent[s] \in m.used \cup {NoMessage}

\* r is what q has after the k-th element.
Rest(q, k, r) ==
  /\ Len(r) = Len(q) - k
  /\ \A i \in 1..Len(r) : r[i] = q[k+i]

\* The rest of a list after its k-th element is a list.
LEMMA LinkedRest ==
  ASSUME NEW D, NEW null, NEW next, NEW x, NEW q \in Seq(D), Linked(next, x, null, q),
         NEW k \in 0..Len(q), NEW r \in Seq(D), Rest(q, k, r),
         NEW nx, nx = IF k = Len(q) THEN null ELSE q[k+1]
  PROVE  Linked(next, nx, null, r)
<1>1. /\ Len(r) = Len(q) - k
      /\ \A i \in 1..Len(r) : k + i \in 1..Len(q) /\ r[i] = q[k+i]
  BY DEF Rest
<1>2. /\ q # <<>> => next[q[Len(q)]] = null
      /\ \A i \in 1..Len(q)-1 : next[q[i]] = q[i+1]
      /\ \A i, j \in 1..Len(q) : q[i] = q[j] => i = j
  BY DEF Linked
<1>3. CASE k = Len(q)
  <2>1. r = <<>> /\ nx = null
    BY <1>1, <1>3
  <2> QED
    BY <2>1 DEF Linked
<1>4. CASE k # Len(q)
  <2>1. r # <<>> /\ 1 \in 1..Len(r) /\ Len(r) \in 1..Len(r) /\ q # <<>>
    BY <1>1, <1>4
  <2>2. nx = r[1]
    BY <1>1, <1>4, <2>1
  <2>3. next[r[Len(r)]] = null
    <3>1. r[Len(r)] = q[Len(q)]
      BY <1>1, <2>1
    <3> QED
      BY <1>2, <2>1, <3>1
  <2>4. ASSUME NEW i \in 1..Len(r)-1 PROVE next[r[i]] = r[i+1]
    <3>1. i \in 1..Len(r) /\ i + 1 \in 1..Len(r) /\ k + i \in 1..Len(q)-1
      BY <1>1
    <3>2. r[i] = q[k+i] /\ r[i+1] = q[(k+i)+1]
      BY SMTT(30), <1>1, <3>1
    <3> QED
      BY <1>2, <3>1, <3>2
  <2>5. ASSUME NEW i \in 1..Len(r), NEW j \in 1..Len(r), r[i] = r[j] PROVE i = j
    <3>1. k + i = k + j
      BY <1>1, <1>2, <2>5
    <3> QED
      BY <3>1
  <2> QED
    BY <2>1, <2>2, <2>3, <2>4, <2>5 DEF Linked
<1> QED
  BY <1>3, <1>4

\* What it means that q is the list of messages.
LEMMA MessageFacts ==
  ASSUME NEW m \in Memory, NEW q, Threaded(m, q)
  PROVE  /\ q \in Seq(Slots) /\ Len(q) \in 1..Len(q) /\ 1 \in 1..Len(q)
         /\ m.first = q[1] /\ m.last = q[Len(q)]
         /\ m.next[q[Len(q)]] = NoMessage
         /\ \A i \in 1..Len(q)-1 : m.next[q[i]] = q[i+1]
         /\ \A i, j \in 1..Len(q) : q[i] = q[j] => i = j
         /\ \A i \in 1..Len(q) : q[i] \in m.used /\ q[i] \in Slots
         /\ \A i \in m.used : \E k \in 1..Len(q) : i = q[k]
BY DEF Threaded, Linked, Elements

\* There are finitely many addresses, and null is none.
LEMMA SlotsAreFinite == IsFiniteSet(Slots) /\ NoMessage \notin Slots
BY FS_Interval, ListAssumption DEF Slots, NoMessage

\* The list of messages that the program walks along is q.
LEMMA MessageListIs ==
  ASSUME NEW m \in Memory, NEW q, Threaded(m, q)
  PROVE  MessageList(m) = q
<1>1. /\ m.next \in [Slots -> Slots \cup {NoMessage}]
      /\ m.first \in Slots \cup {NoMessage}
  BY MemoryFields
<1> QED
  BY <1>1, SlotsAreFinite, ChainIs DEF Threaded, MessageList

\* What comes after the k-th message.
LEMMA AfterIs ==
  ASSUME NEW m \in Memory, NEW q, Threaded(m, q), NEW k \in 1..Len(q)
  PROVE  Rest(q, k, After(m, q[k])) /\ After(m, q[k]) \in Seq(Slots)
<1> DEFINE r == [i \in 1..Len(q)-k |-> q[k+i]]
           next == m.next
           x == m.first
           nx == m.next[q[k]]
<1>1. r \in Seq(Slots) /\ Rest(q, k, r)
  BY DEF Rest, Threaded
<1>2. /\ next \in [Slots -> Slots \cup {NoMessage}]
      /\ nx \in Slots \cup {NoMessage}
      /\ nx = IF k = Len(q) THEN NoMessage ELSE q[k+1]
      /\ Linked(next, x, NoMessage, q)
      /\ q \in Seq(Slots)
      /\ k \in 0..Len(q)
  BY MemoryFields, MessageFacts DEF Threaded
<1>3. Linked(next, nx, NoMessage, r)
  <2> HIDE DEF r, next, x, nx
  <2> QED
    BY <1>1, <1>2, LinkedRest
<1>4. Chain(next, nx, NoMessage) = r
  <2> HIDE DEF r, next, x, nx
  <2> QED
    BY <1>1, <1>2, <1>3, SlotsAreFinite, ChainIs
<1>5. After(m, q[k]) = r
  BY <1>4 DEF After
<1> HIDE DEF r
<1> QED
  BY <1>1, <1>5

\* Unless it is the last, the last of those is the last message.
LEMMA LastAfter ==
  ASSUME NEW m \in Memory, NEW q, Threaded(m, q), NEW k \in 1..Len(q)-1
  PROVE  Last(After(m, q[k])) = m.last
<1> DEFINE r == After(m, q[k])
<1>1. k \in 1..Len(q) /\ q \in Seq(Slots) /\ m.last = q[Len(q)]
  BY MessageFacts
<1>0. r \in Seq(Slots) /\ Rest(q, k, r)
  BY <1>1, AfterIs
<1> HIDE DEF r
<1>2. r \in Seq(Slots) /\ Len(r) = Len(q) - k /\ \A i \in 1..Len(r) : r[i] = q[k+i]
  BY <1>0 DEF Rest
<1>3. Len(r) \in 1..Len(r) /\ k + Len(r) = Len(q)
  BY <1>1, <1>2
<1>4. r[Len(r)] = m.last
  BY <1>1, <1>2, <1>3
<1> QED
  BY <1>4 DEF Last, r

\* There is a message for s after the k-th.
LEMMA HasNextIs ==
  ASSUME NEW m \in Memory, NEW q, Threaded(m, q), NEW s \in Servers,
         NEW k \in 1..Len(q), m.lastSent[s] = q[k]
  PROVE  HasNext(m, s) <=> \E j \in k+1..Len(q) : IsFor(m, q[j], s)
<1>1. m.lastSent[s] # NoMessage
  BY MessageFacts, SlotsAreFinite
<1> DEFINE r == After(m, m.lastSent[s])
<1>2. r \in Seq(Slots) /\ Rest(q, k, r)
  BY AfterIs
<1>3. HasNext(m, s) <=> \E i \in ToSet(r) : IsFor(m, i, s)
  BY <1>1 DEF HasNext
<1> HIDE DEF r
<1>4. ToSet(r) = {r[i] : i \in 1..Len(r)}
  BY <1>2 DEF ToSet
<1>5. ASSUME NEW i \in 1..Len(r) PROVE k + i \in k+1..Len(q) /\ r[i] = q[k+i]
  BY <1>2 DEF Rest, Threaded
<1>6. ASSUME NEW j \in k+1..Len(q) PROVE j - k \in 1..Len(r) /\ r[j-k] = q[j]
  BY <1>2 DEF Rest, Threaded
<1>7. (\E i \in ToSet(r) : IsFor(m, i, s)) => \E j \in k+1..Len(q) : IsFor(m, q[j], s)
  BY <1>4, <1>5
<1>8. (\E j \in k+1..Len(q) : IsFor(m, q[j], s)) => \E i \in ToSet(r) : IsFor(m, i, s)
  BY <1>4, <1>6
<1> QED
  BY <1>3, <1>7, <1>8

\* The first of them.
LEMMA NextForIs ==
  ASSUME NEW m \in Memory, NEW q, Threaded(m, q), NEW s \in Servers,
         NEW k \in 1..Len(q), m.lastSent[s] = q[k], HasNext(m, s)
  PROVE  \E j \in k+1..Len(q) :
           /\ NextFor(m, s) = q[j]
           /\ IsFor(m, q[j], s)
           /\ \A i \in k+1..j-1 : ~IsFor(m, q[i], s)
<1> DEFINE r == After(m, m.lastSent[s])
           First(n) == IsFor(m, r[n], s) /\ \A i \in 1..n-1 : ~IsFor(m, r[i], s)
           U == {n \in 1..Len(r) : IsFor(m, r[n], s)}
           c == CHOOSE n \in DOMAIN r : First(n)
<1>1. r \in Seq(Slots) /\ Rest(q, k, r)
  BY AfterIs
<1>2. NextFor(m, s) = r[c]
  BY DEF NextFor
<1> HIDE DEF r
<1>3. PICK j \in k+1..Len(q) : IsFor(m, q[j], s)
  BY HasNextIs
<1>4. j - k \in 1..Len(r) /\ r[j-k] = q[j]
  BY <1>1 DEF Rest, Threaded
<1>5. U # {} /\ U \subseteq Nat
  BY <1>3, <1>4
<1>6. PICK n \in U : \A i \in U : n <= i
  BY <1>5, Least
<1>7. n \in DOMAIN r /\ First(n)
  BY <1>1, <1>6
<1>8. c \in DOMAIN r /\ First(c)
  <2> HIDE DEF First
  <2> QED
    BY <1>7
<1> HIDE DEF c
<1>9. c \in 1..Len(r) /\ \A i \in 1..Len(r) : r[i] = q[k+i]
  BY <1>1, <1>8 DEF Rest
<1>10. k + c \in k+1..Len(q) /\ r[c] = q[k+c]
  BY <1>1, <1>9 DEF Rest, Threaded
<1>11. ASSUME NEW i \in k+1..(k+c)-1 PROVE ~IsFor(m, q[i], s)
  <2>1. i - k \in 1..c-1 /\ i - k \in 1..Len(r) /\ k + (i - k) = i
    BY <1>9, <1>10
  <2>2. r[i-k] = q[i]
    BY <1>9, <2>1
  <2> QED
    BY <1>8, <2>1, <2>2
<1> QED
  BY <1>2, <1>8, <1>10, <1>11

-----------------------------------------------------------------------------
(* What servers were sent.                                                 *)

\* The servers that f sends to j.
Holders(f, j) == {t \in Servers : f[t] = j}

\* When s goes on from f[s] to i, the first has one holder less and i one more.
LEMMA OneMoreOneLess ==
  ASSUME NEW X, NEW f \in [Servers -> X], NEW s \in Servers, NEW i \in X, f[s] # i,
         NEW g \in [Servers -> X], g[s] = i, \A t \in Servers : t # s => g[t] = f[t],
         NEW j
  PROVE  /\ j = f[s] => Cardinality(Holders(g, j)) = Cardinality(Holders(f, j)) - 1
         /\ j = i => Cardinality(Holders(g, j)) = Cardinality(Holders(f, j)) + 1
         /\ j # f[s] /\ j # i => Cardinality(Holders(g, j)) = Cardinality(Holders(f, j))
         /\ Cardinality(Holders(g, j)) \in Nat
<1>1. IsFiniteSet(Holders(f, j)) /\ IsFiniteSet(Holders(g, j))
  BY ListAssumption, FS_Subset DEF Holders
<1>2. Cardinality(Holders(g, j)) \in Nat
  BY <1>1, FS_CardinalityType
<1>3. CASE j = f[s]
  <2>1. Holders(g, j) = Holders(f, j) \ {s} /\ s \in Holders(f, j)
    BY <1>3 DEF Holders
  <2> QED
    BY <1>1, <1>2, <1>3, <2>1, FS_RemoveElement
<1>4. CASE j # f[s] /\ j = i
  <2>1. Holders(g, j) = Holders(f, j) \cup {s} /\ s \notin Holders(f, j)
    BY <1>4 DEF Holders
  <2> QED
    BY <1>1, <1>2, <1>4, <2>1, FS_AddElement
<1>5. CASE j # f[s] /\ j # i
  <2>1. Holders(g, j) = Holders(f, j)
    BY <1>5 DEF Holders
  <2> QED
    BY <1>2, <1>5, <2>1
<1> QED
  BY <1>3, <1>4, <1>5

\* A server that goes on to a message keeps the counts right.
LEMMA RememberIs ==
  ASSUME NEW m \in Memory, Held(m), NEW s \in Servers, NEW i \in m.used,
         m.lastSent[s] # NoMessage, m.lastSent[s] # i,
         NEW n, n = Remember(m, s, i)
  PROVE  /\ n \in Memory /\ Held(n)
         /\ n.lastSent = [m.lastSent EXCEPT ![s] = i]
         /\ SameMessages(m, n) /\ SameIdle(m, n) /\ n.doing = m.doing
<1> DEFINE r == [j \in Slots |-> CASE j = m.lastSent[s] -> m.refcount[j] - 1
                                   [] j = i             -> m.refcount[j] + 1
                                   [] OTHER             -> m.refcount[j]]
           f == [m.lastSent EXCEPT ![s] = i]
<1>1. /\ m.lastSent \in [Servers -> Slots \cup {NoMessage}]
      /\ m.refcount \in [Slots -> Nat]
      /\ i \in Slots
      /\ m.lastSent[s] \in Slots
  BY MemoryFields
<1>2. f \in [Servers -> Slots \cup {NoMessage}] /\ f[s] = i
      /\ \A t \in Servers \ {s} : f[t] = m.lastSent[t]
  BY <1>1
<1>3. ASSUME NEW j \in Slots
      PROVE  r[j] \in Nat /\ r[j] = Cardinality(Holders(f, j))
  <2> DEFINE g == m.lastSent
             X == Slots \cup {NoMessage}
  <2>1. /\ g \in [Servers -> X] /\ f \in [Servers -> X] /\ i \in X
        /\ g[s] # i /\ f[s] = i
        /\ \A t \in Servers : t # s => f[t] = g[t]
    BY <1>1, <1>2
  <2>2. m.refcount[j] = Cardinality(Holders(g, j))
    BY DEF Held, Holders
  <2>3. /\ j = g[s] => Cardinality(Holders(f, j)) = Cardinality(Holders(g, j)) - 1
        /\ j = i => Cardinality(Holders(f, j)) = Cardinality(Holders(g, j)) + 1
        /\ j # g[s] /\ j # i => Cardinality(Holders(f, j)) = Cardinality(Holders(g, j))
        /\ Cardinality(Holders(f, j)) \in Nat
    <3> HIDE DEF g, f, X
    <3> QED
      BY <2>1, OneMoreOneLess
  <2>4. r[j] = IF j = g[s] THEN m.refcount[j] - 1
               ELSE IF j = i THEN m.refcount[j] + 1 ELSE m.refcount[j]
    OBVIOUS
  <2> HIDE DEF g, f, r
  <2> QED
    BY <2>1, <2>2, <2>3, <2>4
<1>4. r \in [Slots -> Nat]
  BY <1>3
<1>5. n = WithSent(m, r, f)
  BY DEF Remember, WithSent, Memory
<1> HIDE DEF r, f
<1>6. /\ n \in Memory
      /\ n.refcount = r /\ n.lastSent = f
      /\ SameMessages(m, n) /\ SameIdle(m, n) /\ n.doing = m.doing
  BY <1>2, <1>4, <1>5, SentFields
<1>7. Held(n)
  <2>1. \A j \in Slots : n.refcount[j] = Cardinality(Holders(n.lastSent, j))
    BY <1>3, <1>6
  <2>2. \A t \in Servers : n.lastSent[t] \in n.used \cup {NoMessage}
    BY <1>2, <1>6 DEF Held, SameMessages
  <2> QED
    BY <2>1, <2>2 DEF Held, Holders
<1> QED
  BY <1>6, <1>7 DEF f

\* A server that is sent messages goes on to the next for it, or to the last.
LEMMA MessageNextIs ==
  ASSUME NEW m \in Memory, NEW q, Threaded(m, q), Held(m), NEW s \in Servers,
         NEW n, n = MessageNext(m, s)
  PROVE  /\ n \in Memory /\ Held(n)
         /\ SameMessages(m, n) /\ SameIdle(m, n) /\ n.doing = m.doing
         /\ \A t \in Servers \ {s} : n.lastSent[t] = m.lastSent[t]
         /\ n.lastSent[s] = NoMessage <=> m.lastSent[s] = NoMessage
         /\ m.lastSent[s] # NoMessage =>
              n.lastSent[s] = IF HasNext(m, s) THEN NextFor(m, s) ELSE m.last
<1>1. m.lastSent \in [Servers -> Slots \cup {NoMessage}]
  BY MemoryFields
<1>2. CASE HasNext(m, s)
  <2>1. m.lastSent[s] # NoMessage
    BY <1>2 DEF HasNext
  <2>2. PICK k \in 1..Len(q) : m.lastSent[s] = q[k]
    BY <2>1, MessageFacts DEF Held
  <2>3. PICK j \in k+1..Len(q) : NextFor(m, s) = q[j]
    BY <1>2, <2>2, NextForIs
  <2>4. q[j] # m.lastSent[s] /\ q[j] \in m.used /\ q[j] # NoMessage
    BY <2>2, <2>3, MessageFacts, SlotsAreFinite
  <2>5. n = Remember(m, s, q[j])
    BY <1>2, <2>3 DEF MessageNext
  <2> DEFINE i == q[j]
  <2>6. /\ n \in Memory /\ Held(n)
        /\ n.lastSent = [m.lastSent EXCEPT ![s] = i]
        /\ SameMessages(m, n) /\ SameIdle(m, n) /\ n.doing = m.doing
    <3> HIDE DEF i
    <3> QED
      BY <2>1, <2>4, <2>5, RememberIs DEF i
  <2> QED
    BY <1>1, <1>2, <2>1, <2>3, <2>4, <2>6
<1>3. CASE ~HasNext(m, s) /\ m.lastSent[s] = NoMessage
  <2>1. n = m
    BY <1>3 DEF MessageNext
  <2> QED
    BY <1>3, <2>1 DEF SameMessages, SameIdle
<1>4. CASE ~HasNext(m, s) /\ m.lastSent[s] # NoMessage
  <2>1. PICK k \in 1..Len(q) : m.lastSent[s] = q[k]
    BY <1>4, MessageFacts DEF Held
  <2>2. CASE k = Len(q)
    <3>1. n = m
      BY SMTT(30), <1>4, <2>1, <2>2, MessageFacts DEF MessageNext
    <3>2. m.lastSent[s] = m.last
      BY <2>1, <2>2, MessageFacts
    <3> QED
      BY <1>4, <3>1, <3>2 DEF SameMessages, SameIdle
  <2>3. CASE k # Len(q)
    <3>1. k \in 1..Len(q)-1 /\ k + 1 \in 1..Len(q)
      BY <2>3, MessageFacts
    <3>2. m.next[q[k]] # NoMessage
      BY <3>1, MessageFacts, SlotsAreFinite
    <3>3. Last(After(m, q[k])) = m.last
      BY <3>1, LastAfter
    <3>4. n = Remember(m, s, m.last)
      BY <1>4, <2>1, <3>2, <3>3 DEF MessageNext
    <3>5. m.last # m.lastSent[s] /\ m.last \in m.used /\ m.last # NoMessage
      BY <2>1, <2>3, MessageFacts, SlotsAreFinite
    <3> DEFINE i == m.last
    <3>6. /\ n \in Memory /\ Held(n)
          /\ n.lastSent = [m.lastSent EXCEPT ![s] = i]
          /\ SameMessages(m, n) /\ SameIdle(m, n) /\ n.doing = m.doing
      <4> HIDE DEF i
      <4> QED
        BY <1>4, <3>4, <3>5, RememberIs DEF i
    <3> QED
      BY <1>1, <1>4, <3>5, <3>6
  <2> QED
    BY <2>2, <2>3
<1> QED
  BY <1>2, <1>3, <1>4

-----------------------------------------------------------------------------
(* A new message.                                                          *)

IdleOnes(m) == {s \in Servers : m.doing[s] = "idle"}

\* The list of messages and what servers were sent of it are in order, and
\* the idle list is that of the idle servers.
Sound(m) ==
  /\ Held(m)
  /\ \E q : Threaded(m, q)
  /\ \E p : Idlers(m, p) /\ Elements(p) = IdleOnes(m)

\* The list of messages depends on its own fields only.
LEMMA SameThreaded ==
  ASSUME NEW m, NEW n, SameMessages(m, n), NEW q, Threaded(m, q)
  PROVE  Threaded(n, q)
BY DEF SameMessages, Threaded

\* The counts depend on what was sent only.
LEMMA SameHeld ==
  ASSUME NEW m, NEW n, SameSent(m, n), n.used = m.used, Held(m)
  PROVE  Held(n)
BY DEF SameSent, Held

\* Idle servers may have been woken, and sent messages; nobody else has begun
\* to be sent messages, or ceased.
Carried(m, n) ==
  \A s \in Servers :
    /\ n.lastSent[s] = NoMessage <=> m.lastSent[s] = NoMessage
    /\ IF m.doing[s] = "idle" THEN n.doing[s] \in {"idle", "pushing"}
       ELSE n.doing[s] = m.doing[s]

\* The first k servers of the list p, which was m's, were woken or put back.
Waking(m, p, k, n) ==
  /\ n \in Memory
  /\ SameMessages(m, n)
  /\ Held(n)
  /\ Carried(m, n)
  /\ \A i \in k+1..Len(p) : n.doing[p[i]] = "idle"
  /\ \E r : Idlers(n, r) /\ Elements(r) = IdleOnes(n) \ {p[i] : i \in k+1..Len(p)}

\* One turn of the loop over the idle servers.
LEMMA WakeIdleServerIs ==
  ASSUME NEW m \in Memory, NEW q, Threaded(m, q),
         NEW p \in Seq(Servers), \A i, j \in 1..Len(p) : p[i] = p[j] => i = j,
         Elements(p) = IdleOnes(m),
         NEW k \in 1..Len(p), NEW v, Waking(m, p, k - 1, v),
         NEW n, n = WakeIdleServer(v, p[k])
  PROVE  Waking(m, p, k, n)
<1> DEFINE s == p[k]
           x == MessageNext(v, s)
           left == {p[i] : i \in k+1..Len(p)}
<1>1. /\ v \in Memory /\ Held(v) /\ s \in Servers /\ s \in Elements(p)
      /\ SameMessages(m, v)
      /\ v.doing[s] = "idle"
      /\ s \notin left /\ left \subseteq Elements(p)
      /\ {p[i] : i \in (k-1)+1..Len(p)} = left \cup {s}
  BY DEF Waking, Elements
<1>2. PICK r : Idlers(v, r) /\ Elements(r) = IdleOnes(v) \ (left \cup {s})
  BY <1>1 DEF Waking
<1>3. Threaded(v, q)
  BY <1>1, SameThreaded
<1>4. /\ x \in Memory /\ Held(x)
      /\ SameMessages(v, x) /\ SameIdle(v, x) /\ x.doing = v.doing
      /\ \A t \in Servers : x.lastSent[t] = NoMessage <=> v.lastSent[t] = NoMessage
  <2> HIDE DEF s
  <2> QED
    BY <1>1, <1>3, MessageNextIs
<1>5. Idlers(x, r)
  BY <1>2, <1>4, SameIdlers
<1>6. /\ Carried(m, v) /\ m.doing[s] = "idle"
      /\ \A i \in k+1..Len(p) : v.doing[p[i]] = "idle" /\ p[i] # s
      /\ v.doing \in [Servers -> Doings]
  BY <1>1, MemoryFields DEF Waking, IdleOnes
<1> HIDE DEF s, x, left
<1>7. CASE HasNext(v, s)
  <2>1. n = Now(x, s, "pushing") /\ "pushing" \in Doings
    BY <1>7 DEF WakeIdleServer, Now, Doings, s, x
  <2>2. /\ n \in Memory
        /\ n.doing = [x.doing EXCEPT ![s] = "pushing"]
        /\ SameMessages(x, n) /\ SameIdle(x, n) /\ SameSent(x, n)
    BY <1>1, <1>4, <2>1, DoingField
  <2>3. Idlers(n, r)
    BY <1>5, <2>2, SameIdlers
  <2>4. Held(n)
    BY <1>4, <2>2, SameHeld DEF SameMessages
  <2>5. SameMessages(m, n)
    BY <1>1, <1>4, <2>2 DEF SameMessages
  <2>6. IdleOnes(n) = IdleOnes(v) \ {s}
    BY <1>4, <1>6, <2>2 DEF IdleOnes
  <2>7. Elements(r) = IdleOnes(n) \ left
    BY <1>2, <2>6
  <2>8. \A i \in k+1..Len(p) : n.doing[p[i]] = "idle"
    BY <1>1, <1>4, <1>6, <2>2
  <2>9. Carried(m, n)
    BY <1>1, <1>4, <1>6, <2>2 DEF Carried, SameSent
  <2> QED
    BY <2>2, <2>3, <2>4, <2>5, <2>7, <2>8, <2>9 DEF Waking, left
<1>8. CASE ~HasNext(v, s)
  <2>1. n = AddIdleServer(x, s)
    BY <1>8 DEF WakeIdleServer, s, x
  <2>2. s \in Servers \ Elements(r)
    BY <1>1, <1>2
  <2> DEFINE u == Append(r, s)
  <2>3. /\ n \in Memory
        /\ Idlers(n, u)
        /\ SameMessages(x, n) /\ SameSent(x, n) /\ n.doing = x.doing
    BY <1>4, <1>5, <2>1, <2>2, AddIdleServerIs
  <2>4. Held(n)
    BY <1>4, <2>3, SameHeld DEF SameMessages
  <2>5. SameMessages(m, n)
    BY <1>1, <1>4, <2>3 DEF SameMessages
  <2>6. Elements(u) = Elements(r) \cup {s}
    BY <1>2 DEF Elements, Idlers
  <2>7. IdleOnes(n) = IdleOnes(v) /\ s \in IdleOnes(v)
    BY <1>1, <1>4, <2>3 DEF IdleOnes
  <2>8. Elements(u) = IdleOnes(n) \ left
    BY <1>1, <1>2, <2>6, <2>7
  <2>9. \A i \in k+1..Len(p) : n.doing[p[i]] = "idle"
    BY <1>4, <1>6, <2>3
  <2>10. Carried(m, n)
    BY <1>4, <1>6, <2>3 DEF Carried, SameSent
  <2> HIDE DEF u
  <2> QED
    BY <2>3, <2>4, <2>5, <2>8, <2>9, <2>10 DEF Waking, left
<1> QED
  BY <1>7, <1>8

\* The loop.
LEMMA WakeIdleServersIs ==
  ASSUME NEW m \in Memory, Sound(m), NEW n, n = WakeIdleServers(m)
  PROVE  /\ n \in Memory /\ Sound(n)
         /\ SameMessages(m, n)
         /\ Carried(m, n)
<1>1. PICK q : Threaded(m, q)
  BY DEF Sound
<1>2. PICK p : Idlers(m, p) /\ Elements(p) = IdleOnes(m)
  BY DEF Sound
<1> DEFINE N == Len(p)
           b == [m EXCEPT !.idleServers = NoServer, !.idleCount = 0]
           next == m.nextIdle
           P(f) == f = [k \in 0..N |-> IF k = 0 THEN b ELSE WakeIdleServer(f[k-1], p[k])]
           woken == CHOOSE f : P(f)
           F == [k \in 1..N |-> [v \in Memory |-> WakeIdleServer(v, p[k])]]
           S == [k \in 0..N |-> {v \in Memory : Waking(m, p, k, v)}]
<1>3. /\ p \in Seq(Servers) /\ N \in Nat
      /\ \A i, j \in 1..Len(p) : p[i] = p[j] => i = j
  BY <1>2 DEF Idlers, Linked
<1>4. n = woken[N]
  <2>1. IdleList(m) = p
    BY <1>2, IdleListIs
  <2> QED
    BY <2>1 DEF WakeIdleServers
<1>5. Waking(m, p, 0, b)
  <2>1. /\ b \in Memory
        /\ b.idleServers = NoServer /\ b.idleCount = 0
        /\ SameMessages(m, b) /\ SameSent(m, b) /\ b.doing = m.doing
    <3>1. next \in [Servers -> Servers \cup {NoServer}]
      BY MemoryFields
    <3>2. b = WithIdle(m, NoServer, next, 0) /\ IdleTyped(NoServer, next, 0)
      BY <3>1 DEF WithIdle, IdleTyped, Memory
    <3> HIDE DEF b, next
    <3> QED
      BY <3>2, IdleFields
  <2> HIDE DEF b
  <2>2. Held(b)
    BY <2>1, SameHeld DEF Sound, SameMessages
  <2>3. Idlers(b, <<>>)
    BY <2>1 DEF Idlers, Linked
  <2>4. {p[i] : i \in 0+1..Len(p)} = Elements(p)
    BY DEF Elements
  <2>5. Elements(<<>>) = IdleOnes(b) \ Elements(p)
    BY <1>2, <2>1 DEF Elements, IdleOnes
  <2>6. \A i \in 0+1..Len(p) : b.doing[p[i]] = "idle"
    BY <1>2, <2>1 DEF Elements, IdleOnes
  <2>7. Carried(m, b)
    BY <2>1 DEF Carried, SameSent
  <2> QED
    BY <2>1, <2>2, <2>3, <2>4, <2>5, <2>6, <2>7 DEF Waking
<1> HIDE DEF b
<1>6. ASSUME NEW k \in 1..N, NEW v \in S[k-1]
      PROVE  /\ F[k][v] = WakeIdleServer(v, p[k])
             /\ F[k][v] \in S[k]
  <2>1. v \in Memory /\ Waking(m, p, k - 1, v)
    BY <1>3
  <2>2. F[k][v] = WakeIdleServer(v, p[k])
    BY <2>1
  <2> DEFINE w == F[k][v]
  <2>3. Waking(m, p, k, w)
    <3> HIDE DEF F
    <3> QED
      BY <1>1, <1>2, <1>3, <2>1, <2>2, WakeIdleServerIs
  <2>4. w \in Memory /\ k \in 0..N
    BY <1>3, <2>3 DEF Waking
  <2>5. w \in S[k]
    <3> HIDE DEF w
    <3> QED
      BY <2>3, <2>4
  <2> QED
    BY <2>2, <2>5
<1>7. b \in S[0]
  BY <1>3, <1>5 DEF Waking
<1>8. Leads(N, S, F)
  <2> HIDE DEF S, F
  <2> QED
    BY <1>6 DEF Leads
<1> HIDE DEF S, F, N
<1>9. \E f : P(f)
  <2>1. PICK f : Built(N, S, b, F, f)
    BY <1>3, <1>7, <1>8, Recursion
  <2>2. ASSUME NEW k \in 0..N
        PROVE  f[k] = IF k = 0 THEN b ELSE WakeIdleServer(f[k-1], p[k])
    <3>1. CASE k = 0
      BY <2>1, <3>1 DEF Built
    <3>2. CASE k # 0
      <4>1. k \in 1..N /\ k - 1 \in 0..N
        BY <1>3, <3>2
      <4>2. f[k] = F[k][f[k-1]] /\ f[k-1] \in S[k-1]
        BY <2>1, <4>1 DEF Built
      <4> QED
        BY <1>6, <3>2, <4>1, <4>2
    <3> QED
      BY <3>1, <3>2
  <2>3. P(f)
    BY <2>1, <2>2 DEF Built
  <2> QED
    BY <2>3
<1>10. P(woken)
  <2> HIDE DEF P
  <2> QED
    BY <1>9
<1> HIDE DEF woken
<1>11. woken[0] = b
  BY <1>3, <1>10
<1>12. ASSUME NEW k \in 1..N, woken[k-1] \in S[k-1] PROVE woken[k] = F[k][woken[k-1]]
  <2>1. woken[k] = WakeIdleServer(woken[k-1], p[k])
    BY <1>3, <1>10
  <2> QED
    BY <1>6, <1>12, <2>1
<1>13. \A k \in 0..N : woken[k] \in S[k]
  BY <1>3, <1>7, <1>8, <1>11, <1>12, RecursionStays
<1>14. Waking(m, p, Len(p), n)
  <2>1. N \in 0..N
    BY <1>3
  <2>2. n \in S[N]
    BY <1>4, <1>13, <2>1
  <2> QED
    BY <2>1, <2>2 DEF S, N
<1>15. {p[i] : i \in Len(p)+1..Len(p)} = {}
  BY <1>3 DEF N
<1>16. Sound(n)
  BY <1>1, <1>14, <1>15, SameThreaded DEF Waking, Sound
<1> QED
  BY <1>14, <1>16 DEF Waking

\* There is room for c more messages.
LEMMA RoomFacts ==
  ASSUME NEW m \in Memory
  PROVE  /\ IsFiniteSet(Slots \ m.used)
         /\ Cardinality(Slots \ m.used) \in Nat
         /\ m.appended \in Nat
BY MemoryFields, SlotsAreFinite, FS_Subset, FS_CardinalityType

\* A new message at the end of the list: the address it gets is free, and the loop
\* over the idle servers leaves everything sound.
LEMMA AppendMessageIs ==
  ASSUME NEW m \in Memory, Sound(m), Room(m, 1),
         NEW kind \in Kinds, NEW target \in Servers \cup {NoServer},
         NEW n, n = AppendMessage(m, kind, target)
  PROVE  /\ n \in Memory /\ Sound(n) /\ Carried(m, n)
         /\ n.appended = m.appended + 1
         /\ Cardinality(Slots \ n.used) = Cardinality(Slots \ m.used) - 1
<1> DEFINE i == CHOOSE j \in Slots \ m.used : \A k \in Slots \ m.used : j <= k
           word == [kind |-> kind, number |-> m.appended + 1,
                    for |-> IF target = NoServer THEN Servers ELSE {target}]
           u == m.used \cup {i}
           next == [m.next EXCEPT ![m.last] = i]
           t == [m.target EXCEPT ![i] = target]
           w == [m.text EXCEPT ![i] = word]
           a == m.appended + 1
           x == WithAppended(m, u, next, i, t, w, a)
<1>1. /\ m.used \subseteq Slots /\ m.last \in Slots
      /\ m.next \in [Slots -> Slots \cup {NoMessage}]
      /\ m.target \in [Slots -> Servers \cup {NoServer}]
      /\ m.text \in [Slots -> Texts \cup {NoText}]
      /\ m.appended \in 0..MaxMessages
  BY MemoryFields
<1>2. i \in Slots \ m.used
  <2>1. Slots \ m.used # {}
    BY FS_EmptySet, RoomFacts DEF Room
  <2>2. Slots \ m.used \subseteq Nat
    BY DEF Slots
  <2>3. \E j \in Slots \ m.used : \A k \in Slots \ m.used : j <= k
    BY <2>1, <2>2, Least
  <2> QED
    BY <2>3
<1>3. a \in 0..MaxMessages /\ a \in 1..MaxMessages
  BY <1>1, RoomFacts, ListAssumption DEF Room
<1>4. word \in Texts
  BY <1>3 DEF Texts, Kinds
<1>5. n = WakeIdleServers(x)
  <2>1. x = [m EXCEPT
              !.used = @ \cup {i}, !.next[m.last] = i, !.last = i,
              !.target[i] = target,
              !.text[i] = word,
              !.appended = @ + 1]
    BY DEF WithAppended, Memory
  <2> QED
    BY <2>1 DEF AppendMessage
<1> HIDE DEF i, word
<1>6. /\ u \in SUBSET Slots
      /\ next \in [Slots -> Slots \cup {NoMessage}]
      /\ t \in [Slots -> Servers \cup {NoServer}]
      /\ w \in [Slots -> Texts \cup {NoText}]
  BY <1>1, <1>2, <1>4
<1>7. /\ next[m.last] = i
      /\ \A z \in Slots : z # m.last => next[z] = m.next[z]
  BY <1>1
<1> HIDE DEF next, t, w, a
<1>8. /\ x \in Memory
      /\ x.used = u /\ x.first = m.first /\ x.last = i /\ x.next = next
      /\ x.appended = a
      /\ SameIdle(m, x) /\ SameSent(m, x) /\ x.doing = m.doing
  <2> HIDE DEF u
  <2> QED
    BY <1>2, <1>3, <1>6, AppendedFields
<1> HIDE DEF x
<1>9. PICK q : Threaded(m, q)
  BY DEF Sound
<1> DEFINE r == Append(q, i)
<1>10. /\ q \in Seq(Slots) /\ q # <<>>
       /\ m.last = q[Len(q)]
       /\ m.used = Elements(q)
       /\ Linked(m.next, m.first, NoMessage, q)
       /\ \A z \in Slots \ m.used : m.next[z] = NoMessage
  BY <1>9 DEF Threaded
<1>11. /\ r \in Seq(Slots) /\ Len(r) = Len(q) + 1 /\ r[Len(r)] = i /\ r # <<>>
       /\ \A k \in 1..Len(q) : r[k] = q[k]
  BY <1>2, <1>10
<1> HIDE DEF r
<1>12. i # m.last
  BY <1>2, <1>9, MessageFacts
<1>13. Linked(next, m.first, NoMessage, r)
  <2> DEFINE old == m.next
             first == m.first
  <2>1. /\ next[i] = NoMessage
        /\ i \in Slots \ Elements(q)
        /\ \A z \in Slots \ {i} : (q = <<>> \/ z # q[Len(q)]) => next[z] = old[z]
        /\ q # <<>> => next[q[Len(q)]] = i
    BY <1>2, <1>7, <1>10, <1>12
  <2>2. /\ first \in Slots
        /\ first = IF q = <<>> THEN i ELSE first
        /\ first \in Slots \cup {NoMessage}
        /\ old \in [Slots -> Slots \cup {NoMessage}]
        /\ Linked(old, first, NoMessage, q)
    BY <1>10, MemoryFields
  <2>3. NoMessage \notin Slots
    BY SlotsAreFinite
  <2>4. /\ q \in Seq(Slots)
        /\ next \in [Slots -> Slots \cup {NoMessage}]
        /\ r \in Seq(Slots) /\ Len(r) = Len(q) + 1 /\ r[Len(r)] = i
        /\ \A k \in 1..Len(q) : r[k] = q[k]
    BY <1>6, <1>10, <1>11
  <2> HIDE DEF old, first
  <2>5. Linked(next, first, NoMessage, r)
    BY SMTT(30), <2>1, <2>2, <2>3, <2>4, LinkedAppend
  <2> QED
    BY <2>5 DEF first
<1>14. u = Elements(r)
  <2>1. Elements(r) \subseteq u
    BY <1>10, <1>11 DEF Elements
  <2>2. m.used \subseteq Elements(r)
    BY <1>10, <1>11 DEF Elements
  <2>3. i \in Elements(r)
    BY <1>10, <1>11 DEF Elements
  <2> QED
    BY <2>1, <2>2, <2>3
<1>15. \A z \in Slots \ u : next[z] = NoMessage
  <2>1. m.last \in m.used
    BY <1>9, MessageFacts
  <2> QED
    BY <1>7, <1>10, <2>1
<1>16. Threaded(x, r)
  BY <1>8, <1>11, <1>13, <1>14, <1>15 DEF Threaded
<1>17. Held(x)
  BY <1>8 DEF Sound, Held, SameSent
<1>18. \E p : Idlers(x, p) /\ Elements(p) = IdleOnes(x)
  <2>1. PICK p : Idlers(m, p) /\ Elements(p) = IdleOnes(m)
    BY DEF Sound
  <2>2. Idlers(x, p)
    BY <1>8, <2>1, SameIdlers
  <2> QED
    BY <1>8, <2>1, <2>2 DEF IdleOnes
<1>19. Sound(x)
  BY <1>16, <1>17, <1>18 DEF Sound
<1>20. /\ n \in Memory /\ Sound(n) /\ SameMessages(x, n) /\ Carried(x, n)
  BY <1>5, <1>8, <1>19, WakeIdleServersIs
<1>21. Carried(m, n)
  BY <1>8, <1>20 DEF Carried, SameSent
<1>22. n.appended = m.appended + 1 /\ n.used = m.used \cup {i}
  BY <1>8, <1>20 DEF SameMessages, a
<1>23. Cardinality(Slots \ n.used) = Cardinality(Slots \ m.used) - 1
  <2> DEFINE free == Slots \ m.used
  <2>1. Slots \ n.used = free \ {i}
    BY <1>22
  <2>2. IsFiniteSet(free) /\ i \in free
    BY <1>2, RoomFacts
  <2> HIDE DEF free
  <2>3. Cardinality(free \ {i}) = Cardinality(free) - 1
    BY <2>2, FS_RemoveElement
  <2> QED
    BY <2>1, <2>3 DEF free
<1> QED
  BY <1>20, <1>21, <1>22, <1>23

\* s, which is starting, has heard what was said, and the preferences follow.
LEMMA BringUpToDateIs ==
  ASSUME NEW m \in Memory, Sound(m), NEW c \in Nat, Room(m, c),
         NEW s \in Servers, m.lastSent[s] = NoMessage, m.doing[s] # "idle",
         NEW n, n = BringUpToDate(m, s, c)
  PROVE  /\ n \in Memory /\ Sound(n)
         /\ n.lastSent[s] # NoMessage
         /\ n.doing[s] = m.doing[s]
         /\ \A t \in Servers \ {s} :
              /\ n.lastSent[t] = NoMessage <=> m.lastSent[t] = NoMessage
              /\ IF m.doing[t] = "idle" THEN n.doing[t] \in {"idle", "pushing"}
                 ELSE n.doing[t] = m.doing[t]
<1> DEFINE i == m.last
           f == [m.lastSent EXCEPT ![s] = i]
           rc == [m.refcount EXCEPT ![i] = @ + 1]
           b == [m EXCEPT !.lastSent[s] = m.last, !.refcount[m.last] = @ + 1]
           P(g) == g = [k \in 0..c |-> IF k = 0 THEN b
                                       ELSE AppendMessage(g[k-1], "pref", s)]
           sent == CHOOSE g : P(g)
           Good(k, v) == /\ v \in Memory /\ Sound(v) /\ Carried(b, v)
                         /\ v.appended = m.appended + k
                         /\ Cardinality(Slots \ v.used) = Cardinality(Slots \ m.used) - k
           F == [k \in 1..c |-> [v \in Memory |-> AppendMessage(v, "pref", s)]]
           S == [k \in 0..c |-> {v \in Memory : Good(k, v)}]
<1>1. n = sent[c]
  BY DEF BringUpToDate
<1>2. PICK q : Threaded(m, q)
  BY DEF Sound
<1>3. /\ m.lastSent \in [Servers -> Slots \cup {NoMessage}]
      /\ m.refcount \in [Slots -> Nat]
      /\ i \in Slots /\ i \in m.used /\ i # NoMessage
  BY <1>2, MemoryFields, MessageFacts, SlotsAreFinite
<1>4. /\ b \in Memory
      /\ b.lastSent = f /\ b.refcount = rc
      /\ SameMessages(m, b) /\ SameIdle(m, b) /\ b.doing = m.doing
  <2>1. f \in [Servers -> Slots \cup {NoMessage}] /\ rc \in [Slots -> Nat]
    BY <1>3
  <2>2. b = WithSent(m, rc, f)
    BY DEF WithSent, Memory
  <2> HIDE DEF f, rc, b
  <2> QED
    BY <2>1, <2>2, SentFields
<1>5. f[s] = i /\ \A t \in Servers \ {s} : f[t] = m.lastSent[t]
  BY <1>3
<1> HIDE DEF b
<1>6. Held(b)
  <2>1. ASSUME NEW j \in Slots
        PROVE  b.refcount[j] = Cardinality({t \in Servers : b.lastSent[t] = j})
    <3> DEFINE g == m.lastSent
               X == Slots \cup {NoMessage}
    <3>1. /\ g \in [Servers -> X] /\ f \in [Servers -> X] /\ i \in X
          /\ g[s] # i /\ f[s] = i
          /\ \A t \in Servers : t # s => f[t] = g[t]
      BY <1>3, <1>5
    <3>2. m.refcount[j] = Cardinality(Holders(g, j))
      BY DEF Sound, Held, Holders
    <3>3. /\ j = i => Cardinality(Holders(f, j)) = Cardinality(Holders(g, j)) + 1
          /\ j # g[s] /\ j # i => Cardinality(Holders(f, j)) = Cardinality(Holders(g, j))
      <4> HIDE DEF g, f, X, i
      <4> QED
        BY <3>1, OneMoreOneLess
    <3>4. rc[j] = IF j = i THEN m.refcount[j] + 1 ELSE m.refcount[j]
      BY <1>3
    <3>5. j # g[s]
      BY SlotsAreFinite
    <3>6. rc[j] = Cardinality(Holders(f, j))
      <4> HIDE DEF g, f, i, rc
      <4> QED
        BY <3>2, <3>3, <3>4, <3>5
    <3> HIDE DEF f, rc
    <3> QED
      BY <1>4, <3>6 DEF Holders
  <2>2. \A t \in Servers : b.lastSent[t] \in b.used \cup {NoMessage}
    BY <1>3, <1>4, <1>5 DEF Sound, Held, SameMessages
  <2> QED
    BY <2>1, <2>2 DEF Held
<1>7. Sound(b)
  <2>1. Threaded(b, q)
    BY <1>2, <1>4, SameThreaded
  <2>2. PICK p : Idlers(m, p) /\ Elements(p) = IdleOnes(m)
    BY DEF Sound
  <2>3. Idlers(b, p) /\ Elements(p) = IdleOnes(b)
    BY <1>4, <2>2, SameIdlers DEF IdleOnes
  <2> QED
    BY <1>6, <2>1, <2>3 DEF Sound
<1>8. Good(0, b)
  <2>1. Carried(b, b)
    BY DEF Carried
  <2> QED
    BY <1>4, <1>7, <2>1, RoomFacts DEF SameMessages
<1>9. ASSUME NEW k \in 1..c, NEW v \in S[k-1]
      PROVE  F[k][v] = AppendMessage(v, "pref", s) /\ F[k][v] \in S[k]
  <2>1. v \in Memory /\ Good(k - 1, v)
    OBVIOUS
  <2>2. F[k][v] = AppendMessage(v, "pref", s)
    BY <2>1
  <2> DEFINE w == F[k][v]
  <2>a. /\ v.appended = m.appended + (k-1)
        /\ Cardinality(Slots \ v.used) = Cardinality(Slots \ m.used) - (k-1)
    BY <2>1
  <2>b. /\ m.appended + c <= MaxMessages /\ c <= Cardinality(Slots \ m.used)
        /\ m.appended \in Nat /\ Cardinality(Slots \ m.used) \in Nat
        /\ MaxMessages \in Nat
    BY RoomFacts, ListAssumption DEF Room
  <2>3. Room(v, 1)
    <3> DEFINE room == Cardinality(Slots \ m.used)
               left == Cardinality(Slots \ v.used)
               said == m.appended
               heard == v.appended
    <3>1. heard = said + (k-1) /\ left = room - (k-1)
      BY <2>a
    <3>2. said + c <= MaxMessages /\ c <= room /\ said \in Nat /\ room \in Nat
      BY <2>b
    <3> HIDE DEF room, left, said, heard
    <3>3. heard + 1 <= MaxMessages /\ left >= 1
      BY <2>b, <3>1, <3>2
    <3> QED
      BY <3>3 DEF Room, left, heard
  <2>4. "pref" \in Kinds
    BY DEF Kinds
  <2>5. /\ w \in Memory /\ Sound(w) /\ Carried(v, w)
        /\ w.appended = v.appended + 1
        /\ Cardinality(Slots \ w.used) = Cardinality(Slots \ v.used) - 1
    <3> HIDE DEF w
    <3> QED
      BY <2>1, <2>2, <2>3, <2>4, AppendMessageIs DEF w
  <2>6. Carried(b, w)
    BY <2>1, <2>5 DEF Carried
  <2>7. Good(k, w)
    <3> DEFINE room == Cardinality(Slots \ m.used)
               left == Cardinality(Slots \ v.used)
               then == Cardinality(Slots \ w.used)
               said == m.appended
               heard == v.appended
    <3>1. /\ heard = said + (k-1) /\ left = room - (k-1)
          /\ w.appended = heard + 1 /\ then = left - 1
          /\ said \in Nat /\ room \in Nat
      BY <2>a, <2>b, <2>5
    <3> HIDE DEF w, room, left, then, said, heard
    <3>2. w.appended = said + k /\ then = room - k
      BY <3>1
    <3> QED
      BY <2>5, <2>6, <3>2 DEF then, room, said
  <2> HIDE DEF w, Good
  <2>8. w \in S[k]
    BY <2>5, <2>7
  <2> QED
    BY <2>2, <2>8 DEF w
<1>10. b \in S[0]
  BY <1>4, <1>8
<1> HIDE DEF S, F, Good
<1>11. Leads(c, S, F)
  BY <1>9 DEF Leads
<1>12. \E g : P(g)
  <2>1. PICK g : Built(c, S, b, F, g)
    BY <1>10, <1>11, Recursion
  <2>2. ASSUME NEW k \in 0..c
        PROVE  g[k] = IF k = 0 THEN b ELSE AppendMessage(g[k-1], "pref", s)
    <3>1. CASE k = 0
      BY <2>1, <3>1 DEF Built
    <3>2. CASE k # 0
      <4>1. k \in 1..c /\ k - 1 \in 0..c
        BY <3>2
      <4>2. g[k] = F[k][g[k-1]] /\ g[k-1] \in S[k-1]
        BY <2>1, <4>1 DEF Built
      <4> QED
        BY <1>9, <3>2, <4>1, <4>2
    <3> QED
      BY <3>1, <3>2
  <2>3. P(g)
    BY <2>1, <2>2 DEF Built
  <2> QED
    BY <2>3
<1>13. P(sent)
  <2> HIDE DEF P
  <2> QED
    BY <1>12
<1> HIDE DEF sent
<1>14. sent[0] = b
  BY <1>13
<1>15. ASSUME NEW k \in 1..c, sent[k-1] \in S[k-1] PROVE sent[k] = F[k][sent[k-1]]
  <2>1. sent[k] = AppendMessage(sent[k-1], "pref", s)
    BY <1>13
  <2> QED
    BY <1>9, <1>15, <2>1
<1>16. \A k \in 0..c : sent[k] \in S[k]
  BY <1>10, <1>11, <1>14, <1>15, RecursionStays
<1>17. Good(c, n)
  BY <1>1, <1>16 DEF S
<1>18. n \in Memory /\ Sound(n) /\ Carried(b, n)
  BY <1>17 DEF Good
<1>19. /\ b.lastSent[s] # NoMessage
       /\ \A t \in Servers \ {s} : b.lastSent[t] = m.lastSent[t]
       /\ b.doing = m.doing
  BY <1>3, <1>4, <1>5
<1> QED
  BY <1>18, <1>19 DEF Carried

-----------------------------------------------------------------------------
(* Servers that go, and messages that were sent.                           *)

\* s is sent nothing more and remembers nothing.
LEMMA CancelTargetIs ==
  ASSUME NEW m \in Memory, Held(m), NEW s \in Servers,
         NEW n, n = CancelTarget(m, s)
  PROVE  /\ n \in Memory /\ Held(n)
         /\ n.lastSent = [m.lastSent EXCEPT ![s] = NoMessage]
         /\ n.used = m.used /\ n.first = m.first /\ n.last = m.last /\ n.next = m.next
         /\ SameIdle(m, n) /\ n.doing = m.doing
<1> DEFINE i == m.lastSent[s]
           f == [m.lastSent EXCEPT ![s] = NoMessage]
           rc == [j \in Slots |-> IF j = i THEN m.refcount[j] - 1 ELSE m.refcount[j]]
           cd == [j \in Slots |->
                    m.cancelled[j] \/ (j \in ToSet(MessageList(m)) \ {m.last} /\ m.target[j] = s)]
<1>1. /\ m.lastSent \in [Servers -> Slots \cup {NoMessage}]
      /\ m.refcount \in [Slots -> Nat]
      /\ m.cancelled \in [Slots -> BOOLEAN]
  BY MemoryFields
<1>2. /\ f \in [Servers -> Slots \cup {NoMessage}] /\ f[s] = NoMessage
      /\ \A t \in Servers : t # s => f[t] = m.lastSent[t]
  BY <1>1
<1>3. cd \in [Slots -> BOOLEAN]
  BY <1>1
<1>4. n = WithCancelled(m, rc, f, cd)
  BY DEF CancelTarget, WithCancelled, Memory
<1>5. ASSUME NEW j \in Slots
      PROVE  rc[j] \in Nat /\ rc[j] = Cardinality(Holders(f, j))
  <2> DEFINE g == m.lastSent
             X == Slots \cup {NoMessage}
  <2>1. m.refcount[j] = Cardinality(Holders(g, j)) /\ m.refcount[j] \in Nat
    BY <1>1 DEF Held, Holders
  <2>2. CASE i = NoMessage
    <3>1. f = g /\ rc[j] = m.refcount[j]
      BY <1>1, <2>2, SlotsAreFinite
    <3> QED
      BY <2>1, <3>1
  <2>3. CASE i # NoMessage
    <3>1. /\ g \in [Servers -> X] /\ f \in [Servers -> X] /\ NoMessage \in X
          /\ g[s] # NoMessage /\ f[s] = NoMessage
          /\ \A t \in Servers : t # s => f[t] = g[t]
      BY <1>1, <1>2, <2>3
    <3>2. /\ j = g[s] => Cardinality(Holders(f, j)) = Cardinality(Holders(g, j)) - 1
          /\ j # g[s] /\ j # NoMessage =>
               Cardinality(Holders(f, j)) = Cardinality(Holders(g, j))
          /\ Cardinality(Holders(f, j)) \in Nat
      <4> HIDE DEF g, f, X
      <4> QED
        BY <3>1, OneMoreOneLess
    <3>3. rc[j] = (IF j = g[s] THEN m.refcount[j] - 1 ELSE m.refcount[j]) /\ j # NoMessage
      BY SlotsAreFinite
    <3> HIDE DEF g, f, rc
    <3> QED
      BY <2>1, <3>2, <3>3
  <2> QED
    BY <2>2, <2>3
<1>6. rc \in [Slots -> Nat]
  BY <1>5
<1> HIDE DEF rc, f, cd
<1>7. /\ n \in Memory
      /\ n.refcount = rc /\ n.lastSent = f
      /\ n.used = m.used /\ n.first = m.first /\ n.last = m.last /\ n.next = m.next
      /\ SameIdle(m, n) /\ n.doing = m.doing
  BY <1>2, <1>3, <1>4, <1>6, CancelledFields
<1>8. Held(n)
  <2>1. \A j \in Slots : n.refcount[j] = Cardinality(Holders(n.lastSent, j))
    BY <1>5, <1>7
  <2>2. \A t \in Servers : n.lastSent[t] \in n.used \cup {NoMessage}
    BY <1>2, <1>7 DEF Held
  <2> QED
    BY <2>1, <2>2 DEF Held, Holders
<1> QED
  BY <1>7, <1>8 DEF f

\* Nobody remembers the messages before the first that is held.
LEMMA FirstHeldIs ==
  ASSUME NEW m \in Memory, NEW q, Threaded(m, q)
  PROVE  /\ FirstHeld(m) \in 1..Len(q)
         /\ \A i \in 1..FirstHeld(m)-1 : m.refcount[q[i]] = 0 /\ q[i] # m.last
<1> DEFINE T == {i \in 1..Len(q) : m.refcount[q[i]] # 0 \/ q[i] = m.last}
           First(n) == /\ m.refcount[q[n]] # 0 \/ q[n] = m.last
                       /\ \A k \in 1..n-1 : m.refcount[q[k]] = 0 /\ q[k] # m.last
<1>1. /\ q \in Seq(Slots) /\ DOMAIN q = 1..Len(q)
      /\ Len(q) \in 1..Len(q) /\ m.last = q[Len(q)]
  BY MessageFacts
<1>2. T \in SUBSET Nat /\ T # {}
  BY <1>1
<1>3. PICK n \in T : \A i \in T : n <= i
  BY <1>2, Least
<1>4. n \in DOMAIN q /\ First(n)
  BY <1>1, <1>2, <1>3
<1>5. FirstHeld(m) = CHOOSE i \in DOMAIN q : First(i)
  BY MessageListIs DEF FirstHeld
<1>6. FirstHeld(m) \in DOMAIN q /\ First(FirstHeld(m))
  <2> HIDE DEF First
  <2> QED
    BY <1>4, <1>5
<1> QED
  BY <1>1, <1>6

\* Those are deleted, and nobody misses them.
LEMMA DropMessagesIs ==
  ASSUME NEW m \in Memory, Sound(m), NEW n, n = DropMessages(m)
  PROVE  /\ n \in Memory /\ Sound(n)
         /\ n.lastSent = m.lastSent /\ n.doing = m.doing
<1>1. PICK q : Threaded(m, q)
  BY DEF Sound
<1> DEFINE k == FirstHeld(m)
           gone == {q[i] : i \in 1..k-1}
           u == m.used \ gone
           f == [i \in Slots |-> IF i \in gone THEN NoMessage ELSE m.next[i]]
           t == [i \in Slots |-> IF i \in gone THEN NoServer ELSE m.target[i]]
           c == [i \in Slots |-> m.cancelled[i] /\ i \notin gone]
           x == [i \in Slots |-> IF i \in gone THEN NoText ELSE m.text[i]]
<1>2. /\ k \in 1..Len(q)
      /\ \A i \in 1..k-1 : m.refcount[q[i]] = 0 /\ q[i] # m.last
  BY <1>1, FirstHeldIs
<1>3. /\ q \in Seq(Slots) /\ Len(q) \in 1..Len(q) /\ 1 \in 1..Len(q)
      /\ m.first = q[1] /\ m.last = q[Len(q)]
      /\ \A i, j \in 1..Len(q) : q[i] = q[j] => i = j
      /\ \A i \in 1..Len(q) : q[i] \in m.used /\ q[i] \in Slots
      /\ m.used = Elements(q)
      /\ \A i \in Slots \ m.used : m.next[i] = NoMessage
  BY <1>1, MessageFacts DEF Threaded
<1>4. MessageList(m) = q
  BY <1>1, MessageListIs
<1>5. n = WithDropped(m, q[k], u, f, t, c, x)
  BY <1>4 DEF DropMessages, WithDropped, Memory
<1>6. /\ q[k] \in Slots /\ u \in SUBSET Slots
      /\ f \in [Slots -> Slots \cup {NoMessage}]
      /\ t \in [Slots -> Servers \cup {NoServer}]
      /\ c \in [Slots -> BOOLEAN]
      /\ x \in [Slots -> Texts \cup {NoText}]
  <2>1. /\ m.next \in [Slots -> Slots \cup {NoMessage}]
        /\ m.target \in [Slots -> Servers \cup {NoServer}]
        /\ m.cancelled \in [Slots -> BOOLEAN]
        /\ m.text \in [Slots -> Texts \cup {NoText}]
        /\ m.used \in SUBSET Slots
    BY MemoryFields
  <2> HIDE DEF gone, k
  <2> QED
    BY <1>2, <1>3, <2>1
<1>7. /\ n \in Memory
      /\ n.used = u /\ n.first = q[k] /\ n.last = m.last /\ n.next = f
      /\ SameIdle(m, n) /\ SameSent(m, n) /\ n.doing = m.doing
  <2> DEFINE b == q[k]
  <2>1. /\ n = WithDropped(m, b, u, f, t, c, x)
        /\ b \in Slots
    BY <1>5, <1>6
  <2> HIDE DEF u, f, t, c, x, b
  <2>2. /\ n \in Memory
        /\ n.used = u /\ n.first = b /\ n.last = m.last /\ n.next = f
        /\ SameIdle(m, n) /\ SameSent(m, n) /\ n.doing = m.doing
    BY <1>6, <2>1, DroppedFields
  <2> QED
    BY <2>2 DEF b
<1> DEFINE r == [i \in 1..Len(q)-(k-1) |-> q[(k-1)+i]]
<1>8. /\ r \in Seq(Slots) /\ Rest(q, k-1, r) /\ Len(r) = Len(q)-(k-1)
      /\ \A i \in 1..Len(r) : r[i] = q[(k-1)+i] /\ (k-1)+i \in k..Len(q)
  <2> HIDE DEF k
  <2> QED
    BY <1>2, <1>3 DEF Rest
<1>9. Linked(m.next, q[k], NoMessage, r)
  <2> DEFINE next == m.next
             nx == q[k]
             b == m.first
  <2>1. Linked(next, b, NoMessage, q)
    BY <1>1 DEF Threaded
  <2>2. k-1 \in 0..Len(q) /\ nx = IF k-1 = Len(q) THEN NoMessage ELSE q[(k-1)+1]
    <3> HIDE DEF k
    <3> QED
      BY <1>2, <1>3
  <2> DEFINE j == k - 1
  <2>3. Linked(next, nx, NoMessage, r)
    <3>1. /\ j \in 0..Len(q) /\ nx = IF j = Len(q) THEN NoMessage ELSE q[j+1]
          /\ Rest(q, j, r)
      BY <1>8, <2>2
    <3> HIDE DEF next, nx, b, r, j
    <3> QED
      BY <1>3, <1>8, <2>1, <3>1, LinkedRest
  <2> QED
    BY <2>3
<1>10. Elements(r) = u
  <2>1. ASSUME NEW i \in 1..Len(r) PROVE r[i] \in u
    <3>1. r[i] = q[(k-1)+i] /\ (k-1)+i \in k..Len(q)
      BY <1>8
    <3> HIDE DEF r, k
    <3> QED
      BY <1>2, <1>3, <3>1
  <2>2. ASSUME NEW i \in u PROVE \E j \in 1..Len(r) : r[j] = i
    <3>1. PICK j \in 1..Len(q) : i = q[j]
      BY <1>3 DEF Elements
    <3>2. j \notin 1..k-1
      BY <3>1
    <3>3. j - (k-1) \in 1..Len(r) /\ (k-1) + (j-(k-1)) = j
      <4> HIDE DEF k, r
      <4> QED
        BY <1>2, <1>3, <1>8, <3>2
    <3> HIDE DEF k, r
    <3> QED
      BY <1>8, <3>1, <3>3
  <2> HIDE DEF r, u
  <2> QED
    BY <2>1, <2>2 DEF Elements
<1>11. Linked(f, q[k], NoMessage, r)
  <2>1. \A i \in 1..Len(r) : r[i] \in u /\ r[i] \in Slots
    BY <1>6, <1>10 DEF Elements
  <2>2. \A i \in 1..Len(r) : f[r[i]] = m.next[r[i]]
    BY <2>1
  <2>3. Len(r) \in 1..Len(r) /\ r # <<>> /\ Len(r)-1 \in Nat
    <3> HIDE DEF r, k
    <3> QED
      BY <1>2, <1>3, <1>8
  <2> HIDE DEF f, r, k
  <2> QED
    BY <1>9, <2>2, <2>3 DEF Linked
<1>12. Threaded(n, r)
  <2>1. r # <<>> /\ r[Len(r)] = m.last
    <3> HIDE DEF r, k
    <3> QED
      BY <1>2, <1>3, <1>8
  <2>2. \A i \in Slots \ u : f[i] = NoMessage
    BY <1>3
  <2> HIDE DEF r, f, u, k
  <2> QED
    BY <1>7, <1>8, <1>10, <1>11, <2>1, <2>2 DEF Threaded
<1>13. Held(n)
  <2>1. ASSUME NEW s \in Servers PROVE m.lastSent[s] \notin gone
    <3>1. SUFFICES ASSUME NEW i \in 1..k-1, m.lastSent[s] = q[i] PROVE FALSE
      OBVIOUS
    <3>2. m.refcount[q[i]] = 0 /\ q[i] \in Slots
      <4> HIDE DEF k
      <4> QED
        BY <1>2, <1>3
    <3> DEFINE H == {v \in Servers : m.lastSent[v] = q[i]}
    <3>3. Cardinality(H) = 0
      BY <3>2 DEF Sound, Held
    <3>4. IsFiniteSet(H)
      BY ListAssumption, FS_Subset
    <3>5. s \in H
      BY <3>1
    <3> HIDE DEF H
    <3> QED
      BY <3>3, <3>4, <3>5, FS_EmptySet
  <2>2. \A s \in Servers : m.lastSent[s] \in u \cup {NoMessage}
    BY <2>1 DEF Sound, Held
  <2> HIDE DEF u
  <2> QED
    BY <1>7, <2>2 DEF Sound, Held, SameSent
<1>14. PICK p : Idlers(m, p) /\ Elements(p) = IdleOnes(m)
  BY DEF Sound
<1>15. Idlers(n, p) /\ Elements(p) = IdleOnes(n)
  BY <1>7, <1>14, SameIdlers DEF IdleOnes
<1> QED
  BY <1>7, <1>12, <1>13, <1>15 DEF Sound, SameSent

-----------------------------------------------------------------------------
(* What the handlers do.                                                   *)

\* s, off the idle list or just put there, has something else to do.
LEMMA NowIs ==
  ASSUME NEW m \in Memory, Held(m), NEW q, Threaded(m, q),
         NEW s \in Servers, NEW what \in Doings,
         NEW p, Idlers(m, p),
         Elements(p) = (IdleOnes(m) \ {s}) \cup (IF what = "idle" THEN {s} ELSE {}),
         NEW n, n = Now(m, s, what)
  PROVE  /\ n \in Memory /\ Sound(n)
         /\ n.doing = [m.doing EXCEPT ![s] = what]
         /\ SameMessages(m, n) /\ SameIdle(m, n) /\ SameSent(m, n)
<1>1. /\ n \in Memory
      /\ n.doing = [m.doing EXCEPT ![s] = what]
      /\ SameMessages(m, n) /\ SameIdle(m, n) /\ SameSent(m, n)
  BY DoingField
<1>2. Threaded(n, q) /\ Idlers(n, p)
  BY <1>1, SameThreaded, SameIdlers
<1>3. Held(n)
  BY <1>1, SameHeld DEF SameMessages
<1>4. IdleOnes(n) = (IdleOnes(m) \ {s}) \cup (IF what = "idle" THEN {s} ELSE {})
  BY <1>1, MemoryFields DEF IdleOnes
<1> QED
  BY <1>1, <1>2, <1>3, <1>4 DEF Sound

\* s reads on, or works, or is idle from now on.
LEMMA RedeployedIs ==
  ASSUME NEW m \in Memory, Sound(m), NEW s \in Servers, m.doing[s] # "idle",
         NEW n \in Redeployed(m, s)
  PROVE  /\ n \in Memory /\ Sound(n)
         /\ \A t \in Servers : n.lastSent[t] = NoMessage <=> m.lastSent[t] = NoMessage
         /\ n.doing[s] \in {"pushing", "busy", "idle"}
         /\ \A t \in Servers \ {s} : n.doing[t] = m.doing[t]
<1> DEFINE x == MessageNext(m, s)
<1>1. PICK q : Threaded(m, q)
  BY DEF Sound
<1>2. PICK p : Idlers(m, p) /\ Elements(p) = IdleOnes(m)
  BY DEF Sound
<1>3. /\ x \in Memory /\ Held(x)
      /\ SameMessages(m, x) /\ SameIdle(m, x) /\ x.doing = m.doing
      /\ \A t \in Servers : x.lastSent[t] = NoMessage <=> m.lastSent[t] = NoMessage
  BY <1>1, MessageNextIs DEF Sound
<1> HIDE DEF x
<1>4. Threaded(x, q) /\ Idlers(x, p)
  BY <1>1, <1>2, <1>3, SameThreaded, SameIdlers
<1>5. s \notin IdleOnes(x) /\ IdleOnes(x) = Elements(p)
  BY <1>2, <1>3 DEF IdleOnes
<1>6. m.doing \in [Servers -> Doings]
  BY MemoryFields DEF Doings
<1>7. \/ n = Now(x, s, "pushing")
      \/ n = Now(x, s, "busy")
      \/ n = Now(AddIdleServer(x, s), s, "idle")
  BY DEF Redeployed, x
<1>8. ASSUME NEW what \in {"pushing", "busy"}, n = Now(x, s, what)
      PROVE  /\ n \in Memory /\ Sound(n)
             /\ n.doing = [x.doing EXCEPT ![s] = what]
             /\ SameSent(x, n)
  <2>1. what \in Doings /\ what # "idle"
    BY DEF Doings
  <2>2. Elements(p) = (IdleOnes(x) \ {s}) \cup (IF what = "idle" THEN {s} ELSE {})
    BY <1>5, <2>1
  <2> QED
    BY <1>3, <1>4, <1>8, <2>1, <2>2, NowIs
<1>9. CASE n = Now(AddIdleServer(x, s), s, "idle")
  <2> DEFINE y == AddIdleServer(x, s)
             r == Append(p, s)
  <2>1. s \in Servers \ Elements(p)
    BY <1>5
  <2>2. /\ y \in Memory /\ Idlers(y, r)
        /\ SameMessages(x, y) /\ SameSent(x, y) /\ y.doing = x.doing
    <3> HIDE DEF y
    <3> QED
      BY <1>3, <1>4, <2>1, AddIdleServerIs DEF y
  <2>3. Elements(r) = Elements(p) \cup {s}
    BY <1>4 DEF Elements, Idlers
  <2>4. "idle" \in Doings
    BY DEF Doings
  <2>5. Elements(r) = (IdleOnes(y) \ {s}) \cup (IF "idle" = "idle" THEN {s} ELSE {})
    BY <1>5, <2>2, <2>3 DEF IdleOnes
  <2>6. Threaded(y, q) /\ Held(y)
    BY <1>3, <1>4, <2>2, SameThreaded, SameHeld DEF SameMessages
  <2>7. n = Now(y, s, "idle")
    BY <1>9
  <2> HIDE DEF y, r
  <2>8. /\ n \in Memory /\ Sound(n)
        /\ n.doing = [y.doing EXCEPT ![s] = "idle"]
        /\ SameSent(y, n)
    BY <2>2, <2>4, <2>5, <2>6, <2>7, NowIs
  <2> QED
    BY <1>3, <1>6, <2>2, <2>8 DEF SameSent
<1> QED
  BY <1>3, <1>6, <1>7, <1>8, <1>9 DEF SameSent

-----------------------------------------------------------------------------
(* The inductive invariant.  Sound is about the lists and the counts;      *)
(* Joined ties the message that a server was sent last to what it does.    *)

Joined(m) ==
  \A s \in Servers :
    m.lastSent[s] = NoMessage <=> m.doing[s] \in {"none", "starting", "removed"}

Good(m) == m \in Memory /\ Sound(m) /\ Joined(m)

IInv == Good(mem) /\ prefs \in 0..MaxPrefs

\* Appending a message keeps what ties messages to servers.
LEMMA CarriedJoined ==
  ASSUME NEW m \in Memory, NEW n \in Memory, Joined(m), Carried(m, n)
  PROVE  Joined(n)
BY DEF Joined, Carried

\* The invariant after each handler.
LEMMA AppendMessageGood ==
  ASSUME NEW m, Good(m), Room(m, 1),
         NEW kind \in Kinds, NEW target \in Servers \cup {NoServer}
  PROVE  Good(AppendMessage(m, kind, target))
<1> DEFINE n == AppendMessage(m, kind, target)
<1>1. n \in Memory /\ Sound(n) /\ Carried(m, n)
  BY AppendMessageIs DEF Good
<1> HIDE DEF n
<1>2. Good(n)
  BY <1>1, CarriedJoined DEF Good
<1> QED
  BY <1>2 DEF n

\* s has something else to do, and is not and was not idle.
LEMMA NowGood ==
  ASSUME NEW m, Good(m), NEW s \in Servers, m.doing[s] # "idle",
         NEW what \in Doings \ {"idle"},
         m.lastSent[s] = NoMessage <=> what \in {"none", "starting", "removed"}
  PROVE  Good(Now(m, s, what))
<1> DEFINE n == Now(m, s, what)
<1>1. m \in Memory /\ Held(m)
  BY DEF Good, Sound
<1>2. PICK q : Threaded(m, q)
  BY DEF Good, Sound
<1>3. PICK p : Idlers(m, p) /\ Elements(p) = IdleOnes(m)
  BY DEF Good, Sound
<1>4. Elements(p) = (IdleOnes(m) \ {s}) \cup (IF what = "idle" THEN {s} ELSE {})
  BY <1>3 DEF IdleOnes
<1>5. /\ n \in Memory /\ Sound(n)
      /\ n.doing = [m.doing EXCEPT ![s] = what] /\ SameSent(m, n)
  BY <1>1, <1>2, <1>3, <1>4, NowIs
<1> HIDE DEF n
<1>6. Joined(n)
  BY <1>5, <1>1, MemoryFields DEF Good, Joined, SameSent
<1> QED
  BY <1>5, <1>6 DEF Good, n

LEMMA RedeployedGood ==
  ASSUME NEW m \in Memory, Sound(m), NEW s \in Servers,
         m.doing[s] # "idle", m.lastSent[s] # NoMessage,
         \A t \in Servers \ {s} :
           m.lastSent[t] = NoMessage <=> m.doing[t] \in {"none", "starting", "removed"},
         NEW n \in Redeployed(m, s)
  PROVE  Good(n)
<1>1. /\ n \in Memory /\ Sound(n)
      /\ \A t \in Servers : n.lastSent[t] = NoMessage <=> m.lastSent[t] = NoMessage
      /\ n.doing[s] \in {"pushing", "busy", "idle"}
      /\ \A t \in Servers \ {s} : n.doing[t] = m.doing[t]
  BY RedeployedIs
<1> QED
  BY <1>1 DEF Good, Joined

LEMMA ServerStartedGood ==
  ASSUME IInv, NEW s \in Servers, ServerStarted(s)
  PROVE  Good(mem')
<1> DEFINE n == BringUpToDate(mem, s, prefs)
<1>1. /\ mem \in Memory /\ Sound(mem) /\ Joined(mem) /\ prefs \in Nat
      /\ mem.doing[s] = "starting" /\ mem.lastSent[s] = NoMessage
      /\ Room(mem, prefs) /\ mem' \in Redeployed(n, s)
  BY ListAssumption DEF IInv, Good, Joined, ServerStarted
<1>2. /\ n \in Memory /\ Sound(n)
      /\ n.lastSent[s] # NoMessage
      /\ n.doing[s] = mem.doing[s]
      /\ \A t \in Servers \ {s} :
           /\ n.lastSent[t] = NoMessage <=> mem.lastSent[t] = NoMessage
           /\ IF mem.doing[t] = "idle" THEN n.doing[t] \in {"idle", "pushing"}
              ELSE n.doing[t] = mem.doing[t]
  BY <1>1, BringUpToDateIs
<1> HIDE DEF n
<1>3. \A t \in Servers \ {s} :
        n.lastSent[t] = NoMessage <=> n.doing[t] \in {"none", "starting", "removed"}
  BY <1>1, <1>2 DEF Joined
<1> QED
  BY <1>1, <1>2, <1>3, RedeployedGood

LEMMA EndRequestGood ==
  ASSUME IInv, NEW s \in Servers, EndRequest(s)
  PROVE  Good(mem')
<1>1. /\ mem \in Memory /\ Sound(mem) /\ Joined(mem)
      /\ mem.doing[s] = "busy" /\ mem' \in Redeployed(mem, s)
  BY DEF IInv, Good, EndRequest
<1> QED
  BY <1>1, RedeployedGood DEF Joined

LEMMA DoPushGood ==
  ASSUME IInv, NEW s \in Servers, DoPush(s)
  PROVE  Good(mem')
<1>1. /\ Good(mem) /\ mem \in Memory /\ Sound(mem) /\ Joined(mem)
      /\ mem.doing[s] = "pushing"
      /\ mem' = Now(mem, s, "exiting") \/ mem' \in Redeployed(mem, s)
  BY DEF IInv, Good, DoPush
<1>2. CASE mem' = Now(mem, s, "exiting")
  <2>1. "exiting" \in Doings \ {"idle"}
    BY DEF Doings
  <2>2. mem.lastSent[s] = NoMessage <=> "exiting" \in {"none", "starting", "removed"}
    BY <1>1 DEF Joined
  <2> QED
    BY <1>1, <1>2, <2>1, <2>2, NowGood
<1>3. CASE mem' \in Redeployed(mem, s)
  BY <1>1, <1>3, RedeployedGood DEF Joined
<1> QED
  BY <1>1, <1>2, <1>3

LEMMA AssignServerGood ==
  ASSUME RoundRobin = TRUE, IInv, AssignServer
  PROVE  Good(mem')
<1> DEFINE s == IdleServer(mem)
           a == GetIdleServer(mem)
           n == Now(a, s, "busy")
<1>1. /\ mem \in Memory /\ Sound(mem) /\ Joined(mem)
      /\ mem.idleServers # NoServer
      /\ mem' = n \/ (Room(mem, 1) /\ mem' = AppendMessage(n, "exit", s))
  BY DEF IInv, Good, AssignServer
<1>2. PICK q : Threaded(mem, q)
  BY <1>1 DEF Sound
<1>3. PICK p : Idlers(mem, p) /\ Elements(p) = IdleOnes(mem)
  BY <1>1 DEF Sound
<1>4. p # <<>>
  BY <1>1, <1>3 DEF Idlers, Linked
<1>5. /\ s = p[1] /\ s \in Servers
      /\ a \in Memory
      /\ \E r : Idlers(a, r) /\ Elements(r) = Elements(p) \ {p[1]}
      /\ SameMessages(mem, a) /\ SameSent(mem, a) /\ a.doing = mem.doing
  <2> HIDE DEF a
  <2> QED
    BY <1>1, <1>3, <1>4, GetIdleServerIs DEF a
<1> HIDE DEF s, a
<1>6. PICK r : Idlers(a, r) /\ Elements(r) = IdleOnes(mem) \ {s}
  BY <1>3, <1>5
<1>7. Threaded(a, q) /\ Held(a)
  BY <1>1, <1>2, <1>5, SameThreaded, SameHeld DEF Sound, SameMessages
<1>8. "busy" \in Doings /\ s \in IdleOnes(mem)
  <2>1. 1 \in 1..Len(p)
    BY <1>3, <1>4 DEF Idlers
  <2>2. p[1] \in Elements(p)
    BY <2>1 DEF Elements
  <2> QED
    BY <1>3, <1>5, <2>2 DEF Doings
<1>9. Elements(r) = (IdleOnes(a) \ {s}) \cup (IF "busy" = "idle" THEN {s} ELSE {})
  BY <1>5, <1>6 DEF IdleOnes
<1>10. /\ n \in Memory /\ Sound(n)
       /\ n.doing = [a.doing EXCEPT ![s] = "busy"]
       /\ SameMessages(a, n) /\ SameSent(a, n)
  BY <1>5, <1>6, <1>7, <1>8, <1>9, NowIs
<1> HIDE DEF n
<1>11. Joined(n)
  BY <1>1, <1>5, <1>8, <1>10, MemoryFields DEF Joined, IdleOnes, SameSent
<1>12. Good(n)
  BY <1>10, <1>11 DEF Good
<1>13. CASE Room(mem, 1) /\ mem' = AppendMessage(n, "exit", s)
  <2>1. Room(n, 1)
    BY <1>5, <1>10, <1>13 DEF Room, SameMessages
  <2> QED
    BY <1>5, <1>12, <1>13, <2>1, AppendMessageGood DEF Kinds
<1> QED
  BY <1>1, <1>12, <1>13

LEMMA KillServerGood ==
  ASSUME RoundRobin = TRUE, IInv, NEW s \in Servers, KillServer(s)
  PROVE  Good(mem')
<1> DEFINE a == RemoveIdleServer(mem, s)
           b == CancelTarget(a, s)
           c == Now(b, s, "removed")
           f == [c.nextIdle EXCEPT ![s] = NoServer]
           n == [c EXCEPT !.nextIdle[s] = NoServer]
<1>1. /\ mem \in Memory /\ Sound(mem) /\ Joined(mem) /\ mem' = n
  BY DEF IInv, Good, KillServer
<1>2. PICK q : Threaded(mem, q)
  BY <1>1 DEF Sound
<1>3. PICK p : Idlers(mem, p) /\ Elements(p) = IdleOnes(mem)
  BY <1>1 DEF Sound
<1>4. /\ a \in Memory
      /\ \E r : Idlers(a, r) /\ Elements(r) = Elements(p) \ {s}
      /\ SameMessages(mem, a) /\ SameSent(mem, a) /\ a.doing = mem.doing
  <2> HIDE DEF a
  <2> QED
    BY <1>1, <1>3, RemoveIdleServerIs DEF a
<1>5. PICK r : Idlers(a, r) /\ Elements(r) = IdleOnes(mem) \ {s}
  BY <1>3, <1>4
<1>6. Threaded(a, q) /\ Held(a)
  BY <1>1, <1>2, <1>4, SameThreaded, SameHeld DEF Sound, SameMessages
<1> HIDE DEF a
<1>7. /\ b \in Memory /\ Held(b)
      /\ b.lastSent = [a.lastSent EXCEPT ![s] = NoMessage]
      /\ b.used = a.used /\ b.first = a.first /\ b.last = a.last /\ b.next = a.next
      /\ SameIdle(a, b) /\ b.doing = a.doing
  BY <1>4, <1>6, CancelTargetIs
<1> HIDE DEF b
<1>8. Threaded(b, q) /\ Idlers(b, r)
  BY <1>5, <1>6, <1>7, SameIdlers DEF Threaded
<1>9. "removed" \in Doings
  BY DEF Doings
<1>10. Elements(r) = (IdleOnes(b) \ {s}) \cup (IF "removed" = "idle" THEN {s} ELSE {})
  BY <1>4, <1>5, <1>7 DEF IdleOnes
<1>11. /\ c \in Memory /\ Sound(c)
       /\ c.doing = [b.doing EXCEPT ![s] = "removed"]
       /\ SameMessages(b, c) /\ SameIdle(b, c) /\ SameSent(b, c)
  BY <1>7, <1>8, <1>9, <1>10, NowIs
<1>12. /\ Idlers(c, r) /\ Threaded(c, q) /\ Held(c)
       /\ Elements(r) = IdleOnes(c) /\ s \notin Elements(r)
  <2>1. IdleOnes(c) = IdleOnes(b) \ {s}
    BY <1>7, <1>11, MemoryFields DEF IdleOnes
  <2> QED
    BY <1>5, <1>8, <1>10, <1>11, <2>1, SameIdlers, SameThreaded DEF Sound
<1> HIDE DEF c
<1>13. /\ n \in Memory /\ n.nextIdle = f
       /\ n.idleServers = c.idleServers /\ n.idleCount = c.idleCount
       /\ SameMessages(c, n) /\ SameSent(c, n) /\ n.doing = c.doing
  <2>1. f \in [Servers -> Servers \cup {NoServer}]
    BY <1>11, MemoryFields
  <2> DEFINE x == c.idleServers
             k == c.idleCount
  <2>2. n = WithIdle(c, x, f, k) /\ IdleTyped(x, f, k)
    BY <1>11, <2>1, MemoryFields DEF WithIdle, IdleTyped, Memory
  <2> HIDE DEF f, n, x, k
  <2>3. /\ n \in Memory /\ n.nextIdle = f
        /\ n.idleServers = x /\ n.idleCount = k
        /\ SameMessages(c, n) /\ SameSent(c, n) /\ n.doing = c.doing
    BY <1>11, <2>2, IdleFields
  <2> QED
    BY <2>3 DEF x, k
<1>14. Idlers(n, r)
  <2>1. \A i \in 1..Len(r) : r[i] \in Servers /\ r[i] # s
    BY <1>12 DEF Elements, Idlers
  <2>2. \A i \in 1..Len(r) : f[r[i]] = c.nextIdle[r[i]]
    BY <1>11, <2>1, MemoryFields
  <2>3. r # <<>> => Len(r) \in 1..Len(r)
    BY <1>12 DEF Idlers
  <2> HIDE DEF f, n
  <2> QED
    BY <1>12, <1>13, <2>2, <2>3 DEF Idlers, Linked
<1> HIDE DEF n
<1>15. Threaded(n, q) /\ Held(n) /\ Elements(r) = IdleOnes(n)
  BY <1>12, <1>13, SameThreaded, SameHeld DEF SameMessages, IdleOnes
<1>16. Sound(n)
  BY <1>14, <1>15 DEF Sound
<1>17. Joined(n)
  <2>1. /\ n.lastSent = [mem.lastSent EXCEPT ![s] = NoMessage]
        /\ n.doing = [mem.doing EXCEPT ![s] = "removed"]
    BY <1>4, <1>7, <1>11, <1>13 DEF SameSent
  <2> QED
    BY <1>1, <2>1, MemoryFields DEF Joined
<1> QED
  BY <1>1, <1>13, <1>16, <1>17 DEF Good

\* Every step preserves it.
LEMMA NextGood ==
  ASSUME RoundRobin = TRUE, IInv, Next
  PROVE  IInv'
<1>1. Good(mem) /\ prefs \in 0..MaxPrefs /\ MaxPrefs \in Nat
  BY ListAssumption DEF IInv
<1>2. ASSUME NEW s \in Servers, CreateNewProcess(s) PROVE IInv'
  <2>1. mem.doing[s] = "none" /\ mem' = Now(mem, s, "starting") /\ prefs' = prefs
    BY <1>2 DEF CreateNewProcess
  <2>2. /\ "starting" \in Doings \ {"idle"}
        /\ mem.lastSent[s] = NoMessage
    BY <1>1, <2>1 DEF Doings, Good, Joined
  <2> QED
    BY <1>1, <2>1, <2>2, NowGood DEF IInv
<1>3. ASSUME NEW s \in Servers, DeleteServer(s) PROVE IInv'
  <2>1. mem.doing[s] = "removed" /\ mem' = Now(mem, s, "none") /\ prefs' = prefs
    BY <1>3 DEF DeleteServer
  <2>2. /\ "none" \in Doings \ {"idle"}
        /\ mem.lastSent[s] = NoMessage
    BY <1>1, <2>1 DEF Doings, Good, Joined
  <2> QED
    BY <1>1, <2>1, <2>2, NowGood DEF IInv
<1>4. ASSUME NEW s \in Servers, ServerStarted(s) PROVE IInv'
  BY <1>1, <1>4, ServerStartedGood DEF IInv, ServerStarted
<1>5. ASSUME NEW s \in Servers, EndRequest(s) PROVE IInv'
  BY <1>1, <1>5, EndRequestGood DEF IInv, EndRequest
<1>6. ASSUME NEW s \in Servers, DoPush(s) PROVE IInv'
  BY <1>1, <1>6, DoPushGood DEF IInv, DoPush
<1>7. ASSUME NEW s \in Servers, KillServer(s) PROVE IInv'
  BY <1>1, <1>7, KillServerGood DEF IInv, KillServer
<1>8. CASE AssignServer
  BY <1>1, <1>8, AssignServerGood DEF IInv, AssignServer
<1>9. CASE SetPref
  <2>1. /\ Room(mem, 1) /\ mem' = AppendMessage(mem, "pref", NoServer)
        /\ prefs' \in 0..MaxPrefs
    BY <1>1, <1>9 DEF SetPref
  <2> QED
    BY <1>1, <2>1, AppendMessageGood DEF IInv, Kinds
<1>10. CASE StopAllServers
  <2>1. /\ Room(mem, 1) /\ mem' = AppendMessage(mem, "exit", NoServer)
        /\ prefs' = prefs
    BY <1>10 DEF StopAllServers
  <2> QED
    BY <1>1, <2>1, AppendMessageGood DEF IInv, Kinds
<1>11. CASE PeriodicIdleServerPurge
  <2>1. /\ Room(mem, 1) /\ mem' = AppendMessage(mem, "exit", mem.idleServers)
        /\ prefs' = prefs /\ mem.idleServers \in Servers \cup {NoServer}
    BY <1>1, <1>11, MemoryFields DEF PeriodicIdleServerPurge, Good
  <2> QED
    BY <1>1, <2>1, AppendMessageGood DEF IInv, Kinds
<1>12. CASE DropSentMessages
  <2>1. mem' = DropMessages(mem) /\ prefs' = prefs /\ mem \in Memory /\ Sound(mem)
    BY <1>1, <1>12 DEF DropSentMessages, Good
  <2>2. /\ mem' \in Memory /\ Sound(mem')
        /\ mem'.lastSent = mem.lastSent /\ mem'.doing = mem.doing
    BY <2>1, DropMessagesIs
  <2> QED
    BY <1>1, <2>1, <2>2 DEF IInv, Good, Joined
<1> QED
  BY <1>2, <1>3, <1>4, <1>5, <1>6, <1>7, <1>8, <1>9, <1>10, <1>11, <1>12 DEF Next

\* The invariant at the start, with one NullMessage that nobody remembers.
LEMMA InitGood ==
  ASSUME Init
  PROVE  IInv
<1>1. mem = InitMemory /\ prefs \in 0..MaxPrefs
  BY DEF Init
<1>2. 1 \in Slots /\ NoMessage \notin Slots /\ MaxMessages \in Nat
  BY ListAssumption DEF Slots, NoMessage
<1>3. mem \in Memory
  BY <1>1, <1>2 DEF InitMemory, Memory
<1>4. Threaded(mem, <<1>>)
  <2>1. <<1>> \in Seq(Slots) /\ Len(<<1>>) = 1 /\ <<1>>[1] = 1 /\ <<1>> # <<>>
    BY <1>2
  <2>2. Elements(<<1>>) = {1}
    BY <2>1 DEF Elements
  <2>3. /\ mem.used = {1} /\ mem.first = 1 /\ mem.last = 1
        /\ \A i \in Slots : mem.next[i] = NoMessage
    BY <1>1 DEF InitMemory
  <2> DEFINE q == <<1>>
  <2>4. Threaded(mem, q)
    <3> HIDE DEF q
    <3> QED
      BY <1>2, <2>1, <2>2, <2>3 DEF Threaded, Linked, q
  <2> QED
    BY <2>4
<1>5. Idlers(mem, <<>>) /\ Elements(<<>>) = IdleOnes(mem)
  BY <1>1 DEF InitMemory, Idlers, Linked, Elements, IdleOnes
<1>6. Held(mem)
  <2>1. \A s \in Servers : mem.lastSent[s] = NoMessage
    BY <1>1 DEF InitMemory
  <2>2. ASSUME NEW i \in Slots PROVE {s \in Servers : mem.lastSent[s] = i} = {}
    BY <1>2, <2>1
  <2>3. Cardinality({}) = 0
    BY FS_EmptySet
  <2>4. \A i \in Slots : mem.refcount[i] = 0
    BY <1>1 DEF InitMemory
  <2> QED
    BY <2>1, <2>2, <2>3, <2>4 DEF Held
<1>7. Joined(mem)
  BY <1>1 DEF InitMemory, Joined
<1> QED
  BY <1>1, <1>3, <1>4, <1>5, <1>6, <1>7 DEF IInv, Good, Sound

\* So it is an invariant.
LEMMA ListsGood ==
  ASSUME RoundRobin = TRUE
  PROVE  Spec => []IInv
<1>1. Init => IInv
  BY InitGood
<1>2. IInv /\ [Next]_vars => IInv'
  <2>1. IInv /\ UNCHANGED vars => IInv'
    BY DEF IInv, vars
  <2> QED
    BY <2>1, NextGood
<1> QED
  BY <1>1, <1>2, PTL DEF Spec

\* The lists and counts keep their types, for every number of servers, messages and
\* addresses: g_idleCount and m_refcount are never decremented below zero, and s_first
\* and s_last always point to a message.
THEOREM ListsTypeCorrect ==
  ASSUME RoundRobin = TRUE
  PROVE  Spec => []TypeOK
<1>1. IInv => TypeOK
  BY DEF IInv, Good, TypeOK
<1> QED
  BY <1>1, ListsGood, PTL

\* The linked idle list holds the servers with nothing to do, each once, and
\* g_idleCount counts them: AddIdleServer, GetIdleServer, RemoveServer and the loop
\* of Message::Append never lose, repeat or leave a server behind.  With round robin
\* off this is not so (finding RoundRobin).
THEOREM IdleListIsSound ==
  ASSUME RoundRobin = TRUE
  PROVE  Spec => []IdleListSound
<1>1. ASSUME IInv PROVE IdleListSound
  <2>1. mem \in Memory
    BY <1>1 DEF IInv, Good
  <2>2. PICK p : Idlers(mem, p) /\ Elements(p) = IdleOnes(mem)
    BY <1>1 DEF IInv, Good, Sound
  <2>3. IdleList(mem) = p
    BY <2>1, <2>2, IdleListIs
  <2>4. /\ p \in Seq(Servers) /\ mem.idleCount = Len(p)
        /\ \A i, j \in 1..Len(p) : p[i] = p[j] => i = j
    BY <2>2 DEF Idlers, Linked
  <2>5. ToSet(p) = Elements(p)
    BY <2>4, ToSetIs
  <2>6. IsInjective(p)
    BY <2>4 DEF IsInjective
  <2> QED
    BY <2>2, <2>3, <2>4, <2>5, <2>6 DEF IdleListSound, IdleOnes
<1> QED
  BY <1>1, ListsGood, PTL

\* Message::Next, BringUpToDate, CancelTarget and DropSentMessages keep the reference
\* counts right, so that no server remembers a message that was deleted, and the
\* list reaches every message there is.
THEOREM MessagesAreHeld ==
  ASSUME RoundRobin = TRUE
  PROVE  Spec => []MessagesHeld
<1>1. ASSUME IInv PROVE MessagesHeld
  <2>1. mem \in Memory /\ Held(mem)
    BY <1>1 DEF IInv, Good, Sound
  <2>2. PICK q : Threaded(mem, q)
    BY <1>1 DEF IInv, Good, Sound
  <2>3. MessageList(mem) = q
    BY <2>1, <2>2, MessageListIs
  <2>4. q \in Seq(Slots) /\ mem.last = Last(q) /\ mem.used = Elements(q)
    BY <2>2 DEF Threaded, Last
  <2>5. ToSet(q) = Elements(q)
    BY <2>4, ToSetIs
  <2> QED
    BY <2>1, <2>3, <2>4, <2>5 DEF MessagesHeld, Held
<1> QED
  BY <1>1, ListsGood, PTL

\* "Remove from idle list, if on it." (impl.h:230) is true with round robin on.
THEOREM RemovedAreOffTheList ==
  ASSUME RoundRobin = TRUE
  PROVE  Spec => []RemovedFromIdleList
<1>1. IdleListSound => RemovedFromIdleList
  BY DEF IdleListSound, RemovedFromIdleList
<1> QED
  BY <1>1, IdleListIsSound, PTL
=============================================================================
