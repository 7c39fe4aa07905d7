--------------------------- MODULE InterfaceProofs ---------------------------
(***************************************************************************)
(* Proofs about the ways into a running Nagios: the event broker with its  *)
(* channels and their subscribers (module EventBroker), for any modules,   *)
(* callback types, channels and sockets, and the command file with its     *)
(* worker (module CommandFile), for any lines, buffers, pipe and socket.   *)
(*                                                                         *)
(* The loops of the code are functions defined by recursion over the turns *)
(* of the loop.  That such a function is what its equation says is proved  *)
(* from the existence of a function that satisfies the equation            *)
(* (LoopExists); what it computes follows turn by turn (Induction).        *)
(***************************************************************************)
EXTENDS EventBroker, CommandFile, SequenceTheorems, FiniteSetTheorems, WellFoundedInduction, TLAPS

-----------------------------------------------------------------------------
\* Loops.

\* Of a set of naturals that is not empty, one is the least.
LEMMA Least ==
    ASSUME NEW T \in SUBSET Nat, T # {}
    PROVE  \E m \in T : \A k \in T : m <= k
  <1>1. PICK m \in T : \A k \in T : ~(<<k, m>> \in OpToRel(<, Nat))
    BY WFMin, NatLessThanWellFounded, Zenon
  <1>2. \A k \in T : ~(k < m)
    BY <1>1, Zenon DEF OpToRel
  <1>3. m \in Nat /\ \A k \in T : k \in Nat
    OBVIOUS
  <1> QED BY <1>2, <1>3

\* What holds before a loop and is kept by its turns holds after each.
LEMMA Induction ==
    ASSUME NEW N \in Nat, NEW G \in SUBSET (0..N), 0 \in G,
           \A n \in 1..N : n - 1 \in G => n \in G
    PROVE  \A n \in 0..N : n \in G
  <1> DEFINE Bad == (0..N) \ G
  <1>1. SUFFICES ASSUME Bad # {} PROVE FALSE
    OBVIOUS
  <1>2. Bad \in SUBSET Nat
    OBVIOUS
  <1>3. PICK k \in Bad : \A m \in Bad : k <= m
    <2> HIDE DEF Bad
    <2> QED BY <1>1, <1>2, Least
  <1>4. k \in 1..N /\ k - 1 \in 0..N /\ k - 1 \notin Bad
    BY <1>3
  <1> QED BY <1>4

\* A loop of N turns, the nth of which turns v into step[n][v].
LEMMA LoopExists ==
    ASSUME NEW V, NEW base \in V, NEW N \in Nat, NEW step \in [1..N -> [V -> V]]
    PROVE  \E f \in [0..N -> V] : f[0] = base /\ \A n \in 1..N : f[n] = step[n][f[n - 1]]
  <1> DEFINE Upto(k, f) == f[0] = base /\ \A n \in 1..k : f[n] = step[n][f[n - 1]]
             Good(k) == \E f \in [0..k -> V] : Upto(k, f)
             G == {k \in 0..N : Good(k)}
  <1>1. Good(0)
    <2>1. [n \in 0..0 |-> base] \in [0..0 -> V]
      OBVIOUS
    <2>2. Upto(0, [n \in 0..0 |-> base])
      OBVIOUS
    <2> QED BY <2>1, <2>2
  <1>2. ASSUME NEW k \in 1..N, Good(k - 1) PROVE Good(k)
    <2>1. PICK f \in [0..(k - 1) -> V] : Upto(k - 1, f)
      BY <1>2
    <2> DEFINE g == [n \in 0..k |-> IF n < k THEN f[n] ELSE step[k][f[k - 1]]]
    <2>2. step[k][f[k - 1]] \in V
      OBVIOUS
    <2>3. g \in [0..k -> V]
      BY <2>2
    <2>4. g[0] = base /\ \A n \in 1..k : g[n] = step[n][g[n - 1]]
      BY <2>1
    <2> QED BY <2>3, <2>4
  <1>3. Good(N)
    <2> HIDE DEF Good
    <2>1. G \in SUBSET (0..N) /\ 0 \in G /\ \A n \in 1..N : n - 1 \in G => n \in G
      BY <1>1, <1>2
    <2> HIDE DEF G
    <2>2. \A n \in 0..N : n \in G
      BY <2>1, Induction
    <2>3. N \in G
      BY <2>2
    <2> QED BY <2>3 DEF G
  <1> QED BY <1>3

-----------------------------------------------------------------------------
\* Callback lists.
EntriesOf(L) == [func : L \cup NerdChannels, priority : Priorities \cup {NerdPriority}]

NoneOf(list, f) == \A i \in DOMAIN list : list[i].func # f
AtMostOne(list, f) ==
    \A i, k \in DOMAIN list : list[i].func = f /\ list[k].func = f => i = k

\* The elements of a sequence with one more, and with one less.
LEMMA InsertedAt ==
    ASSUME NEW S, NEW s \in Seq(S), NEW i \in 1..(Len(s) + 1), NEW e \in S
    PROVE  /\ InsertAt(s, i, e) \in Seq(S)
           /\ Len(InsertAt(s, i, e)) = Len(s) + 1
           /\ \A k \in 1..(Len(s) + 1) :
                 InsertAt(s, i, e)[k] = IF k < i THEN s[k] ELSE IF k = i THEN e ELSE s[k - 1]
  <1> DEFINE a == SubSeq(s, 1, i - 1)
             c == SubSeq(s, i, Len(s))
  <1>0. Len(s) \in Nat
    OBVIOUS
  <1>1. /\ a \in Seq(S) /\ Len(a) = i - 1
        /\ \A k \in 1..(i - 1) : a[k] = s[k]
    BY <1>0, SubSeqProperties
  <1>2. /\ c \in Seq(S) /\ Len(c) = Len(s) - i + 1
        /\ \A k \in 1..(Len(s) - i + 1) : c[k] = s[i + k - 1]
    BY <1>0, SubSeqProperties
  <1> HIDE DEF a, c
  <1>3. <<e>> \in Seq(S) /\ Len(<<e>>) = 1 /\ <<e>>[1] = e
    OBVIOUS
  <1>4. /\ a \o <<e>> \in Seq(S) /\ Len(a \o <<e>>) = i
        /\ \A k \in 1..i : (a \o <<e>>)[k] = IF k < i THEN s[k] ELSE e
    BY <1>0, <1>1, <1>3
  <1>5. InsertAt(s, i, e) = (a \o <<e>>) \o c
    BY DEF InsertAt, a, c
  <1> DEFINE b == a \o <<e>>
  <1>6. b \in Seq(S) /\ Len(b) = i /\ \A k \in 1..i : b[k] = IF k < i THEN s[k] ELSE e
    BY <1>4
  <1>7. InsertAt(s, i, e) = b \o c
    BY <1>5
  <1> HIDE DEF b
  <1>8. /\ b \o c \in Seq(S) /\ Len(b \o c) = Len(b) + Len(c)
        /\ \A k \in 1..(Len(b) + Len(c)) : (b \o c)[k] = IF k <= Len(b) THEN b[k] ELSE c[k - Len(b)]
    BY <1>2, <1>6, ConcatProperties
  <1>9. \A k \in 1..(Len(s) + 1) :
            (b \o c)[k] = IF k < i THEN s[k] ELSE IF k = i THEN e ELSE s[k - 1]
    <2> SUFFICES ASSUME NEW k \in 1..(Len(s) + 1)
                 PROVE  (b \o c)[k] = IF k < i THEN s[k] ELSE IF k = i THEN e ELSE s[k - 1]
      OBVIOUS
    <2>0. k \in Int /\ i \in Int
      BY <1>0
    <2>1. CASE k <= i
      BY <1>0, <1>2, <1>6, <1>8, <2>1
    <2>2. CASE k > i
      <3>1. k - i \in 1..(Len(s) - i + 1) /\ c[k - i] = s[k - 1]
        BY <1>0, <1>2, <2>2
      <3>2. k \in 1..(Len(b) + Len(c)) /\ ~(k <= Len(b)) /\ Len(b) = i
        BY <1>0, <1>2, <1>6, <2>2
      <3>3. (b \o c)[k] = c[k - i]
        BY <1>8, <3>2
      <3>4. ~(k < i) /\ k # i
        BY <2>2
      <3> QED BY <3>1, <3>3, <3>4
    <2>3. k <= i \/ k > i
      BY <2>0
    <2> QED BY <2>1, <2>2, <2>3, Zenon
  <1> QED BY <1>0, <1>2, <1>6, <1>7, <1>8, <1>9

LEMMA RemovedAt ==
    ASSUME NEW S, NEW s \in Seq(S), NEW i \in 1..Len(s)
    PROVE  /\ RemoveAt(s, i) \in Seq(S)
           /\ Len(RemoveAt(s, i)) = Len(s) - 1
           /\ \A k \in 1..(Len(s) - 1) : RemoveAt(s, i)[k] = IF k < i THEN s[k] ELSE s[k + 1]
  <1> DEFINE a == SubSeq(s, 1, i - 1)
             c == SubSeq(s, i + 1, Len(s))
  <1>0. Len(s) \in Nat
    OBVIOUS
  <1>1. /\ a \in Seq(S) /\ Len(a) = i - 1
        /\ \A k \in 1..(i - 1) : a[k] = s[k]
    BY <1>0, SubSeqProperties
  <1>2. /\ c \in Seq(S) /\ Len(c) = Len(s) - i
        /\ \A k \in 1..(Len(s) - i) : c[k] = s[i + k]
    BY <1>0, SubSeqProperties
  <1> HIDE DEF a, c
  <1>3. RemoveAt(s, i) = a \o c
    BY DEF RemoveAt, a, c
  <1>4. /\ a \o c \in Seq(S) /\ Len(a \o c) = Len(a) + Len(c)
        /\ \A k \in 1..(Len(a) + Len(c)) : (a \o c)[k] = IF k <= Len(a) THEN a[k] ELSE c[k - Len(a)]
    BY <1>1, <1>2, ConcatProperties
  <1>5. \A k \in 1..(Len(s) - 1) : (a \o c)[k] = IF k < i THEN s[k] ELSE s[k + 1]
    <2> SUFFICES ASSUME NEW k \in 1..(Len(s) - 1)
                 PROVE  (a \o c)[k] = IF k < i THEN s[k] ELSE s[k + 1]
      OBVIOUS
    <2>0. k \in Int /\ i \in Int
      BY <1>0
    <2>1. CASE k < i
      BY <1>0, <1>1, <1>2, <1>4, <2>1
    <2>2. CASE k >= i
      <3>1. k - (i - 1) \in 1..(Len(s) - i) /\ c[k - (i - 1)] = s[k + 1]
        BY <1>0, <1>2, <2>2
      <3>2. k \in 1..(Len(a) + Len(c)) /\ ~(k <= Len(a)) /\ Len(a) = i - 1
        BY <1>0, <1>1, <1>2, <2>2
      <3>3. (a \o c)[k] = c[k - (i - 1)]
        BY <1>4, <3>2
      <3> QED BY <2>2, <3>1, <3>3
    <2>3. k < i \/ k >= i
      BY <2>0
    <2> QED BY <2>1, <2>2, <2>3, Zenon
  <1> QED BY <1>0, <1>1, <1>2, <1>3, <1>4, <1>5

\* The first element that a test selects, or 0.
LEMMA FirstOf ==
    ASSUME NEW N \in Nat, NEW I \in SUBSET (1..N)
    PROVE  /\ I # {} => Min(I) \in I /\ \A k \in I : Min(I) <= k
           /\ (IF I # {} THEN Min(I) ELSE 0) \in 0..N
  <1>1. ASSUME I # {} PROVE Min(I) \in I /\ \A k \in I : Min(I) <= k
    <2>1. I \in SUBSET Nat
      OBVIOUS
    <2>2. \E m \in I : \A k \in I : m <= k
      BY <1>1, <2>1, Least
    <2> QED BY <2>2 DEF Min
  <1>2. I # {} => Min(I) \in 1..N
    BY <1>1
  <1> QED BY <1>1, <1>2

LEMMA PositionIsFirst ==
    ASSUME NEW S, NEW list \in Seq(S), NEW f
    PROVE  /\ Position(list, f) \in 0..Len(list)
           /\ Position(list, f) = 0 => NoneOf(list, f)
           /\ Position(list, f) # 0 => list[Position(list, f)].func = f
           /\ \A k \in 1..Len(list) : k < Position(list, f) => list[k].func # f
  <1> DEFINE I == {i \in 1..Len(list) : list[i].func = f}
  <1>1. Position(list, f) = IF I # {} THEN Min(I) ELSE 0
    BY DEF Position, SelectInSeq
  <1>2. Len(list) \in Nat /\ I \in SUBSET (1..Len(list)) /\ DOMAIN list = 1..Len(list)
    OBVIOUS
  <1>3. /\ I # {} => Min(I) \in I /\ \A k \in I : Min(I) <= k
        /\ Position(list, f) \in 0..Len(list)
    <2> HIDE DEF I
    <2> QED BY <1>1, <1>2, FirstOf
  <1>4. CASE I = {}
    BY <1>1, <1>2, <1>4 DEF NoneOf
  <1>5. CASE I # {}
    <2>1. Position(list, f) \in I /\ \A k \in I : Position(list, f) <= k
      BY <1>1, <1>3, <1>5
    <2> QED BY <1>2, <1>3, <2>1
  <1> QED BY <1>4, <1>5

\* neb_register_callback: an entry of f more, and nothing else.
LEMMA RegisteredKeeps ==
    ASSUME NEW L, NEW list \in Seq(EntriesOf(L)), NEW f \in L \cup NerdChannels,
           NEW p \in Priorities \cup {NerdPriority}, NEW g
    PROVE  /\ Registered(list, f, p) \in Seq(EntriesOf(L))
           /\ g # f /\ NoneOf(list, g) => NoneOf(Registered(list, f, p), g)
           /\ g # f /\ AtMostOne(list, g) => AtMostOne(Registered(list, f, p), g)
           /\ NoneOf(list, f) => AtMostOne(Registered(list, f, p), f)
           /\ NoneOf(Registered(list, f, p), g) => NoneOf(list, g) /\ g # f
  <1> DEFINE I == {i \in 1..Len(list) : p < list[i].priority}
             before == IF I # {} THEN Min(I) ELSE 0
             at == IF before = 0 THEN Len(list) + 1 ELSE before
             e == [func |-> f, priority |-> p]
             new == InsertAt(list, at, e)
  <1>1. Registered(list, f, p) = new
    BY DEF Registered, SelectInSubSeq
  <1>2. Len(list) \in Nat /\ I \in SUBSET (1..Len(list)) /\ DOMAIN list = 1..Len(list)
    OBVIOUS
  <1>3. before \in 0..Len(list)
    <2> HIDE DEF I
    <2> QED BY <1>2, FirstOf
  <1>4. e \in EntriesOf(L) /\ e.func = f
    BY DEF EntriesOf
  <1>5. at \in 1..(Len(list) + 1)
    <2> HIDE DEF before
    <2> QED BY <1>2, <1>3
  <1> HIDE DEF at, e
  <1>6. /\ new \in Seq(EntriesOf(L)) /\ Len(new) = Len(list) + 1
        /\ \A k \in 1..(Len(list) + 1) :
              new[k] = IF k < at THEN list[k] ELSE IF k = at THEN e ELSE list[k - 1]
    <2> DEFINE T == EntriesOf(L)
    <2>1. list \in Seq(T) /\ e \in T
      BY <1>4
    <2> HIDE DEF T
    <2>3. at \in 1..(Len(list) + 1)
      BY <1>5
    <2>2. /\ InsertAt(list, at, e) \in Seq(T)
          /\ Len(InsertAt(list, at, e)) = Len(list) + 1
          /\ \A k \in 1..(Len(list) + 1) :
                InsertAt(list, at, e)[k] = IF k < at THEN list[k] ELSE IF k = at THEN e ELSE list[k - 1]
      BY <2>1, <2>3, InsertedAt
    <2> QED BY <2>2 DEF T
  <1> HIDE DEF new
  <1>7. DOMAIN new = 1..(Len(list) + 1) /\ at \in Int
    <2>1. at \in Int
      BY <1>2, <1>5
    <2> QED BY <1>6, <2>1
  \* Where an entry of the new list was before.
  <1> DEFINE was(k) == IF k < at THEN k ELSE k - 1
  <1>8. \A k \in DOMAIN new : k # at => was(k) \in DOMAIN list /\ new[k] = list[was(k)]
    BY <1>2, <1>5, <1>6, <1>7
  <1>9. \A i, k \in DOMAIN new : i # at /\ k # at /\ was(i) = was(k) => i = k
    BY <1>2, <1>5, <1>7
  <1>10. new[at].func = f /\ at \in DOMAIN new
    BY <1>4, <1>5, <1>6, <1>7
  <1> HIDE DEF was
  <1>11. ASSUME g # f, NoneOf(list, g) PROVE NoneOf(new, g)
    BY <1>8, <1>10, <1>11 DEF NoneOf
  <1>12. ASSUME g # f, AtMostOne(list, g) PROVE AtMostOne(new, g)
    BY <1>8, <1>9, <1>10, <1>12 DEF AtMostOne
  <1>13. ASSUME NoneOf(list, f) PROVE AtMostOne(new, f)
    BY <1>8, <1>13 DEF NoneOf, AtMostOne
  <1>14. ASSUME NoneOf(new, g) PROVE NoneOf(list, g) /\ g # f
    <2>1. \A i \in DOMAIN list : \E k \in DOMAIN new : new[k] = list[i]
      <3> TAKE i \in DOMAIN list
      <3>1. CASE i < at
        <4>1. i \in DOMAIN new /\ new[i] = list[i]
          BY <1>2, <1>6, <1>7, <3>1
        <4> QED BY <4>1
      <3>2. CASE ~(i < at)
        <4>1. i + 1 \in DOMAIN new /\ new[i + 1] = list[i]
          BY <1>2, <1>6, <1>7, <3>2
        <4> QED BY <4>1
      <3> QED BY <3>1, <3>2
    <2> QED BY <1>10, <1>14, <2>1 DEF NoneOf
  <1> QED BY <1>1, <1>6, <1>11, <1>12, <1>13, <1>14

\* neb_deregister_callback: the entry of f, and what is behind a head of the list.
LEMMA DeregisteredKeeps ==
    ASSUME NEW S, NEW list \in Seq(S), NEW f, NEW g
    PROVE  /\ Deregistered(list, f) \in Seq(S)
           /\ NoneOf(list, g) => NoneOf(Deregistered(list, f), g)
           /\ AtMostOne(list, g) => AtMostOne(Deregistered(list, f), g)
           /\ AtMostOne(list, f) => NoneOf(Deregistered(list, f), f)
           /\ g # f /\ NoneOf(Deregistered(list, f), g) =>
                  NoneOf(list, g) \/ Deregistered(list, f) = <<>>
  <1> DEFINE i == Position(list, f)
             new == Deregistered(list, f)
  <1>1. /\ i \in 0..Len(list)
        /\ i = 0 => NoneOf(list, f)
        /\ i # 0 => list[i].func = f
    BY PositionIsFirst
  <1>2. Len(list) \in Nat /\ DOMAIN list = 1..Len(list)
    OBVIOUS
  <1>3. new = IF i = 0 THEN list ELSE IF i = 1 THEN <<>> ELSE RemoveAt(list, i)
    BY DEF Deregistered
  <1>8. Deregistered(list, f) = new
    OBVIOUS
  <1> HIDE DEF i, new
  <1>10. i \in Int
    BY <1>1, <1>2
  <1>4. CASE i = 0
    BY <1>1, <1>3, <1>4, <1>8
  <1>5. CASE i = 1
    BY <1>3, <1>5, <1>8 DEF NoneOf, AtMostOne
  <1>6. CASE i > 1
    <2>1. /\ new \in Seq(S) /\ Len(new) = Len(list) - 1
          /\ \A k \in 1..(Len(list) - 1) : new[k] = IF k < i THEN list[k] ELSE list[k + 1]
      <3>1. i \in 1..Len(list) /\ new = RemoveAt(list, i)
        BY <1>1, <1>2, <1>3, <1>6
      <3> QED BY <3>1, RemovedAt
    <2> DEFINE was(k) == IF k < i THEN k ELSE k + 1
    <2>2. DOMAIN new = 1..(Len(list) - 1)
      BY <2>1
    <2>3. \A k \in DOMAIN new : was(k) \in DOMAIN list /\ new[k] = list[was(k)] /\ was(k) # i
      BY <1>1, <1>2, <1>6, <2>1, <2>2
    <2>4. \A j, k \in DOMAIN new : was(j) = was(k) => j = k
      BY <1>2, <1>10, <2>2
    <2>5. i \in DOMAIN list /\ list[i].func = f
      BY <1>1, <1>2, <1>6, <1>10
    <2> HIDE DEF was
    <2>6. NoneOf(list, g) => NoneOf(new, g)
      BY <2>3 DEF NoneOf
    <2>7. AtMostOne(list, g) => AtMostOne(new, g)
      BY <2>3, <2>4 DEF AtMostOne
    <2>8. AtMostOne(list, f) => NoneOf(new, f)
      BY <2>3, <2>5 DEF NoneOf, AtMostOne
    <2>9. ASSUME g # f, NoneOf(new, g) PROVE NoneOf(list, g)
      <3>1. \A j \in DOMAIN list : j # i => \E k \in DOMAIN new : new[k] = list[j]
        <4> TAKE j \in DOMAIN list
        <4>1. CASE j < i
          <5>1. j \in DOMAIN new /\ new[j] = list[j]
            BY <1>1, <1>2, <1>10, <2>1, <2>2, <4>1
          <5> QED BY <5>1
        <4>2. CASE j > i
          <5>1. j - 1 \in DOMAIN new /\ new[j - 1] = list[j]
            BY <1>1, <1>2, <1>6, <1>10, <2>1, <2>2, <4>2
          <5> QED BY <5>1
        <4> QED BY <1>2, <1>10, <4>1, <4>2
      <3> QED BY <2>5, <2>9, <3>1 DEF NoneOf
    <2> QED BY <1>8, <2>1, <2>6, <2>7, <2>8, <2>9
  <1>7. i = 0 \/ i = 1 \/ i > 1
    BY <1>1, <1>2, <1>10
  <1> QED BY <1>4, <1>5, <1>6, <1>7, <1>8

\* neb_deregister_module_callbacks, for one type: of the list nothing is left, or a
\* beginning that holds no entry of m, for as far as the walk has come.
LEMMA WithoutModuleKeeps ==
    ASSUME NEW L, NEW list \in Seq(EntriesOf(L)), NEW m
    PROVE  /\ WithoutModule(list, m) \in Seq(EntriesOf(L))
           /\ NoneOf(WithoutModule(list, m), m)
           /\ \A g : NoneOf(list, g) => NoneOf(WithoutModule(list, m), g)
           /\ \A g : AtMostOne(list, g) => AtMostOne(WithoutModule(list, m), g)
           /\ \A g : g # m /\ NoneOf(WithoutModule(list, m), g) =>
                      NoneOf(list, g) \/ WithoutModule(list, m) = <<>>
  <1> DEFINE N == Len(list)
             V == Seq(EntriesOf(L))
             Of(v, n) == IF list[n].func = m THEN Deregistered(v, m) ELSE v
             Eq(f) == f = [n \in 0..N |-> IF n = 0 THEN list ELSE
                              IF list[n].func = m THEN Deregistered(f[n - 1], m) ELSE f[n - 1]]
             step == [n \in 1..N |-> [v \in V |-> Of(v, n)]]
             left == CHOOSE f : Eq(f)
  <1>1. N \in Nat /\ list \in V /\ DOMAIN list = 1..N
    OBVIOUS
  <1>2. \A v \in V, n \in 1..N : Of(v, n) \in V
    <2> HIDE DEF V
    <2>1. \A v \in V : Deregistered(v, m) \in V
      <3> TAKE v \in V
      <3> QED BY DeregisteredKeeps DEF V
    <2> QED BY <2>1
  <1>3. PICK f \in [0..N -> V] : f[0] = list /\ \A n \in 1..N : f[n] = step[n][f[n - 1]]
    <2>1. step \in [1..N -> [V -> V]]
      <3> HIDE DEF Of, V
      <3> QED BY <1>2
    <2>2. N \in Nat /\ list \in V
      BY <1>1
    <2> HIDE DEF step, N, V
    <2>3. \E f \in [0..N -> V] : f[0] = list /\ \A n \in 1..N : f[n] = step[n][f[n - 1]]
      BY <2>1, <2>2, LoopExists
    <2> QED BY <2>3
  <1>4. \A n \in 1..N : f[n] = Of(f[n - 1], n)
    <2>1. \A n \in 1..N : n - 1 \in 0..N /\ f[n - 1] \in V
      <3> HIDE DEF V, N, step
      <3> QED BY <1>1, <1>3
    <2>2. \A n \in 1..N, v \in V : step[n][v] = Of(v, n)
      OBVIOUS
    <2> HIDE DEF step, Of, V
    <2> QED BY <1>3, <2>1, <2>2
  <1>5. Eq(f)
    <2> HIDE DEF V, step
    <2> QED BY <1>1, <1>3, <1>4
  <1>6. Eq(left)
    <2> HIDE DEF Eq
    <2> QED BY <1>5
  <1>7. WithoutModule(list, m) = left[N]
    BY DEF WithoutModule
  <1>8. left = [n \in 0..N |-> IF n = 0 THEN list ELSE Of(left[n - 1], n)]
    BY <1>6
  <1> HIDE DEF left
  <1>9. left[0] = list /\ \A n \in 1..N : left[n] = Of(left[n - 1], n)
    <2>1. 0 \in 0..N /\ \A n \in 1..N : n \in 0..N /\ n # 0
      BY <1>1
    <2> HIDE DEF Of, N
    <2> QED BY <1>8, <2>1
  <1> DEFINE Rest(v, n) ==
                 \/ v = <<>>
                 \/ \E k \in 0..n :
                        /\ Len(v) = k + (N - n)
                        /\ \A i \in 1..k : v[i].func # m
                        /\ \A i \in 1..(N - n) : v[k + i] = list[n + i]
             Less(v) == /\ \A g : NoneOf(list, g) => NoneOf(v, g)
                        /\ \A g : AtMostOne(list, g) => AtMostOne(v, g)
                        /\ \A g : g # m /\ NoneOf(v, g) => NoneOf(list, g) \/ v = <<>>
             G == {n \in 0..N : left[n] \in V /\ Less(left[n]) /\ Rest(left[n], n)}
  <1>10. 0 \in G
    <2>1. Rest(list, 0)
      <3>1. Len(list) = 0 + (N - 0) /\ \A i \in 1..(N - 0) : list[0 + i] = list[0 + i]
        BY <1>1
      <3> QED BY <3>1
    <2> HIDE DEF Rest, V
    <2> QED BY <1>1, <1>9, <2>1
  <1>11. ASSUME NEW n \in 1..N, n - 1 \in G PROVE n \in G
    <2> DEFINE v == left[n - 1]
               w == left[n]
    <2>0. n - 1 \in 0..N /\ n \in 0..N /\ n \in Int
      BY <1>1
    <2>1. v \in V /\ Less(v) /\ Rest(v, n - 1) /\ w = Of(v, n)
      <3> HIDE DEF V, Less, Rest, Of
      <3> QED BY <1>9, <1>11
    <2> SUFFICES w \in V /\ Less(w) /\ Rest(w, n)
      BY <2>0
    <2> HIDE DEF v, w
    <2>2. w \in V /\ Less(w)
      <3>1. CASE w = v
        BY <2>1, <3>1
      <3>2. CASE w = Deregistered(v, m)
        <4>1. /\ w \in V
              /\ \A g : /\ NoneOf(v, g) => NoneOf(w, g)
                        /\ AtMostOne(v, g) => AtMostOne(w, g)
                        /\ g # m /\ NoneOf(w, g) => NoneOf(v, g) \/ w = <<>>
          BY <2>1, <3>2, DeregisteredKeeps
        <4>2. v = <<>> => w = <<>>
          <5>1. v = <<>> => Position(v, m) = 0
            BY <2>1, PositionIsFirst
          <5>2. v = <<>> => Deregistered(v, m) = v
            BY <5>1 DEF Deregistered
          <5> QED BY <3>2, <5>2
        <4> HIDE DEF V
        <4> QED BY <2>1, <4>1, <4>2
      <3> QED BY <2>1, <3>1, <3>2
    <2>3. ASSUME v = <<>> PROVE Rest(w, n)
      <3>1. \A i : Position(v, m) = i => i = 0
        BY <2>1, <2>3, PositionIsFirst
      <3>2. Deregistered(v, m) = v
        BY <3>1 DEF Deregistered
      <3> QED BY <2>1, <2>3, <3>2
    <2>4. ASSUME v # <<>> PROVE Rest(w, n)
      <3>1. PICK k \in 0..(n - 1) :
                /\ Len(v) = k + (N - (n - 1))
                /\ \A i \in 1..k : v[i].func # m
                /\ \A i \in 1..(N - (n - 1)) : v[k + i] = list[n - 1 + i]
        BY <2>1, <2>4
      <3>2. k \in Int /\ k + 1 \in 1..Len(v) /\ Len(v) = k + 1 + (N - n) /\ N - n \in Nat
        BY <1>1, <2>0, <3>1
      <3>3. v[k + 1] = list[n]
        <4>1. 1 \in 1..(N - (n - 1)) /\ n - 1 + 1 = n
          BY <1>1, <2>0
        <4> QED BY <3>1, <4>1
      <3>4. \A i \in 1..(N - n) : v[k + 1 + i] = list[n + i]
        <4> TAKE i \in 1..(N - n)
        <4>1. i + 1 \in 1..(N - (n - 1)) /\ k + (i + 1) = k + 1 + i /\ n - 1 + (i + 1) = n + i
          BY <1>1, <2>0, <3>2
        <4>2. v[k + (i + 1)] = list[n - 1 + (i + 1)]
          BY <3>1, <4>1
        <4> QED BY <4>1, <4>2
      <3>5. CASE list[n].func # m
        <4>1. w = v
          BY <2>1, <3>5
        <4>2. k + 1 \in 0..n /\ \A i \in 1..(k + 1) : v[i].func # m
          <5>1. k + 1 \in 0..n
            BY <2>0, <3>1
          <5>2. \A i \in 1..(k + 1) : i \in 1..k \/ i = k + 1
            BY <3>2
          <5> QED BY <3>1, <3>3, <3>5, <5>1, <5>2
        <4> QED BY <3>2, <3>4, <4>1, <4>2
      <3>6. CASE list[n].func = m
        <4>1. w = Deregistered(v, m)
          BY <2>1, <3>6
        <4>2. Position(v, m) = k + 1
          <5>1. Len(v) \in Nat /\ DOMAIN v = 1..Len(v)
            BY <2>1
          <5>2. /\ Position(v, m) \in 0..Len(v)
                /\ Position(v, m) = 0 => NoneOf(v, m)
                /\ Position(v, m) # 0 => v[Position(v, m)].func = m
                /\ \A i \in 1..Len(v) : i < Position(v, m) => v[i].func # m
            BY <2>1, PositionIsFirst
          <5>3. v[k + 1].func = m /\ Position(v, m) # 0
            BY <3>2, <3>3, <3>6, <5>1, <5>2 DEF NoneOf
          <5>4. Position(v, m) \notin 1..k /\ ~(k + 1 < Position(v, m))
            BY <3>1, <3>2, <5>2, <5>3
          <5> HIDE DEF V
          <5> QED BY <3>2, <5>1, <5>2, <5>3, <5>4
        <4>3. CASE k = 0
          BY <4>1, <4>2, <4>3 DEF Deregistered
        <4>4. CASE k # 0
          <5>1. w = RemoveAt(v, k + 1)
            BY <3>2, <4>1, <4>2, <4>4 DEF Deregistered
          <5>2. /\ Len(w) = Len(v) - 1
                /\ \A i \in 1..(Len(v) - 1) : w[i] = IF i < k + 1 THEN v[i] ELSE v[i + 1]
            <6>1. v \in V
              BY <2>1
            <6>2. k + 1 \in 1..Len(v)
              BY <3>2
            <6> HIDE DEF V, N
            <6> QED BY <5>1, <6>1, <6>2, RemovedAt DEF V
          <5>3. k \in 0..n /\ Len(w) = k + (N - n)
            BY <2>0, <3>1, <3>2, <5>2
          <5>4. \A i \in 1..k : w[i].func # m
            <6>1. \A i \in 1..k : i \in 1..(Len(v) - 1) /\ i < k + 1
              BY <3>2
            <6> QED BY <3>1, <5>2, <6>1
          <5>5. \A i \in 1..(N - n) : w[k + i] = list[n + i]
            <6> TAKE i \in 1..(N - n)
            <6>1. k + i \in 1..(Len(v) - 1) /\ ~(k + i < k + 1) /\ (k + i) + 1 = k + 1 + i
              BY <3>1, <3>2
            <6>2. w[k + i] = v[k + 1 + i]
              BY <5>2, <6>1
            <6> QED BY <3>4, <6>2
          <5> QED BY <5>3, <5>4, <5>5
        <4> QED BY <4>3, <4>4
      <3> QED BY <3>5, <3>6
    <2> QED BY <2>2, <2>3, <2>4
  <1>12. left[N] \in V /\ Less(left[N]) /\ Rest(left[N], N)
    <2>1. G \in SUBSET (0..N)
      OBVIOUS
    <2> HIDE DEF G
    <2>2. \A n \in 0..N : n \in G
      BY <1>1, <1>10, <1>11, <2>1, Induction
    <2>3. N \in G
      BY <1>1, <2>2
    <2> QED BY <2>3 DEF G
  <1>13. NoneOf(left[N], m)
    <2> DEFINE v == left[N]
    <2>1. v \in V /\ Rest(v, N)
      BY <1>12
    <2> HIDE DEF v
    <2>2. ASSUME v = <<>> PROVE NoneOf(v, m)
      BY <2>2 DEF NoneOf
    <2>3. ASSUME v # <<>> PROVE NoneOf(v, m)
      <3>1. PICK k \in 0..N : Len(v) = k + (N - N) /\ \A i \in 1..k : v[i].func # m
        BY <2>1, <2>3
      <3>2. DOMAIN v = 1..k
        BY <1>1, <2>1, <3>1
      <3> QED BY <3>1, <3>2 DEF NoneOf
    <2>4. NoneOf(v, m)
      BY <2>2, <2>3
    <2> QED BY <2>4 DEF v
  <1> QED BY <1>7, <1>12, <1>13

-----------------------------------------------------------------------------
\* Channels and their subscribers.

\* cancel_channel_subscription: what is left are socket numbers, and nothing when
\* there was nothing.
LEMMA WithoutSubscriberKeeps ==
    ASSUME NEW subs \in Seq(Sds), NEW sd
    PROVE  /\ WithoutSubscriber(subs, sd) \in Seq(Sds)
           /\ subs = <<>> => WithoutSubscriber(subs, sd) = <<>>
  <1> DEFINE N == Len(subs)
             V == Seq(Sds)
             Of(v, n) == IF subs[n] = sd THEN v ELSE Append(v, subs[n])
             Eq(f) == f = [n \in 0..N |-> IF n = 0 THEN <<>> ELSE
                              IF subs[n] = sd THEN f[n - 1] ELSE Append(f[n - 1], subs[n])]
             step == [n \in 1..N |-> [v \in V |-> Of(v, n)]]
             kept == CHOOSE f : Eq(f)
  <1>1. N \in Nat /\ <<>> \in V /\ DOMAIN subs = 1..N
    OBVIOUS
  <1>2. \A v \in V, n \in 1..N : Of(v, n) \in V
    OBVIOUS
  <1>3. PICK f \in [0..N -> V] : f[0] = <<>> /\ \A n \in 1..N : f[n] = step[n][f[n - 1]]
    <2>1. step \in [1..N -> [V -> V]]
      <3> HIDE DEF Of, V
      <3> QED BY <1>2
    <2> DEFINE none == <<>>
    <2>2. N \in Nat
      BY <1>1
    <2>3. none \in V
      BY <1>1
    <2> HIDE DEF step, N, V, none
    <2>4. \E f \in [0..N -> V] : f[0] = none /\ \A n \in 1..N : f[n] = step[n][f[n - 1]]
      BY <2>1, <2>2, <2>3, LoopExists
    <2> QED BY <2>4 DEF none
  <1>4. \A n \in 1..N : f[n] = Of(f[n - 1], n)
    <2>1. \A n \in 1..N : n - 1 \in 0..N /\ f[n - 1] \in V
      <3> HIDE DEF V, N, step
      <3> QED BY <1>1, <1>3
    <2>2. \A n \in 1..N, v \in V : step[n][v] = Of(v, n)
      OBVIOUS
    <2> HIDE DEF step, Of, V
    <2> QED BY <1>3, <2>1, <2>2
  <1>5. Eq(f)
    <2>1. f = [n \in 0..N |-> f[n]] /\ f[0] = <<>>
      <3> HIDE DEF V, step
      <3> QED BY <1>3
    <2>2. \A n \in 0..N : n # 0 => n \in 1..N
      BY <1>1
    <2> HIDE DEF N
    <2> QED BY <1>4, <2>1, <2>2
  <1>6. Eq(kept)
    <2> HIDE DEF Eq
    <2> QED BY <1>5
  <1>7. WithoutSubscriber(subs, sd) = kept[N]
    BY DEF WithoutSubscriber
  <1>8. kept = [n \in 0..N |-> IF n = 0 THEN <<>> ELSE Of(kept[n - 1], n)]
    BY <1>6
  <1> HIDE DEF kept
  <1>9. kept[0] = <<>> /\ \A n \in 1..N : kept[n] = Of(kept[n - 1], n)
    <2>1. 0 \in 0..N /\ \A n \in 1..N : n \in 0..N /\ n # 0
      BY <1>1
    <2> HIDE DEF Of, N
    <2> QED BY <1>8, <2>1
  <1> DEFINE G == {n \in 0..N : kept[n] \in V}
  <1>10. G \in SUBSET (0..N) /\ 0 \in G /\ \A n \in 1..N : n - 1 \in G => n \in G
    <2> HIDE DEF V, Of
    <2> QED BY <1>1, <1>2, <1>9
  <1>11. kept[N] \in V
    <2> HIDE DEF G
    <2>1. \A n \in 0..N : n \in G
      BY <1>1, <1>10, Induction
    <2>2. N \in G
      BY <1>1, <2>1
    <2> QED BY <2>2 DEF G
  <1>12. subs = <<>> => N = 0
    OBVIOUS
  <1> QED BY <1>7, <1>9, <1>11, <1>12

\* What NERD works on, while the modules of L are loaded and the sockets of open are
\* in use: the callbacks of a channel are registered once, and only for the types it
\* needs and while it has subscribers.
ChannelsFit(lists, subs) ==
    \A t \in Types, c \in NerdChannels :
        /\ AtMostOne(lists[t], c)
        /\ (subs[c] = <<>> \/ t \notin TypesOf[c]) => NoneOf(lists[t], c)

\* A channel that was heard, in the list of a type, is there yet or has no subscribers,
\* unless none of the channels is there, and no other channel is.
Kept(lists, subs, heard) ==
    \A t \in Types, c \in NerdChannels :
        /\ <<t, c>> \notin heard => NoneOf(lists[t], c)
        /\ <<t, c>> \in heard /\ subs[c] # <<>> /\ NoneOf(lists[t], c) =>
               \A g \in NerdChannels : NoneOf(lists[t], g)

InUse(p) == {sd \in Sds : p[sd] # "closed"}

Records(L) ==
    [lists : [Types -> Seq(EntriesOf(L))], subs : [NerdChannels -> Seq(Sds)],
     peer : [Sds -> {"closed", "open", "gone"}], type : Types \cup {"none"},
     rest : Seq(EntriesOf(L)), stale : BOOLEAN, cut : BOOLEAN]

States(L, open, heard) ==
    {st \in Records(L) : /\ ChannelsFit(st.lists, st.subs) /\ InUse(st.peer) \subseteq open
                         /\ Kept(st.lists, st.subs, heard)}

\* nerd_deregister_channel_callbacks leaves no callback of c, and all is as it should
\* be again when the subscribers of c were gone already.
LEMMA WithoutCallbacksKeeps ==
    ASSUME NEW L, NEW open, NEW heard, NEW st \in Records(L), InUse(st.peer) \subseteq open,
           NEW c \in NerdChannels, NEW subs, ChannelsFit(st.lists, subs), Kept(st.lists, subs, heard),
           st.subs[c] = <<>>, \A g \in NerdChannels : g # c => subs[g] = st.subs[g]
    PROVE  WithoutCallbacks(st, c) \in States(L, open, heard)
  <1> DEFINE walked == st.type \in TypesOf[c]
             linked == walked /\ Position(st.lists[st.type], c) > 1
             i == Position(st.rest, c)
             lists == [t \in Types |-> IF t \in TypesOf[c] THEN Deregistered(st.lists[t], c)
                                       ELSE st.lists[t]]
             rest == IF linked /\ i > 1 THEN RemoveAt(st.rest, i) ELSE st.rest
             stale == st.stale \/ (linked /\ i = 1)
             cut == st.cut \/ (walked /\ Position(st.lists[st.type], c) = 1)
             new == WithoutCallbacks(st, c)
  <1>1. /\ st \in Records(L) /\ st.lists \in [Types -> Seq(EntriesOf(L))]
        /\ st.type \in Types \cup {"none"} /\ st.rest \in Seq(EntriesOf(L)) /\ st.stale \in BOOLEAN
        /\ st.cut \in BOOLEAN
    BY DEF Records
  <1>2. new = [st EXCEPT !.lists = lists, !.rest = rest, !.stale = stale, !.cut = cut]
    BY Zenon DEF WithoutCallbacks
  <1>3. \A t \in Types : lists[t] \in Seq(EntriesOf(L))
    <2> TAKE t \in Types
    <2>1. st.lists[t] \in Seq(EntriesOf(L))
      BY <1>1
    <2>2. Deregistered(st.lists[t], c) \in Seq(EntriesOf(L))
      BY <2>1, DeregisteredKeeps
    <2> QED BY <2>1, <2>2
  <1>4. \A t \in Types : NoneOf(lists[t], c)
    <2> TAKE t \in Types
    <2>1. st.lists[t] \in Seq(EntriesOf(L)) /\ AtMostOne(st.lists[t], c)
      BY <1>1 DEF ChannelsFit
    <2>2. NoneOf(Deregistered(st.lists[t], c), c)
      BY <2>1, DeregisteredKeeps
    <2>3. t \notin TypesOf[c] => NoneOf(st.lists[t], c)
      BY <1>1 DEF ChannelsFit
    <2> QED BY <2>2, <2>3
  <1>5. ChannelsFit(lists, st.subs)
    <2> SUFFICES ASSUME NEW t \in Types, NEW g \in NerdChannels
                 PROVE  /\ AtMostOne(lists[t], g)
                        /\ (st.subs[g] = <<>> \/ t \notin TypesOf[g]) => NoneOf(lists[t], g)
      BY DEF ChannelsFit
    <2>1. st.lists[t] \in Seq(EntriesOf(L))
      BY <1>1
    <2>2. /\ AtMostOne(st.lists[t], g)
          /\ g # c /\ (st.subs[g] = <<>> \/ t \notin TypesOf[g]) => NoneOf(st.lists[t], g)
      BY <1>1 DEF ChannelsFit
    <2>3. /\ NoneOf(st.lists[t], g) => NoneOf(Deregistered(st.lists[t], c), g)
          /\ AtMostOne(st.lists[t], g) => AtMostOne(Deregistered(st.lists[t], c), g)
      BY <2>1, DeregisteredKeeps
    <2> QED BY <1>4, <2>2, <2>3
  <1>9. Kept(lists, st.subs, heard)
    <2> SUFFICES ASSUME NEW t \in Types, NEW g \in NerdChannels
                 PROVE  /\ <<t, g>> \notin heard => NoneOf(lists[t], g)
                        /\ <<t, g>> \in heard /\ st.subs[g] # <<>> /\ NoneOf(lists[t], g) =>
                               \A h \in NerdChannels : NoneOf(lists[t], h)
      BY DEF Kept
    <2>1. st.lists[t] \in Seq(EntriesOf(L))
      BY <1>1
    <2>2. /\ <<t, g>> \notin heard => NoneOf(st.lists[t], g)
          /\ <<t, g>> \in heard /\ subs[g] # <<>> /\ NoneOf(st.lists[t], g) =>
                 \A h \in NerdChannels : NoneOf(st.lists[t], h)
      BY DEF Kept
    <2>3. /\ \A h : NoneOf(st.lists[t], h) => NoneOf(Deregistered(st.lists[t], c), h)
          /\ g # c /\ NoneOf(Deregistered(st.lists[t], c), g) =>
                 NoneOf(st.lists[t], g) \/ Deregistered(st.lists[t], c) = <<>>
      BY <2>1, DeregisteredKeeps
    <2>4. \A h : NoneOf(<<>>, h)
      BY DEF NoneOf
    <2>5. st.subs[g] # <<>> => g # c /\ subs[g] # <<>>
      OBVIOUS
    <2>6. lists[t] = Deregistered(st.lists[t], c) \/ lists[t] = st.lists[t]
      OBVIOUS
    <2> HIDE DEF lists
    <2>7. <<t, g>> \notin heard => NoneOf(lists[t], g)
      BY <2>2, <2>3, <2>6
    <2>8. ASSUME <<t, g>> \in heard, st.subs[g] # <<>>, NoneOf(lists[t], g),
                 NEW h \in NerdChannels
          PROVE  NoneOf(lists[t], h)
      <3>1. CASE NoneOf(st.lists[t], g)
        BY <2>2, <2>3, <2>5, <2>6, <2>8, <3>1
      <3>2. CASE lists[t] = <<>>
        BY <2>4, <3>2
      <3> QED BY <2>3, <2>5, <2>6, <2>8, <3>1, <3>2
    <2> QED BY <2>7, <2>8
  <1>6. rest \in Seq(EntriesOf(L))
    <2>1. i \in 0..Len(st.rest) /\ Len(st.rest) \in Nat
      BY <1>1, PositionIsFirst
    <2> HIDE DEF i, linked
    <2>2. CASE linked /\ i > 1
      <3>1. i \in 1..Len(st.rest)
        BY <2>1, <2>2
      <3> QED BY <1>1, <2>2, <3>1, RemovedAt
    <2>3. CASE ~(linked /\ i > 1)
      BY <1>1, <2>3
    <2> QED BY <2>2, <2>3
  <1>7. /\ new \in Records(L) /\ new.lists = lists
        /\ new.subs = st.subs /\ new.peer = st.peer
    <2>1. lists \in [Types -> Seq(EntriesOf(L))] /\ stale \in BOOLEAN /\ cut \in BOOLEAN
      BY <1>1, <1>3
    <2> HIDE DEF lists, rest, stale, cut, new
    <2> QED BY <1>1, <1>2, <1>6, <2>1 DEF Records
  <1> HIDE DEF lists, new
  <1>8. new \in States(L, open, heard)
    BY <1>1, <1>5, <1>7, <1>9 DEF States
  <1> QED BY <1>8 DEF new

\* unsubscribe, and cancel_channel_subscription.
LEMMA UnsubscribedKeeps ==
    ASSUME NEW L, NEW open, NEW heard, NEW st \in States(L, open, heard), NEW c \in NerdChannels, NEW sd
    PROVE  Unsubscribed(st, c, sd) \in States(L, open, heard)
  <1> DEFINE left == WithoutSubscriber(st.subs[c], sd)
             mid == [st EXCEPT !.subs[c] = left]
  <1>1. /\ st \in Records(L) /\ st.subs \in [NerdChannels -> Seq(Sds)]
        /\ ChannelsFit(st.lists, st.subs) /\ InUse(st.peer) \subseteq open
        /\ Kept(st.lists, st.subs, heard)
    BY DEF States, Records
  <1>2. left \in Seq(Sds) /\ (st.subs[c] = <<>> => left = <<>>)
    <2>1. st.subs[c] \in Seq(Sds)
      BY <1>1
    <2> QED BY <2>1, WithoutSubscriberKeeps
  <1>3. Unsubscribed(st, c, sd) = IF mid.subs[c] # <<>> THEN mid ELSE WithoutCallbacks(mid, c)
    BY DEF Unsubscribed, DroppedIfUnused
  <1> HIDE DEF left
  <1>4. /\ mid \in Records(L) /\ mid.lists = st.lists /\ mid.peer = st.peer
        /\ mid.subs = [st.subs EXCEPT ![c] = left]
    BY <1>1, <1>2 DEF Records
  <1> HIDE DEF mid
  <1>5. mid.subs[c] = left /\ \A g \in NerdChannels : g # c => mid.subs[g] = st.subs[g]
    BY <1>1, <1>4
  <1>6. CASE left # <<>>
    <2>1. ChannelsFit(mid.lists, mid.subs)
      BY <1>1, <1>2, <1>4, <1>5, <1>6 DEF ChannelsFit
    <2>2. Kept(mid.lists, mid.subs, heard)
      <3>1. \A g \in NerdChannels : mid.subs[g] # <<>> => st.subs[g] # <<>>
        BY <1>2, <1>5
      <3> QED BY <1>1, <1>4, <3>1 DEF Kept
    <2> QED BY <1>1, <1>3, <1>4, <1>5, <1>6, <2>1, <2>2 DEF States
  <1>7. CASE left = <<>>
    <2>1. WithoutCallbacks(mid, c) \in States(L, open, heard)
      <3>1. /\ InUse(mid.peer) \subseteq open /\ ChannelsFit(mid.lists, st.subs)
            /\ Kept(mid.lists, st.subs, heard) /\ mid.subs[c] = <<>>
            /\ \A g \in NerdChannels : g # c => st.subs[g] = mid.subs[g]
        BY <1>1, <1>4, <1>5, <1>7
      <3> QED BY <1>4, <3>1, WithoutCallbacksKeeps
    <2> QED BY <1>3, <1>5, <1>7, <2>1
  <1> QED BY <1>6, <1>7

\* nerd_cancel_subscriber: every channel, and the socket.
LEMMA CancelledKeeps ==
    ASSUME NEW L, NEW open, NEW heard, NEW st \in States(L, open, heard), NEW sd
    PROVE  Cancelled(st, sd) \in States(L, open, heard)
  <1> DEFINE N == Len(Channels)
             V == States(L, open, heard)
             Of(v, n) == Unsubscribed(v, Channels[n], sd)
             Eq(f) == f = [n \in 0..N |-> IF n = 0 THEN st ELSE Of(f[n - 1], n)]
             step == [n \in 1..N |-> [v \in V |-> Of(v, n)]]
             rid == CHOOSE f : Eq(f)
  <1>1. N \in Nat /\ st \in V /\ \A n \in 1..N : Channels[n] \in NerdChannels
    BY BrokerConstants
  <1>2. \A v \in V, n \in 1..N : Of(v, n) \in V
    <2> TAKE v \in V, n \in 1..N
    <2>1. Channels[n] \in NerdChannels
      BY <1>1
    <2> QED BY <2>1, UnsubscribedKeeps
  <1> HIDE DEF Of
  <1>3. PICK f \in [0..N -> V] : f[0] = st /\ \A n \in 1..N : f[n] = step[n][f[n - 1]]
    <2>1. step \in [1..N -> [V -> V]]
      <3> HIDE DEF V
      <3> QED BY <1>2
    <2>2. N \in Nat /\ st \in V
      BY <1>1
    <2> HIDE DEF step, N, V
    <2>3. \E f \in [0..N -> V] : f[0] = st /\ \A n \in 1..N : f[n] = step[n][f[n - 1]]
      BY <2>1, <2>2, LoopExists
    <2> QED BY <2>3
  <1>4. \A n \in 1..N : f[n] = Of(f[n - 1], n)
    <2>1. \A n \in 1..N : n - 1 \in 0..N /\ f[n - 1] \in V
      <3> HIDE DEF V, N, step
      <3> QED BY <1>1, <1>3
    <2>2. \A n \in 1..N, v \in V : step[n][v] = Of(v, n)
      OBVIOUS
    <2> HIDE DEF step, V
    <2> QED BY <1>3, <2>1, <2>2
  <1>5. Eq(f)
    <2>1. f = [n \in 0..N |-> f[n]] /\ f[0] = st
      <3> HIDE DEF V, step
      <3> QED BY <1>3
    <2>2. \A n \in 0..N : n # 0 => n \in 1..N
      BY <1>1
    <2> HIDE DEF N
    <2> QED BY <1>4, <2>1, <2>2
  <1>6. Eq(rid)
    <2> HIDE DEF Eq
    <2> QED BY <1>5
  <1>7. Cancelled(st, sd) = [rid[N] EXCEPT !.peer[sd] = "closed"]
    BY DEF Cancelled, Of
  <1>8. rid = [n \in 0..N |-> IF n = 0 THEN st ELSE Of(rid[n - 1], n)]
    BY <1>6
  <1> HIDE DEF rid
  <1>9. rid[0] = st /\ \A n \in 1..N : rid[n] = Of(rid[n - 1], n)
    <2>1. 0 \in 0..N /\ \A n \in 1..N : n \in 0..N /\ n # 0
      BY <1>1
    <2> HIDE DEF N
    <2> QED BY <1>8, <2>1
  <1> DEFINE G == {n \in 0..N : rid[n] \in V}
  <1>10. G \in SUBSET (0..N) /\ 0 \in G /\ \A n \in 1..N : n - 1 \in G => n \in G
    <2> HIDE DEF V
    <2> QED BY <1>1, <1>2, <1>9
  <1>11. rid[N] \in V
    <2> HIDE DEF G
    <2>1. \A n \in 0..N : n \in G
      BY <1>1, <1>10, Induction
    <2>2. N \in G
      BY <1>1, <2>1
    <2> QED BY <2>2 DEF G
  <1> DEFINE v == rid[N]
             new == [v EXCEPT !.peer[sd] = "closed"]
  <1>12. /\ v \in Records(L) /\ v.peer \in [Sds -> {"closed", "open", "gone"}]
         /\ ChannelsFit(v.lists, v.subs) /\ InUse(v.peer) \subseteq open
         /\ Kept(v.lists, v.subs, heard)
    BY <1>11 DEF States, Records
  <1>13. Cancelled(st, sd) = new
    BY <1>7
  <1> HIDE DEF v
  <1>14. /\ new \in Records(L) /\ new.lists = v.lists /\ new.subs = v.subs
         /\ new.peer = [v.peer EXCEPT ![sd] = "closed"]
    BY <1>12 DEF Records
  <1> HIDE DEF new
  <1>15. InUse(new.peer) \subseteq open
    BY <1>12, <1>14 DEF InUse
  <1> QED BY <1>12, <1>13, <1>14, <1>15 DEF States

\* nerd_broadcast.
LEMMA BroadcastKeeps ==
    ASSUME NEW L, NEW open, NEW heard, NEW st \in States(L, open, heard), NEW c, NEW full
    PROVE  Broadcast(st, c, full) \in States(L, open, heard)
  <1> DEFINE stops == SelectInSeq(st.subs[c], LAMBDA sd : st.peer[sd] # "open" \/ sd \in full)
  <1>1. Broadcast(st, c, full) = IF stops = 0 \/ st.peer[st.subs[c][stops]] = "open" THEN st
                                 ELSE Cancelled(st, st.subs[c][stops])
    BY DEF Broadcast
  <1> HIDE DEF stops
  <1>2. Cancelled(st, st.subs[c][stops]) \in States(L, open, heard)
    BY CancelledKeeps
  <1> QED BY <1>1, <1>2

\* Whatever a module does to the list that is walked, what is there of channels stays
\* as it should be.
LEMMA ListKeeps ==
    ASSUME NEW L, NEW open, NEW heard, NEW st \in States(L, open, heard), NEW new \in Records(L),
           new.subs = st.subs, new.peer = st.peer,
           \A t \in Types, c \in NerdChannels :
               /\ AtMostOne(st.lists[t], c) => AtMostOne(new.lists[t], c)
               /\ NoneOf(st.lists[t], c) => NoneOf(new.lists[t], c)
               /\ NoneOf(new.lists[t], c) =>
                      NoneOf(st.lists[t], c) \/ \A g \in NerdChannels : NoneOf(new.lists[t], g)
    PROVE  new \in States(L, open, heard)
  <1>1. /\ ChannelsFit(st.lists, st.subs) /\ InUse(st.peer) \subseteq open
        /\ Kept(st.lists, st.subs, heard)
    BY DEF States
  <1>2. ChannelsFit(new.lists, new.subs)
    BY <1>1 DEF ChannelsFit
  <1>3. Kept(new.lists, new.subs, heard)
    BY <1>1 DEF Kept
  <1> QED BY <1>1, <1>2, <1>3 DEF States

\* A module deregisters from inside its callback.
LEMMA LeftKeeps ==
    ASSUME NEW L, NEW open, NEW heard, NEW st \in States(L, open, heard), NEW f, f \notin NerdChannels
    PROVE  Left(st, f) \in States(L, open, heard)
  <1> DEFINE lists == [st.lists EXCEPT ![st.type] = Deregistered(@, f)]
             cut == st.cut \/ Position(st.lists[st.type], f) = 1
             new == [st EXCEPT !.lists = lists, !.cut = cut]
  <1>1. /\ st \in Records(L) /\ st.lists \in [Types -> Seq(EntriesOf(L))]
        /\ st.type \in Types \cup {"none"} /\ st.cut \in BOOLEAN
    BY DEF States, Records
  <1>2. Left(st, f) = new
    BY <1>1, Zenon DEF Left
  <1>3. ASSUME NEW t \in Types
        PROVE  /\ lists[t] \in Seq(EntriesOf(L))
               /\ \A c : /\ AtMostOne(st.lists[t], c) => AtMostOne(lists[t], c)
                         /\ NoneOf(st.lists[t], c) => NoneOf(lists[t], c)
                         /\ c # f /\ NoneOf(lists[t], c) =>
                                NoneOf(st.lists[t], c) \/ \A g : NoneOf(lists[t], g)
    <2>1. /\ Deregistered(st.lists[t], f) \in Seq(EntriesOf(L))
          /\ \A c : /\ AtMostOne(st.lists[t], c) => AtMostOne(Deregistered(st.lists[t], f), c)
                    /\ NoneOf(st.lists[t], c) => NoneOf(Deregistered(st.lists[t], f), c)
                    /\ c # f /\ NoneOf(Deregistered(st.lists[t], f), c) =>
                           NoneOf(st.lists[t], c) \/ Deregistered(st.lists[t], f) = <<>>
      <3>1. st.lists[t] \in Seq(EntriesOf(L))
        BY <1>1
      <3> QED BY <3>1, DeregisteredKeeps
    <2>2. lists[t] = IF t = st.type THEN Deregistered(st.lists[t], f) ELSE st.lists[t]
      BY <1>1
    <2>3. \A g : NoneOf(<<>>, g)
      BY DEF NoneOf
    <2> HIDE DEF lists
    <2> QED BY <1>1, <2>1, <2>2, <2>3
  <1>4. lists \in [Types -> Seq(EntriesOf(L))]
    <2>1. DOMAIN lists = Types /\ lists = [t \in Types |-> lists[t]]
      BY <1>1
    <2> QED BY <1>3, <2>1
  <1>5. cut \in BOOLEAN
    BY <1>1
  <1> HIDE DEF lists, cut
  <1>6. new \in Records(L) /\ new.lists = lists /\ new.subs = st.subs /\ new.peer = st.peer
    BY <1>1, <1>4, <1>5 DEF Records
  <1> HIDE DEF new
  <1>7. new \in States(L, open, heard)
    <2>1. \A c \in NerdChannels : c # f
      OBVIOUS
    <2> QED BY <1>3, <1>6, <2>1, ListKeeps
  <1> QED BY <1>2, <1>7

\* A module registers from inside its callback.
LEMMA JoinedKeeps ==
    ASSUME NEW L, NEW open, NEW heard, NEW st \in States(L, open, heard), NEW f \in L, f \notin NerdChannels,
           NEW p \in Priorities
    PROVE  Joined(st, f, p) \in States(L, open, heard)
  <1> DEFINE more(list) == Registered(list, f, p)
             lists == [st.lists EXCEPT ![st.type] = more(@)]
             rest == IF ~st.cut /\ st.rest # <<>> /\ Head(st.rest).priority <= p
                     THEN more(st.rest) ELSE st.rest
             new == [st EXCEPT !.lists = lists, !.rest = rest]
  <1>1. /\ st \in Records(L) /\ st.lists \in [Types -> Seq(EntriesOf(L))]
        /\ st.type \in Types \cup {"none"} /\ st.rest \in Seq(EntriesOf(L))
    BY DEF States, Records
  <1>2. Joined(st, f, p) = new
    BY <1>1, Zenon DEF Joined
  <1>3. ASSUME NEW list \in Seq(EntriesOf(L))
        PROVE  /\ more(list) \in Seq(EntriesOf(L))
               /\ \A c \in NerdChannels :
                      /\ AtMostOne(list, c) => AtMostOne(more(list), c)
                      /\ NoneOf(list, c) => NoneOf(more(list), c)
                      /\ NoneOf(more(list), c) => NoneOf(list, c)
    <2>1. f \in L \cup NerdChannels /\ p \in Priorities \cup {NerdPriority}
          /\ \A c \in NerdChannels : c # f
      OBVIOUS
    <2> QED BY <2>1, RegisteredKeeps
  <1> HIDE DEF more
  <1>4. \A t \in Types : lists[t] = IF t = st.type THEN more(st.lists[t]) ELSE st.lists[t]
    BY <1>1
  <1>5. ASSUME NEW t \in Types
        PROVE  /\ lists[t] \in Seq(EntriesOf(L))
               /\ \A c \in NerdChannels :
                      /\ AtMostOne(st.lists[t], c) => AtMostOne(lists[t], c)
                      /\ NoneOf(st.lists[t], c) => NoneOf(lists[t], c)
                      /\ NoneOf(lists[t], c) => NoneOf(st.lists[t], c)
    <2>1. st.lists[t] \in Seq(EntriesOf(L))
      BY <1>1
    <2> QED BY <1>3, <1>4, <2>1
  <1>6. lists \in [Types -> Seq(EntriesOf(L))]
    <2>1. DOMAIN lists = Types /\ lists = [t \in Types |-> lists[t]]
      BY <1>1
    <2> QED BY <1>5, <2>1
  <1>7. rest \in Seq(EntriesOf(L))
    BY <1>1, <1>3
  <1> HIDE DEF lists, rest
  <1>8. new \in Records(L) /\ new.lists = lists /\ new.subs = st.subs /\ new.peer = st.peer
    BY <1>1, <1>6, <1>7 DEF Records
  <1> HIDE DEF new
  <1>9. new \in States(L, open, heard)
    BY <1>5, <1>8, ListKeeps
  <1> QED BY <1>2, <1>9

\* A turn of neb_make_callbacks.
LEMMA TurnKeeps ==
    ASSUME NEW L, NEW open, NEW heard, NEW st \in States(L, open, heard), NEW does \in [L -> Doings], NEW full,
           NEW lucky
    PROVE  Turn(st, does, full, lucky) \in States(L, open, heard)
  <1> DEFINE tail == Tail(st.rest)
             on == [st EXCEPT !.rest = tail, !.stale = FALSE]
             none == <<>>
             end == [on EXCEPT !.rest = none]
             f == Head(st.rest).func
  <1>1. /\ st \in Records(L) /\ st.rest \in Seq(EntriesOf(L))
        /\ ChannelsFit(st.lists, st.subs) /\ InUse(st.peer) \subseteq open
        /\ Kept(st.lists, st.subs, heard)
    BY DEF States, Records
  <1>2. CASE st.rest = <<>> \/ (st.stale /\ ~lucky)
    BY <1>2 DEF Turn
  <1>3. CASE ~(st.rest = <<>> \/ (st.stale /\ ~lucky))
    <2>1. /\ Tail(st.rest) \in Seq(EntriesOf(L)) /\ <<>> \in Seq(EntriesOf(L))
          /\ Head(st.rest) \in EntriesOf(L)
      BY <1>1, <1>3, HeadTailProperties
    <2>2. on \in Records(L) /\ on.lists = st.lists /\ on.subs = st.subs /\ on.peer = st.peer
      <3>1. tail \in Seq(EntriesOf(L))
        BY <2>1
      <3> HIDE DEF tail
      <3> QED BY <1>1, <3>1 DEF Records
    <2> HIDE DEF on
    <2>3. end \in Records(L) /\ end.lists = st.lists /\ end.subs = st.subs /\ end.peer = st.peer
      <3>1. none \in Seq(EntriesOf(L))
        BY <2>1
      <3> HIDE DEF none
      <3>2. /\ end \in Records(L) /\ end.lists = on.lists
            /\ end.subs = on.subs /\ end.peer = on.peer
        BY <2>2, <3>1 DEF Records
      <3> QED BY <2>2, <3>2
    <2>4. on \in States(L, open, heard) /\ end \in States(L, open, heard)
      <3> HIDE DEF end
      <3> QED BY <1>1, <2>2, <2>3 DEF States
    <2>5. /\ Broadcast(on, f, full) \in States(L, open, heard)
          /\ f \notin NerdChannels => Left(on, f) \in States(L, open, heard)
      BY <2>4, BroadcastKeeps, LeftKeeps
    <2>6. f \in L \cup NerdChannels
      BY <2>1 DEF EntriesOf
    <2>7. ASSUME f \notin NerdChannels, does[f] \in {"registers"} \X Priorities
          PROVE  Joined(on, f, does[f][2]) \in States(L, open, heard)
      <3>1. f \in L /\ does[f][2] \in Priorities
        BY <2>6, <2>7
      <3> HIDE DEF f
      <3> QED BY <2>4, <2>7, <3>1, JoinedKeeps
    <2>8. f \in NerdChannels \/ does[f] \in {<<"returns">>, <<"cancels">>, <<"deregisters">>}
          \/ does[f] \in {"registers"} \X Priorities
      BY <2>6 DEF Doings
    <2>9. Turn(st, does, full, lucky)
              = IF f \in NerdChannels THEN Broadcast(on, f, full)
                ELSE IF does[f] = <<"cancels">> THEN end
                ELSE IF does[f] = <<"deregisters">> THEN Left(on, f)
                ELSE IF does[f] # <<"returns">> /\ Len(on.lists[on.type]) < MaxEntries
                     THEN Joined(on, f, does[f][2]) ELSE on
      BY <1>3 DEF Turn, on
    <2> HIDE DEF f, end
    <2> QED BY <2>4, <2>5, <2>7, <2>8, <2>9
  <1> QED BY <1>2, <1>3

\* neb_make_callbacks, for an event.
LEMMA WalkKeeps ==
    ASSUME NEW L, NEW open, NEW heard, NEW st \in States(L, open, heard), NEW does \in [L -> Doings], NEW full,
           NEW lucky
    PROVE  Walk(st, does, full, lucky) \in States(L, open, heard)
  <1> DEFINE N == MaxTurns
             V == States(L, open, heard)
             Of(v) == Turn(v, does, full, lucky)
             Eq(f) == f = [n \in 0..N |-> IF n = 0 THEN st ELSE Of(f[n - 1])]
             step == [n \in 1..N |-> [v \in V |-> Of(v)]]
             after == CHOOSE f : Eq(f)
  <1>1. N \in Nat /\ st \in V
    BY BrokerConstants
  <1>2. \A v \in V : Of(v) \in V
    BY TurnKeeps
  <1> HIDE DEF Of, N
  <1>3. PICK f \in [0..N -> V] : f[0] = st /\ \A n \in 1..N : f[n] = step[n][f[n - 1]]
    <2>1. step \in [1..N -> [V -> V]]
      <3> HIDE DEF V
      <3> QED BY <1>2
    <2> HIDE DEF step, V
    <2>2. \E f \in [0..N -> V] : f[0] = st /\ \A n \in 1..N : f[n] = step[n][f[n - 1]]
      BY <1>1, <2>1, LoopExists
    <2> QED BY <2>2
  <1>4. \A n \in 1..N : f[n] = Of(f[n - 1])
    <2>1. \A n \in 1..N : n - 1 \in 0..N /\ f[n - 1] \in V
      <3> HIDE DEF V, step
      <3> QED BY <1>1, <1>3
    <2>2. \A n \in 1..N, v \in V : step[n][v] = Of(v)
      OBVIOUS
    <2> HIDE DEF step, V
    <2> QED BY <1>3, <2>1, <2>2
  <1>5. Eq(f)
    <2>1. f = [n \in 0..N |-> f[n]] /\ f[0] = st
      <3> HIDE DEF V, step
      <3> QED BY <1>3
    <2>2. \A n \in 0..N : n # 0 => n \in 1..N
      BY <1>1
    <2> QED BY <1>4, <2>1, <2>2
  <1>6. Eq(after)
    <2> HIDE DEF Eq
    <2> QED BY <1>5
  <1>7. Walk(st, does, full, lucky) = after[N]
    BY DEF Walk, Of, N
  <1>8. after = [n \in 0..N |-> IF n = 0 THEN st ELSE Of(after[n - 1])]
    BY <1>6
  <1> HIDE DEF after
  <1>9. after[0] = st /\ \A n \in 1..N : after[n] = Of(after[n - 1])
    <2>1. 0 \in 0..N /\ \A n \in 1..N : n \in 0..N /\ n # 0
      BY <1>1
    <2> QED BY <1>8, <2>1
  <1> DEFINE G == {n \in 0..N : after[n] \in V}
  <1>10. G \in SUBSET (0..N) /\ 0 \in G /\ \A n \in 1..N : n - 1 \in G => n \in G
    <2> HIDE DEF V
    <2> QED BY <1>1, <1>2, <1>9
  <1>11. after[N] \in V
    <2> HIDE DEF G
    <2>1. \A n \in 0..N : n \in G
      BY <1>1, <1>10, Induction
    <2>2. N \in G
      BY <1>1, <2>1
    <2> QED BY <2>2 DEF G
  <1> QED BY <1>7, <1>11

\* The channels that are in the list of a type, and those that are when c is subscribed to.
Heard == {p \in Types \X NerdChannels : ~NoneOf(neb_callback_list[p[1]], p[2])}
HeardWith(c) ==
    Heard \cup (IF subscriptions[c] = <<>> THEN {p \in Types \X {c} : p[1] \in TypesOf[c]} ELSE {})

\* nerd_qh_handler, subscribe.
LEMMA SubscribedKeeps ==
    ASSUME NEW L, NEW open, Outside \in States(L, open, Heard), NEW c \in NerdChannels, NEW sd \in Sds
    PROVE  Subscribed(c, sd) \in States(L, open, HeardWith(c))
  <1> DEFINE more == [t \in Types |-> IF t \in TypesOf[c]
                                      THEN Registered(neb_callback_list[t], c, NerdPriority)
                                      ELSE neb_callback_list[t]]
             mid == IF subscriptions[c] = <<>> THEN [Outside EXCEPT !.lists = more] ELSE Outside
             subs == <<sd>> \o subscriptions[c]
             new == [mid EXCEPT !.subs[c] = subs]
  <1>1. /\ Outside \in Records(L) /\ neb_callback_list \in [Types -> Seq(EntriesOf(L))]
        /\ subscriptions \in [NerdChannels -> Seq(Sds)] /\ InUse(peer) \subseteq open
        /\ ChannelsFit(neb_callback_list, subscriptions)
    BY DEF States, Records, Outside
  <1>2. /\ Outside.lists = neb_callback_list /\ Outside.subs = subscriptions
        /\ Outside.peer = peer
    BY DEF Outside
  <1>3. ASSUME NEW t \in Types
        PROVE  LET list == Registered(neb_callback_list[t], c, NerdPriority)
               IN /\ list \in Seq(EntriesOf(L))
                  /\ \A g : /\ g # c /\ NoneOf(neb_callback_list[t], g) => NoneOf(list, g)
                            /\ g # c /\ AtMostOne(neb_callback_list[t], g) => AtMostOne(list, g)
                  /\ NoneOf(neb_callback_list[t], c) => AtMostOne(list, c)
                  /\ \A g : NoneOf(list, g) => NoneOf(neb_callback_list[t], g) /\ g # c
    <2>1. /\ neb_callback_list[t] \in Seq(EntriesOf(L)) /\ c \in L \cup NerdChannels
          /\ NerdPriority \in Priorities \cup {NerdPriority}
      BY <1>1
    <2> HIDE DEF Registered
    <2> QED BY <2>1, RegisteredKeeps
  <1>4. more \in [Types -> Seq(EntriesOf(L))]
    BY <1>1, <1>3
  <1>5. subs \in Seq(Sds) /\ subs # <<>>
    <2>1. subscriptions[c] \in Seq(Sds)
      BY <1>1
    <2>2. <<sd>> \in Seq(Sds) /\ <<sd>> # <<>>
      OBVIOUS
    <2> QED BY <2>1, <2>2, ConcatEqualIffEmpty
  <1>6. /\ mid \in Records(L) /\ mid.subs = subscriptions /\ mid.peer = peer
        /\ mid.lists = IF subscriptions[c] = <<>> THEN more ELSE neb_callback_list
    <2> HIDE DEF more
    <2>1. /\ [Outside EXCEPT !.lists = more] \in Records(L)
          /\ [Outside EXCEPT !.lists = more].lists = more
          /\ [Outside EXCEPT !.lists = more].subs = Outside.subs
          /\ [Outside EXCEPT !.lists = more].peer = Outside.peer
      BY <1>1, <1>4 DEF Records
    <2> QED BY <1>1, <1>2, <2>1
  <1>7. Subscribed(c, sd) = [mid EXCEPT !.subs[c] = <<sd>> \o mid.subs[c]]
    BY <1>2, Zenon DEF Subscribed
  <1>8. Subscribed(c, sd) = new
    <2> HIDE DEF mid
    <2> QED BY <1>6, <1>7
  <1> HIDE DEF mid, subs, more
  <1>9. /\ new \in Records(L) /\ new.lists = mid.lists /\ new.peer = peer
        /\ new.subs = [subscriptions EXCEPT ![c] = subs]
    BY <1>1, <1>5, <1>6 DEF Records
  <1> HIDE DEF new
  <1>10. ChannelsFit(new.lists, new.subs)
    <2> SUFFICES ASSUME NEW t \in Types, NEW g \in NerdChannels
                 PROVE  /\ AtMostOne(new.lists[t], g)
                        /\ (new.subs[g] = <<>> \/ t \notin TypesOf[g]) => NoneOf(new.lists[t], g)
      BY DEF ChannelsFit
    <2>1. /\ AtMostOne(neb_callback_list[t], g)
          /\ (subscriptions[g] = <<>> \/ t \notin TypesOf[g]) => NoneOf(neb_callback_list[t], g)
      BY <1>1 DEF ChannelsFit
    <2>2. new.subs[g] = <<>> => g # c /\ subscriptions[g] = <<>>
      BY <1>1, <1>5, <1>9
    <2>3. CASE new.lists[t] = neb_callback_list[t]
      <3>1. (new.subs[g] = <<>> \/ t \notin TypesOf[g]) => NoneOf(neb_callback_list[t], g)
        BY <2>1, <2>2
      <3> QED BY <2>1, <2>3, <3>1
    <2>4. CASE /\ subscriptions[c] = <<>> /\ t \in TypesOf[c]
               /\ new.lists[t] = Registered(neb_callback_list[t], c, NerdPriority)
      <3>1. CASE g = c
        BY <1>3, <2>1, <2>2, <2>4, <3>1
      <3>2. CASE g # c
        BY <1>3, <2>1, <2>2, <2>4, <3>2
      <3> QED BY <3>1, <3>2
    <2>5. \/ new.lists[t] = neb_callback_list[t]
          \/ /\ subscriptions[c] = <<>> /\ t \in TypesOf[c]
             /\ new.lists[t] = Registered(neb_callback_list[t], c, NerdPriority)
      BY <1>6, <1>9 DEF more
    <2> QED BY <2>3, <2>4, <2>5
  <1>11. Kept(new.lists, new.subs, HeardWith(c))
    <2> SUFFICES ASSUME NEW t \in Types, NEW g \in NerdChannels
                 PROVE  /\ <<t, g>> \notin HeardWith(c) => NoneOf(new.lists[t], g)
                        /\ <<t, g>> \in HeardWith(c) => ~NoneOf(new.lists[t], g)
      BY DEF Kept
    <2>1. /\ <<t, g>> \in Heard <=> ~NoneOf(neb_callback_list[t], g)
          /\ <<t, g>> \in HeardWith(c) <=>
                 <<t, g>> \in Heard \/ (subscriptions[c] = <<>> /\ g = c /\ t \in TypesOf[c])
      BY DEF Heard, HeardWith
    <2>2. new.lists[t] = IF subscriptions[c] = <<>> /\ t \in TypesOf[c]
                         THEN Registered(neb_callback_list[t], c, NerdPriority)
                         ELSE neb_callback_list[t]
      BY <1>6, <1>9 DEF more
    <2> QED BY <1>3, <2>1, <2>2
  <1> QED BY <1>1, <1>8, <1>9, <1>10, <1>11 DEF States

-----------------------------------------------------------------------------
\* The broker.

\* The lists hold callbacks of loaded modules and of channels only, and those of a
\* channel are there as ChannelsFit says.
BrokerInv ==
    /\ BrokerTypeOK
    /\ neb_callback_list \in [Types -> Seq(EntriesOf(loaded))]
    /\ ChannelsFit(neb_callback_list, subscriptions)

LEMMA InUseIsFinite ==
    ASSUME NEW p
    PROVE  IsFiniteSet(InUse(p)) /\ Cardinality(InUse(p)) \in Nat
  <1>1. IsFiniteSet(Sds)
    BY BrokerConstants, FS_Interval DEF Sds
  <1>2. InUse(p) \subseteq Sds
    BY DEF InUse
  <1> QED BY <1>1, <1>2, FS_Subset, FS_CardinalityType

\* The connections that are counted are no fewer than those in use: closing one
\* does not count, or counts it.
LEMMA CountedConnections ==
    ASSUME BrokerInv, NEW p, InUse(p) \subseteq InUse(peer)
    PROVE  qh_running >= Cardinality(InUse(p))
  <1>1. Cardinality(InUse(p)) <= Cardinality(InUse(peer))
    BY InUseIsFinite, FS_Subset
  <1>2. qh_running \in Nat /\ qh_running >= Cardinality(InUse(peer))
    BY DEF BrokerInv, BrokerTypeOK, InUse
  <1> QED BY <1>1, <1>2, InUseIsFinite

LEMMA OutsideFits ==
    ASSUME BrokerInv
    PROVE  /\ Outside \in States(loaded, InUse(peer), Heard)
           /\ \A t \in Types : [Outside EXCEPT !.type = t, !.rest = neb_callback_list[t]]
                                   \in States(loaded, InUse(peer), Heard)
  <1>1. /\ neb_callback_list \in [Types -> Seq(EntriesOf(loaded))]
        /\ subscriptions \in [NerdChannels -> Seq(Sds)]
        /\ peer \in [Sds -> {"closed", "open", "gone"}]
        /\ ChannelsFit(neb_callback_list, subscriptions)
    BY DEF BrokerInv, BrokerTypeOK
  <1>4. Kept(neb_callback_list, subscriptions, Heard)
    BY DEF Kept, Heard
  <1>2. /\ Outside \in Records(loaded) /\ Outside.lists = neb_callback_list
        /\ Outside.subs = subscriptions /\ Outside.peer = peer
    BY <1>1 DEF Outside, Records
  <1>3. ASSUME NEW t \in Types
        PROVE  [Outside EXCEPT !.type = t, !.rest = neb_callback_list[t]]
                   \in States(loaded, InUse(peer), Heard)
    <2> DEFINE rest == neb_callback_list[t]
               st == [Outside EXCEPT !.type = t, !.rest = rest]
    <2>1. rest \in Seq(EntriesOf(loaded))
      BY <1>1
    <2> HIDE DEF rest
    <2>2. /\ st \in Records(loaded) /\ st.lists = Outside.lists
          /\ st.subs = Outside.subs /\ st.peer = Outside.peer
      BY <1>2, <2>1 DEF Records
    <2> HIDE DEF st
    <2>3. st \in States(loaded, InUse(peer), Heard)
      BY <1>1, <1>2, <1>4, <2>2 DEF States
    <2> QED BY <2>3 DEF st, rest
  <1> QED BY <1>1, <1>2, <1>3, <1>4 DEF States

\* What a step leaves of the channels in the lists, as ChannelsCalledUntilLost says it.
Follows ==
    \A t \in Types, c \in NerdChannels :
        /\ ~NoneOf(neb_callback_list[t], c) /\ subscriptions'[c] # <<>> =>
               ~NoneOf(neb_callback_list'[t], c)
                   \/ \A g \in NerdChannels : NoneOf(neb_callback_list'[t], g)
        /\ NoneOf(neb_callback_list[t], c) /\ subscriptions[c] # <<>> =>
               NoneOf(neb_callback_list'[t], c)

\* Whatever an event or a query becomes.
LEMMA BecomeKeeps ==
    ASSUME BrokerInv, NEW c, NEW heard \in {Heard, HeardWith(c)},
           NEW st \in States(loaded, InUse(peer), heard), Become(st),
           loaded' = loaded, qh_running' = qh_running, crashed' \in BOOLEAN
    PROVE  BrokerInv' /\ Follows
  <1>1. /\ st \in Records(loaded) /\ ChannelsFit(st.lists, st.subs)
        /\ InUse(st.peer) \subseteq InUse(peer)
    BY DEF States
  <1>2. /\ neb_callback_list' \in [Types -> Seq(EntriesOf(loaded))]
        /\ subscriptions' \in [NerdChannels -> Seq(Sds)]
        /\ peer' \in [Sds -> {"closed", "open", "gone"}]
    BY <1>1 DEF Become, Records
  <1>3. EntriesOf(loaded) \subseteq Entries
    BY DEF BrokerInv, BrokerTypeOK, EntriesOf, Entries, Funcs
  <1>4. neb_callback_list' \in [Types -> Seq(Entries)]
    BY <1>2, <1>3, SeqMonotonic
  <1>5. ChannelsFit(neb_callback_list', subscriptions')
    BY <1>1 DEF Become
  <1>6. qh_running' >= Cardinality(InUse(peer'))
    <2>1. qh_running >= Cardinality(InUse(st.peer))
      BY <1>1, CountedConnections
    <2> QED BY <2>1 DEF Become
  <1>7. BrokerInv'
    BY <1>2, <1>4, <1>5, <1>6 DEF BrokerInv, BrokerTypeOK, InUse, ChannelsFit
  <1>8. ASSUME NEW t \in Types, NEW g \in NerdChannels
        PROVE  /\ ~NoneOf(neb_callback_list[t], g) => <<t, g>> \in heard
               /\ <<t, g>> \in heard =>
                      ~NoneOf(neb_callback_list[t], g) \/ subscriptions[g] = <<>>
    BY DEF Heard, HeardWith
  <1>9. Kept(neb_callback_list', subscriptions', heard)
    BY DEF Become, States
  <1>10. Follows
    BY <1>8, <1>9 DEF Follows, Kept
  <1> QED BY <1>7, <1>10

\* An event.
LEMMA EventKeeps ==
    ASSUME BrokerInv, EventStep
    PROVE  BrokerInv' /\ Follows
  <1>1. PICK t \in Types, does \in [loaded -> Doings] :
            \E full, lucky : neb_make_callbacks(t, does, full, lucky)
    BY Zenon DEF EventStep
  <1>2. PICK full, lucky : neb_make_callbacks(t, does, full, lucky)
    BY <1>1
  <1> DEFINE first == [Outside EXCEPT !.type = t, !.rest = neb_callback_list[t]]
             st == Walk(first, does, full, lucky)
  <1>3. /\ Become(st) /\ loaded' = loaded /\ qh_running' = qh_running
        /\ crashed' \in BOOLEAN
    BY <1>2 DEF neb_make_callbacks
  <1>4. first \in States(loaded, InUse(peer), Heard)
    BY OutsideFits
  <1> HIDE DEF first
  <1>5. st \in States(loaded, InUse(peer), Heard)
    BY <1>4, WalkKeeps
  <1> HIDE DEF st
  <1>6. Heard \in {Heard, HeardWith(t)}
    OBVIOUS
  <1> QED BY <1>3, <1>5, <1>6, BecomeKeeps

\* Connections.
LEMMA QueryKeeps ==
    ASSUME BrokerInv, NEW sd \in Sds, NEW c \in NerdChannels, NEW subscribe \in BOOLEAN,
           NEW oneshot \in BOOLEAN, Query(sd, c, subscribe, oneshot)
    PROVE  BrokerInv' /\ Follows
  <1> DEFINE open == InUse(peer)
             heard == IF subscribe THEN HeardWith(c) ELSE Heard
             st == IF subscribe THEN Subscribed(c, sd) ELSE Unsubscribed(Outside, c, sd)
             shut == [st EXCEPT !.peer[sd] = "closed"]
             new == IF oneshot THEN shut ELSE st
  <1>1. Become(new) /\ loaded' = loaded /\ qh_running' = qh_running /\ crashed' = crashed
    BY DEF Query
  <1>2. st \in States(loaded, open, heard)
    <2>1. Outside \in States(loaded, open, Heard)
      BY OutsideFits
    <2>2. Subscribed(c, sd) \in States(loaded, open, HeardWith(c))
      BY <2>1, SubscribedKeeps
    <2>3. Unsubscribed(Outside, c, sd) \in States(loaded, open, Heard)
      BY <2>1, UnsubscribedKeeps
    <2> QED BY <2>2, <2>3
  <1> HIDE DEF st
  <1>3. shut \in States(loaded, open, heard)
    <2>1. /\ st \in Records(loaded) /\ st.peer \in [Sds -> {"closed", "open", "gone"}]
          /\ ChannelsFit(st.lists, st.subs) /\ InUse(st.peer) \subseteq open
          /\ Kept(st.lists, st.subs, heard)
      BY <1>2 DEF States, Records
    <2>2. /\ shut \in Records(loaded) /\ shut.lists = st.lists /\ shut.subs = st.subs
          /\ shut.peer = [st.peer EXCEPT ![sd] = "closed"]
      BY <2>1 DEF Records
    <2> HIDE DEF shut, open
    <2>3. InUse(shut.peer) \subseteq open
      BY <2>1, <2>2 DEF InUse
    <2> QED BY <2>1, <2>2, <2>3 DEF States
  <1>4. new \in States(loaded, open, heard) /\ crashed' \in BOOLEAN
    BY <1>1, <1>2, <1>3 DEF BrokerInv, BrokerTypeOK
  <1>5. heard \in {Heard, HeardWith(c)}
    OBVIOUS
  <1> HIDE DEF new, heard
  <1> QED BY <1>1, <1>4, <1>5, BecomeKeeps

LEMMA ConnectionKeeps ==
    ASSUME BrokerInv, ConnectionStep
    PROVE  BrokerInv' /\ Follows
  <1>1. /\ peer \in [Sds -> {"closed", "open", "gone"}] /\ qh_running \in Nat
        /\ qh_running >= Cardinality(InUse(peer))
    BY DEF BrokerInv, BrokerTypeOK, InUse
  <1>2. \A p : IsFiniteSet(InUse(p)) /\ Cardinality(InUse(p)) \in Nat
    BY InUseIsFinite
  \* A step of a socket and the count.
  <1>3. SUFFICES ASSUME UNCHANGED <<broker, subscriptions, crashed>>,
                        peer' \in [Sds -> {"closed", "open", "gone"}], qh_running' \in Nat,
                        qh_running' >= Cardinality(InUse(peer'))
                 PROVE  BrokerInv' /\ Follows
    <2>1. CASE Accept
      <3>1. PICK sd \in Sds : /\ peer[sd] = "closed" /\ peer' = [peer EXCEPT ![sd] = "open"]
                              /\ qh_running' = qh_running + 1
                              /\ UNCHANGED <<broker, subscriptions, crashed>>
        BY <2>1 DEF Accept
      <3>2. InUse(peer') = InUse(peer) \cup {sd} /\ sd \notin InUse(peer)
        BY <1>1, <3>1 DEF InUse
      <3>3. Cardinality(InUse(peer')) = Cardinality(InUse(peer)) + 1
        BY <1>2, <3>2, FS_AddElement
      <3> QED BY <1>1, <1>2, <1>3, <3>1, <3>3
    <2>2. ASSUME NEW sd \in Sds, PeerCloses(sd) \/ Refused(sd)
          PROVE  BrokerInv' /\ Follows
      <3>1. /\ peer' \in [Sds -> {"closed", "open", "gone"}] /\ qh_running' = qh_running
            /\ InUse(peer') \subseteq InUse(peer) /\ UNCHANGED <<broker, subscriptions, crashed>>
        BY <1>1, <2>2 DEF PeerCloses, Refused, InUse
      <3> QED BY <1>1, <1>3, <3>1, CountedConnections
    <2>3. ASSUME NEW sd \in Sds, Disconnect(sd)
          PROVE  BrokerInv' /\ Follows
      <3>1. /\ peer' = [peer EXCEPT ![sd] = "closed"] /\ qh_running' = qh_running - 1
            /\ UNCHANGED <<broker, subscriptions, crashed>> /\ peer[sd] = "gone"
        BY <2>3 DEF Disconnect
      <3>2. InUse(peer') = InUse(peer) \ {sd} /\ sd \in InUse(peer)
        BY <1>1, <3>1 DEF InUse
      <3>3. Cardinality(InUse(peer')) = Cardinality(InUse(peer)) - 1
        BY <1>2, <3>2, FS_RemoveElement
      <3> QED BY <1>1, <1>2, <1>3, <3>1, <3>3
    <2> QED BY <2>1, <2>2, <2>3, QueryKeeps DEF ConnectionStep
  <1>4. BrokerInv'
    BY <1>3 DEF BrokerInv, BrokerTypeOK, InUse, ChannelsFit, broker
  <1>5. Follows
    BY <1>3 DEF Follows, broker
  <1> QED BY <1>4, <1>5

\* Modules.
LEMMA ModuleKeeps ==
    ASSUME BrokerInv, ModuleStep
    PROVE  BrokerInv' /\ Follows
  <1>1. /\ neb_callback_list \in [Types -> Seq(EntriesOf(loaded))] /\ loaded \subseteq Modules
        /\ ChannelsFit(neb_callback_list, subscriptions) /\ Modules \cap NerdChannels = {}
    BY BrokerConstants DEF BrokerInv, BrokerTypeOK
  \* It is enough that the lists are as they should be.
  <1>2. SUFFICES ASSUME UNCHANGED <<subscriptions, peer, qh_running, crashed>>,
                        loaded' \subseteq Modules,
                        neb_callback_list' \in [Types -> Seq(EntriesOf(loaded'))],
                        \A t \in Types, c \in NerdChannels :
                            /\ AtMostOne(neb_callback_list[t], c) => AtMostOne(neb_callback_list'[t], c)
                            /\ NoneOf(neb_callback_list[t], c) => NoneOf(neb_callback_list'[t], c)
                            /\ NoneOf(neb_callback_list'[t], c) =>
                                   \/ NoneOf(neb_callback_list[t], c)
                                   \/ \A g \in NerdChannels : NoneOf(neb_callback_list'[t], g)
                 PROVE  BrokerInv' /\ Follows
    <2>1. CASE \E m \in Modules : neb_load_module(m)
      <3>1. PICK m \in Modules : neb_load_module(m)
        BY <2>1
      <3>2. /\ loaded' = loaded \cup {m} /\ neb_callback_list' = neb_callback_list
            /\ UNCHANGED <<subscriptions, peer, qh_running, crashed>>
        BY <3>1 DEF neb_load_module
      <3>3. EntriesOf(loaded) \subseteq EntriesOf(loaded')
        BY <3>2 DEF EntriesOf
      <3>4. neb_callback_list' \in [Types -> Seq(EntriesOf(loaded'))]
        BY <1>1, <3>2, <3>3, SeqMonotonic
      <3> QED BY <1>1, <1>2, <3>2, <3>4
    <2>2. CASE \E m \in Modules : neb_unload_module(m)
      <3>1. PICK m \in Modules : neb_unload_module(m)
        BY <2>2
      <3>2. /\ loaded' = loaded \ {m}
            /\ neb_callback_list' = [t \in Types |-> WithoutModule(neb_callback_list[t], m)]
            /\ UNCHANGED <<subscriptions, peer, qh_running, crashed>>
        BY <3>1 DEF neb_unload_module
      <3>3. ASSUME NEW t \in Types
            PROVE  LET list == neb_callback_list'[t]
                   IN /\ list \in Seq(EntriesOf(loaded)) /\ NoneOf(list, m)
                      /\ \A g : NoneOf(neb_callback_list[t], g) => NoneOf(list, g)
                      /\ \A g : AtMostOne(neb_callback_list[t], g) => AtMostOne(list, g)
                      /\ \A g : g # m /\ NoneOf(list, g) =>
                                 NoneOf(neb_callback_list[t], g) \/ list = <<>>
        <4>1. neb_callback_list[t] \in Seq(EntriesOf(loaded))
          BY <1>1
        <4>2. neb_callback_list'[t] = WithoutModule(neb_callback_list[t], m)
          BY <3>2
        <4> QED BY <4>1, <4>2, WithoutModuleKeeps
      <3>4. ASSUME NEW list \in Seq(EntriesOf(loaded)), NoneOf(list, m)
            PROVE  list \in Seq(EntriesOf(loaded'))
        <4>1. /\ Len(list) \in Nat /\ list \in [1..Len(list) -> EntriesOf(loaded)]
              /\ DOMAIN list = 1..Len(list)
          OBVIOUS
        <4>2. \A i \in 1..Len(list) : list[i] \in EntriesOf(loaded')
          BY <3>2, <3>4, <4>1 DEF NoneOf, EntriesOf
        <4> DEFINE T == EntriesOf(loaded')
        <4>3. \A i \in 1..Len(list) : list[i] \in T
          BY <4>2
        <4> HIDE DEF T
        <4>4. list \in Seq(T)
          BY <4>1, <4>3
        <4> QED BY <4>4 DEF T
      <3>5. neb_callback_list' \in [Types -> Seq(EntriesOf(loaded'))]
        <4>1. \A t \in Types : neb_callback_list'[t] \in Seq(EntriesOf(loaded'))
          BY <3>3, <3>4
        <4>2. neb_callback_list' = [t \in Types |-> neb_callback_list'[t]]
          BY <3>2
        <4> QED BY <4>1, <4>2
      <3>6. (\A c \in NerdChannels : c # m) /\ \A g : NoneOf(<<>>, g)
        BY <1>1 DEF NoneOf
      <3> QED BY <1>1, <1>2, <3>2, <3>3, <3>5, <3>6
    <2>3. CASE \E m \in Modules, t \in Types, p \in Priorities : neb_register_callback(m, t, p)
      <3>1. PICK m \in Modules, t \in Types, p \in Priorities : neb_register_callback(m, t, p)
        BY <2>3
      <3> DEFINE list == Registered(neb_callback_list[t], m, p)
      <3>2. /\ neb_callback_list' = [neb_callback_list EXCEPT ![t] = list] /\ m \in loaded
            /\ UNCHANGED <<loaded, subscriptions, peer, qh_running, crashed>>
        BY <3>1 DEF neb_register_callback
      <3>3. /\ list \in Seq(EntriesOf(loaded))
            /\ \A g : /\ g # m /\ NoneOf(neb_callback_list[t], g) => NoneOf(list, g)
                      /\ g # m /\ AtMostOne(neb_callback_list[t], g) => AtMostOne(list, g)
                      /\ NoneOf(list, g) => NoneOf(neb_callback_list[t], g)
        <4>1. /\ neb_callback_list[t] \in Seq(EntriesOf(loaded)) /\ m \in loaded \cup NerdChannels
              /\ p \in Priorities \cup {NerdPriority}
          BY <1>1, <3>2
        <4> QED BY <4>1, RegisteredKeeps
      <3> HIDE DEF list
      <3>4. \A c \in NerdChannels : c # m
        BY <1>1
      <3> QED BY <1>1, <1>2, <3>2, <3>3, <3>4
    <2>4. CASE \E m \in Modules, t \in Types : neb_deregister_callback(m, t)
      <3>1. PICK m \in Modules, t \in Types : neb_deregister_callback(m, t)
        BY <2>4
      <3> DEFINE list == Deregistered(neb_callback_list[t], m)
      <3>2. /\ neb_callback_list' = [neb_callback_list EXCEPT ![t] = list]
            /\ UNCHANGED <<loaded, subscriptions, peer, qh_running, crashed>>
        BY <3>1 DEF neb_deregister_callback
      <3>3. /\ list \in Seq(EntriesOf(loaded))
            /\ \A g : /\ NoneOf(neb_callback_list[t], g) => NoneOf(list, g)
                      /\ AtMostOne(neb_callback_list[t], g) => AtMostOne(list, g)
                      /\ g # m /\ NoneOf(list, g) =>
                             NoneOf(neb_callback_list[t], g) \/ list = <<>>
        <4>1. neb_callback_list[t] \in Seq(EntriesOf(loaded))
          BY <1>1
        <4> QED BY <4>1, DeregisteredKeeps
      <3> HIDE DEF list
      <3>4. (\A c \in NerdChannels : c # m) /\ \A g : NoneOf(<<>>, g)
        BY <1>1 DEF NoneOf
      <3> QED BY <1>1, <1>2, <3>2, <3>3, <3>4
    <2> QED BY <2>1, <2>2, <2>3, <2>4 DEF ModuleStep
  <1>3. neb_callback_list' \in [Types -> Seq(Entries)]
    <2>1. EntriesOf(loaded') \subseteq Entries
      BY <1>2 DEF EntriesOf, Entries, Funcs
    <2> QED BY <1>2, <2>1, SeqMonotonic
  <1>4. ChannelsFit(neb_callback_list', subscriptions')
    BY <1>1, <1>2 DEF ChannelsFit
  <1>5. BrokerInv'
    BY <1>2, <1>3, <1>4 DEF BrokerInv, BrokerTypeOK, ChannelsFit
  <1>6. Follows
    BY <1>2 DEF Follows
  <1> QED BY <1>5, <1>6

\* Every step.
LEMMA BrokerNextKeeps ==
    ASSUME BrokerInv, [BrokerNext]_brokerVars
    PROVE  BrokerInv' /\ Follows
  <1>1. CASE BrokerNext
    BY <1>1, ModuleKeeps, ConnectionKeeps, EventKeeps DEF BrokerNext
  <1>2. CASE UNCHANGED brokerVars
    BY <1>2 DEF brokerVars, broker, BrokerInv, BrokerTypeOK, ChannelsFit, Follows
  <1> QED BY <1>1, <1>2

\* The inductive invariant of the broker: what is registered, in total, belongs to
\* modules that are loaded or to channels that need it (nebmods.c, nerd.c).
THEOREM BrokerInvariant == BrokerSpec => []BrokerInv
  <1>1. BrokerInit => BrokerInv
    <2> SUFFICES ASSUME BrokerInit PROVE BrokerInv
      OBVIOUS
    <2>1. InUse(peer) = {}
      BY DEF BrokerInit, InUse
    <2>2. Cardinality(InUse(peer)) = 0
      BY <2>1, FS_EmptySet
    <2>3. \A t \in Types : neb_callback_list[t] = <<>>
      BY DEF BrokerInit
    <2>4. ChannelsFit(neb_callback_list, subscriptions)
      BY <2>3 DEF ChannelsFit, AtMostOne, NoneOf
    <2>5. /\ neb_callback_list \in [Types -> Seq(Entries)]
          /\ neb_callback_list \in [Types -> Seq(EntriesOf(loaded))]
          /\ subscriptions \in [NerdChannels -> Seq(Sds)]
      BY EmptySeq DEF BrokerInit
    <2>6. /\ peer \in [Sds -> {"closed", "open", "gone"}] /\ loaded \subseteq Modules
          /\ crashed \in BOOLEAN /\ qh_running = 0
      BY DEF BrokerInit
    <2> QED BY <2>2, <2>4, <2>5, <2>6 DEF BrokerInv, BrokerTypeOK, InUse
  <1>2. BrokerInv /\ [BrokerNext]_brokerVars => BrokerInv'
    BY BrokerNextKeeps
  <1> QED BY <1>1, <1>2, PTL DEF BrokerSpec

\* Every variable of the broker has its type, and qh_running is never below the
\* number of query connections (qh_input).
THEOREM BrokerTypes == BrokerSpec => []BrokerTypeOK
  BY BrokerInvariant, PTL DEF BrokerInv

\* A module that is not loaded has no callback in any list, whatever modules registered
\* and deregistered between events and from inside their callbacks (neb_unload_module,
\* neb_make_callbacks).
THEOREM BrokerUnloadedAreSilent == BrokerSpec => []UnloadedAreSilent
  <1>1. BrokerInv => UnloadedAreSilent
    <2> SUFFICES ASSUME BrokerInv, NEW t \in Types, NEW m \in Modules \ loaded
                 PROVE  Listed(t, m) = 0
      BY DEF UnloadedAreSilent
    <2> DEFINE list == neb_callback_list[t]
    <2>1. list \in Seq(EntriesOf(loaded)) /\ m \notin loaded \cup NerdChannels
      BY BrokerConstants DEF BrokerInv
    <2>2. \A i \in DOMAIN list : list[i].func # m
      <3>1. \A i \in DOMAIN list : list[i] \in EntriesOf(loaded)
        <4> HIDE DEF list
        <4> QED BY <2>1
      <3>2. \A e \in EntriesOf(loaded) : e.func \in loaded \cup NerdChannels
        BY DEF EntriesOf
      <3> QED BY <2>1, <3>1, <3>2
    <2>3. {i \in DOMAIN list : list[i].func = m} = {}
      BY <2>2
    <2> QED BY <2>3, FS_EmptySet DEF Listed
  <1> QED BY <1>1, BrokerInvariant, PTL

\* Of a list without duplicates, what is counted.
LEMMA CountListed ==
    ASSUME BrokerInv, NEW t \in Types, NEW c \in NerdChannels
    PROVE  Listed(t, c) = IF NoneOf(neb_callback_list[t], c) THEN 0 ELSE 1
  <1> DEFINE list == neb_callback_list[t]
             at == {i \in DOMAIN list : list[i].func = c}
  <1>1. AtMostOne(list, c)
    BY DEF BrokerInv, ChannelsFit
  <1>2. Listed(t, c) = Cardinality(at) /\ (NoneOf(list, c) <=> at = {})
    BY DEF Listed, NoneOf
  <1>3. CASE at = {}
    BY <1>2, <1>3, FS_EmptySet
  <1>4. CASE at # {}
    <2>1. PICK i \in at : TRUE
      BY <1>4
    <2>2. at = {i}
      BY <1>1, <2>1 DEF AtMostOne
    <2> HIDE DEF at
    <2>3. Cardinality(at) = 1
      BY <2>2, FS_Singleton
    <2> QED BY <1>2, <1>4, <2>3
  <1> QED BY <1>3, <1>4

\* A channel of NERD is called at most once for an event while it has subscribers, and
\* not at all without; it stays in the lists until all channels are lost from one, and
\* is not there again before its subscribers are gone (subscribe, nerd_cancel_subscriber,
\* neb_deregister_callback).
THEOREM BrokerChannelsCalledUntilLost == BrokerSpec => ChannelsCalledUntilLost
  <1>1. BrokerInv => ChannelsCalledAtMostOnce
    <2> SUFFICES ASSUME BrokerInv, NEW t \in Types, NEW c \in NerdChannels
                 PROVE  Listed(t, c) <= IF subscriptions[c] = <<>> THEN 0 ELSE 1
      BY DEF ChannelsCalledAtMostOnce
    <2>1. subscriptions[c] = <<>> => NoneOf(neb_callback_list[t], c)
      BY DEF BrokerInv, ChannelsFit
    <2> QED BY <2>1, CountListed
  <1>2. BrokerInv => \A t \in Types, g \in NerdChannels :
                         Listed(t, g) = IF NoneOf(neb_callback_list[t], g) THEN 0 ELSE 1
    BY CountListed, Zenon
  <1>3. (BrokerInv => \A t \in Types, g \in NerdChannels :
                          Listed(t, g) = IF NoneOf(neb_callback_list[t], g) THEN 0 ELSE 1)'
    BY <1>2, PTL
  <1>4. BrokerInv' => \A t \in Types, g \in NerdChannels :
                          Listed(t, g)' = IF NoneOf(neb_callback_list'[t], g) THEN 0 ELSE 1
    BY <1>3 DEF NoneOf
  <1>5. BrokerInv /\ [BrokerNext]_brokerVars => [LostOnlyTogether]_brokerVars
    <2> SUFFICES ASSUME BrokerInv, [BrokerNext]_brokerVars, NEW t \in Types, NEW c \in NerdChannels
                 PROVE  /\ Listed(t, c) = 1 /\ subscriptions'[c] # <<>> =>
                               Listed(t, c)' = 1 \/ \A g \in NerdChannels : Listed(t, g)' = 0
                        /\ Listed(t, c) = 0 /\ subscriptions[c] # <<>> /\ subscriptions'[c] # <<>> =>
                               Listed(t, c)' = 0
      BY Zenon DEF LostOnlyTogether
    <2>1. BrokerInv' /\ Follows
      BY BrokerNextKeeps
    <2>2. Listed(t, c) = IF NoneOf(neb_callback_list[t], c) THEN 0 ELSE 1
      BY CountListed
    <2>3. \A g \in NerdChannels :
              Listed(t, g)' = IF NoneOf(neb_callback_list'[t], g) THEN 0 ELSE 1
      BY <1>4, <2>1, Zenon
    <2>4. /\ ~NoneOf(neb_callback_list[t], c) /\ subscriptions'[c] # <<>> =>
                 ~NoneOf(neb_callback_list'[t], c)
                     \/ \A g \in NerdChannels : NoneOf(neb_callback_list'[t], g)
          /\ NoneOf(neb_callback_list[t], c) /\ subscriptions[c] # <<>> =>
                 NoneOf(neb_callback_list'[t], c)
      BY <2>1 DEF Follows
    <2> QED BY <2>2, <2>3, <2>4
  <1> QED BY <1>1, <1>5, BrokerInvariant, PTL DEF BrokerSpec, ChannelsCalledUntilLost

-----------------------------------------------------------------------------
\* Buffers.
Fits(ioc) ==
    ioc \in Caches /\ ioc.offset <= Len(ioc.buf) /\ Len(ioc.buf) <= ioc.bufsize

\* iocache_read: what is in the buffer is followed by the beginning of the input that
\* there is room for, whether the buffer is moved, grown or left alone.
LEMMA ReadAppends ==
    ASSUME NEW ioc, Fits(ioc), NEW input \in Seq(Bytes)
    PROVE  /\ Fits(iocache_read(ioc, input)) /\ Taken(ioc, input) \in 0..Len(input)
           /\ Contents(iocache_read(ioc, input))
                  = Contents(ioc) \o SubSeq(input, 1, Taken(ioc, input))
  <1> DEFINE moved == iocache_move_data(ioc)
             roomy == WithRoom(ioc)
             room == roomy.bufsize - Len(roomy.buf)
             k == Taken(ioc, input)
             read == iocache_read(ioc, input)
             new == SubSeq(input, 1, k)
  <1>1. /\ ioc \in Caches /\ ioc.buf \in Seq(Bytes) /\ ioc.offset \in Nat /\ ioc.bufsize \in Nat \ {0}
        /\ ioc.offset <= Len(ioc.buf) /\ Len(ioc.buf) <= ioc.bufsize /\ Len(ioc.buf) \in Nat
    BY DEF Fits, Caches
  <1>2. Contents(ioc) \in Seq(Bytes) /\ Len(Contents(ioc)) = Len(ioc.buf) - ioc.offset
    <2> DEFINE buf == ioc.buf
               m == ioc.offset + 1
               n == Len(buf)
    <2>1. m \in Int /\ n \in Int /\ n - m + 1 = Len(ioc.buf) - ioc.offset /\ (m <= n \/ m = n + 1)
      BY <1>1
    <2>2. \A i \in m..n : buf[i] \in Bytes
      BY <1>1
    <2>3. Contents(ioc) = SubSeq(buf, m, n)
      BY DEF Contents
    <2> HIDE DEF buf, m, n
    <2>4. SubSeq(buf, m, n) \in Seq(Bytes)
      BY <2>1, <2>2, SubSeqProperties
    <2>5. Len(SubSeq(buf, m, n)) = n - m + 1
      BY <2>1, <2>2, SubSeqProperties
    <2> QED BY <2>1, <2>3, <2>4, <2>5
  <1>3. moved \in Caches /\ moved.buf = Contents(ioc) /\ moved.offset = 0 /\ moved.bufsize = ioc.bufsize
    <2>1. CASE ioc.offset = 0
      <3>1. Contents(ioc) = ioc.buf
        BY <1>1, <2>1, SubSeqFull DEF Contents
      <3> QED BY <1>1, <2>1, <3>1 DEF iocache_move_data
    <2>2. CASE ioc.offset # 0
      <3> DEFINE c == Contents(ioc)
      <3>1. c \in Seq(Bytes) /\ moved = [ioc EXCEPT !.buf = c, !.offset = 0]
        BY <1>2, <2>2 DEF iocache_move_data
      <3> HIDE DEF c, moved
      <3>2. moved \in Caches /\ moved.buf = c /\ moved.offset = 0 /\ moved.bufsize = ioc.bufsize
        BY <1>1, <3>1 DEF Caches
      <3> QED BY <3>2 DEF c
    <2> QED BY <2>1, <2>2
  <1> HIDE DEF moved
  <1>4. /\ roomy \in Caches /\ roomy.buf = Contents(ioc) /\ roomy.offset = 0
        /\ roomy.bufsize \in Nat /\ Len(roomy.buf) < roomy.bufsize
    <2>1. CASE Len(moved.buf) >= moved.bufsize
      <3>1. iocache_move_data(moved) = moved
        BY <1>3 DEF iocache_move_data
      <3>2. roomy = [moved EXCEPT !.bufsize = moved.bufsize + moved.bufsize]
        BY <2>1, <3>1 DEF WithRoom, iocache_grow, moved
      <3>3. /\ roomy \in Caches /\ roomy.buf = moved.buf /\ roomy.offset = 0
            /\ roomy.bufsize = moved.bufsize + moved.bufsize
        BY <1>1, <1>3, <3>2 DEF Caches
      <3> QED BY <1>1, <1>2, <1>3, <3>3
    <2>2. CASE ~(Len(moved.buf) >= moved.bufsize)
      <3>1. roomy = moved
        BY <2>2 DEF WithRoom, moved
      <3> QED BY <1>1, <1>2, <1>3, <2>2, <3>1
    <2> QED BY <2>1, <2>2
  <1> HIDE DEF roomy
  <1>5. k \in 0..Len(input) /\ k <= room /\ Len(roomy.buf) \in Nat
    <2>1. k = IF Len(input) < room THEN Len(input) ELSE room
      BY DEF Taken, roomy
    <2>2. Len(input) \in Nat /\ Len(roomy.buf) \in Nat /\ room \in Nat
      BY <1>1, <1>2, <1>4
    <2> HIDE DEF room, k
    <2> QED BY <2>1, <2>2
  <1>6. read = [roomy EXCEPT !.buf = roomy.buf \o new]
    BY DEF iocache_read, roomy
  <1> HIDE DEF k
  <1>7. new \in Seq(Bytes) /\ Len(new) = k
    <2>1. \A i \in 1..k : input[i] \in Bytes
      BY <1>5
    <2> QED BY <1>5, <2>1, SubSeqProperties
  <1> HIDE DEF new
  <1> DEFINE full == roomy.buf \o new
  <1>8. full \in Seq(Bytes) /\ Len(full) = Len(roomy.buf) + k
    BY <1>2, <1>4, <1>7, ConcatProperties
  <1>9. /\ read \in Caches /\ read.buf = full /\ read.offset = 0 /\ read.bufsize = roomy.bufsize
    <2> HIDE DEF full, read
    <2>1. read = [roomy EXCEPT !.buf = full]
      BY <1>6 DEF full
    <2> QED BY <1>4, <1>8, <2>1 DEF Caches
  <1> HIDE DEF read
  <1>10. Fits(read)
    <2> HIDE DEF full
    <2> QED BY <1>4, <1>5, <1>8, <1>9 DEF Fits
  <1>11. Contents(read) = full
    <2> HIDE DEF full
    <2> QED BY <1>8, <1>9, SubSeqFull DEF Contents
  <1> QED BY <1>4, <1>5, <1>10, <1>11 DEF read, new, k

\* iocache_use_size: the next bytes are taken from the front.
LEMMA UseTakes ==
    ASSUME NEW ioc, Fits(ioc), NEW n \in 0..Available(ioc)
    PROVE  /\ Fits(iocache_use_size(ioc, n))
           /\ Contents(ioc) = SubSeq(Contents(ioc), 1, n) \o Contents(iocache_use_size(ioc, n))
           /\ SubSeq(Contents(ioc), 1, n) \in Seq(Bytes)
           /\ Contents(iocache_use_size(ioc, n)) \in Seq(Bytes)
           /\ Len(SubSeq(Contents(ioc), 1, n)) = n
  <1> DEFINE used == iocache_use_size(ioc, n)
             c == Contents(ioc)
             N == Len(ioc.buf)
  <1>1. /\ ioc \in Caches /\ ioc.buf \in Seq(Bytes) /\ ioc.offset \in Nat /\ ioc.bufsize \in Nat \ {0}
        /\ ioc.offset <= N /\ N <= ioc.bufsize /\ N \in Nat /\ n \in 0..(N - ioc.offset)
    BY DEF Fits, Caches, Available
  <1>2. /\ used \in Caches /\ used.buf = ioc.buf /\ used.bufsize = ioc.bufsize
        /\ used.offset = ioc.offset + n
    BY <1>1 DEF Caches, iocache_use_size
  <1> HIDE DEF used
  <1>3. Fits(used)
    BY <1>1, <1>2 DEF Fits
  <1>4. c \in Seq(Bytes) /\ Len(c) = N - ioc.offset
    <2>1. \A i \in (ioc.offset + 1)..N : ioc.buf[i] \in Bytes
      BY <1>1
    <2> QED BY <1>1, <2>1, SubSeqProperties DEF Contents
  <1>5. SubSeq(c, 1, n) = SubSeq(ioc.buf, ioc.offset + 1, ioc.offset + n)
    <2>1. \A i \in (ioc.offset + 1)..N : ioc.buf[i] \in Bytes
      BY <1>1
    <2>2. \A i \in 1..(N - ioc.offset) : c[i] = ioc.buf[ioc.offset + i]
      BY <1>1, <2>1, SubSeqProperties, SMTT(30) DEF Contents
    <2> DEFINE s == SubSeq(c, 1, n)
               t == SubSeq(ioc.buf, ioc.offset + 1, ioc.offset + n)
    <2>3. s \in Seq(Bytes) /\ Len(s) = n /\ \A i \in 1..n : s[i] = c[i]
      <3>1. \A i \in 1..n : c[i] \in Bytes
        BY <1>1, <1>4
      <3> HIDE DEF c
      <3> QED BY <1>1, <3>1, SubSeqProperties
    <2>4. t \in Seq(Bytes) /\ Len(t) = n /\ \A i \in 1..n : t[i] = ioc.buf[ioc.offset + i]
      <3>1. \A i \in (ioc.offset + 1)..(ioc.offset + n) : ioc.buf[i] \in Bytes
        BY <1>1
      <3> DEFINE from == ioc.offset + 1
                 to == ioc.offset + n
      <3>2. /\ from \in Int /\ to \in Int /\ to - from + 1 = n /\ (from <= to <=> n > 0)
            /\ n \in Nat /\ \A i \in 1..n : from + i - 1 = ioc.offset + i
        BY <1>1, SMTT(30)
      <3> HIDE DEF from, to
      <3>3. /\ SubSeq(ioc.buf, from, to) \in Seq(Bytes)
            /\ Len(SubSeq(ioc.buf, from, to)) = IF from <= to THEN n ELSE 0
            /\ \A i \in 1..n : SubSeq(ioc.buf, from, to)[i] = ioc.buf[from + i - 1]
        BY <3>1, <3>2, SubSeqProperties DEF from, to
      <3> QED BY <3>2, <3>3 DEF from, to
    <2> HIDE DEF s, t, c
    <2>5. \A i \in 1..n : s[i] = t[i]
      <3>1. \A i \in 1..n : i \in 1..(N - ioc.offset)
        BY <1>1
      <3> QED BY <2>2, <2>3, <2>4, <3>1
    <2>6. s = t
      BY <2>3, <2>4, <2>5, SeqEqual
    <2> QED BY <2>6 DEF s, t
  <1>6. Contents(used) = SubSeq(ioc.buf, ioc.offset + n + 1, N)
    BY <1>2 DEF Contents
  <1>7. SubSeq(ioc.buf, ioc.offset + 1, ioc.offset + n) \o SubSeq(ioc.buf, ioc.offset + n + 1, N) = c
    <2>1. /\ ioc.offset + 1 \in 1..(N + 1) /\ ioc.offset + n \in ((ioc.offset + 1) - 1)..N
          /\ N \in (ioc.offset + n)..N
      BY <1>1
    <2> QED BY <1>1, <2>1, ConcatAdjacentSubSeq DEF Contents
  <1>8. Len(SubSeq(c, 1, n)) = n /\ SubSeq(c, 1, n) \in Seq(Bytes)
    <2>1. \A i \in 1..n : c[i] \in Bytes
      BY <1>1, <1>4
    <2> HIDE DEF c
    <2> QED BY <1>1, <2>1, SubSeqProperties
  <1>9. Contents(used) \in Seq(Bytes)
    <2>1. \A i \in (ioc.offset + n + 1)..N : ioc.buf[i] \in Bytes
      BY <1>1
    <2> QED BY <1>1, <1>6, <2>1, SubSeqProperties
  <1> QED BY <1>3, <1>5, <1>6, <1>7, <1>8, <1>9 DEF used

\* Concatenation associates; the inner concatenations have names.
LEMMA Associates ==
    ASSUME NEW S, NEW p \in Seq(S), NEW q \in Seq(S), NEW r \in Seq(S),
           NEW pq, pq = p \o q, NEW qr, qr = q \o r
    PROVE  pq \o r = p \o qr /\ pq \in Seq(S) /\ qr \in Seq(S)
  <1>1. (p \o q) \o r = p \o (q \o r)
    BY ConcatAssociative
  <1>2. p \o q \in Seq(S) /\ q \o r \in Seq(S)
    BY ConcatProperties
  <1> QED BY <1>1, <1>2

\* iocache_use_delim finds the first newline that is not used yet.
LEMMA ScanFinds ==
    ASSUME NEW ioc, Fits(ioc)
    PROVE  /\ Newlines(ioc) = {} => DelimAt(ioc, <<Newline>>) = 0
           /\ Newlines(ioc) # {} => /\ DelimAt(ioc, <<Newline>>) \in Newlines(ioc)
                                    /\ \A i \in Newlines(ioc) : DelimAt(ioc, <<Newline>>) <= i
  <1> DEFINE N == Len(ioc.buf)
             met == {i \in ioc.offset + 1 .. N + 1 - Len(<<Newline>>) :
                        SubSeq(ioc.buf, i, i + Len(<<Newline>>) - 1) = <<Newline>>}
  <1>1. ioc.buf \in Seq(Bytes) /\ ioc.offset \in Nat /\ N \in Nat
    BY DEF Fits, Caches
  <1>2. Len(<<Newline>>) = 1
    OBVIOUS
  <1>3. met = {i \in ioc.offset + 1 .. N : SubSeq(ioc.buf, i, i) = <<Newline>>}
    <2>1. N + 1 - Len(<<Newline>>) = N
      BY <1>1, <1>2
    <2>2. \A i \in ioc.offset + 1 .. N : i + Len(<<Newline>>) - 1 = i
      BY <1>1, <1>2
    <2> QED BY <2>1, <2>2
  <1>4. \A i \in ioc.offset + 1 .. N : SubSeq(ioc.buf, i, i) = <<Newline>> <=> ioc.buf[i] = Newline
    <2> TAKE i \in ioc.offset + 1 .. N
    <2>1. i \in 1..N /\ ioc.buf[i] \in Bytes
      BY <1>1
    <2> DEFINE s == SubSeq(ioc.buf, i, i)
    <2>2. s \in Seq(Bytes) /\ Len(s) = 1 /\ s[1] = ioc.buf[i]
      <3>1. \A k \in i..i : ioc.buf[k] \in Bytes
        BY <2>1
      <3> QED BY <2>1, <3>1, SubSeqProperties
    <2> HIDE DEF s
    <2>3. s = <<ioc.buf[i]>>
      BY <2>2
    <2> QED BY <2>3 DEF s
  <1>5. met = Newlines(ioc)
    <2> HIDE DEF met
    <2> QED BY <1>3, <1>4 DEF Newlines
  <1>6. DelimAt(ioc, <<Newline>>)
            = IF met = {} THEN 0 ELSE CHOOSE i \in met : \A k \in met : i <= k
    BY DEF DelimAt
  <1> HIDE DEF met
  <1>7. ASSUME met # {} PROVE \E i \in met : \A k \in met : i <= k
    <2>1. met \in SUBSET Nat
      BY <1>1, <1>5 DEF Newlines
    <2> QED BY <1>7, <2>1, Least
  <1> QED BY <1>5, <1>6, <1>7

\* What a turn of command_input_handler takes from the buffer.
LEMMA LineTaken ==
    ASSUME NEW ioc, Fits(ioc), NEW at, at = DelimAt(ioc, <<Newline>>)
    PROVE  /\ Fits(iocache_use_delim(ioc, <<Newline>>))
           /\ iocache_use_delim(ioc, <<Newline>>) = [ioc EXCEPT !.offset = at]
           /\ UsedByDelim(ioc, <<Newline>>) \in Seq(Bytes)
           /\ Newlines(ioc) # {} =>
                  /\ UsedByDelim(ioc, <<Newline>>) \o <<Newline>>
                         = SubSeq(ioc.buf, ioc.offset + 1, at)
                  /\ Newlines(iocache_use_delim(ioc, <<Newline>>)) = Newlines(ioc) \ {at}
  <1> DEFINE used == iocache_use_delim(ioc, <<Newline>>)
             N == Len(ioc.buf)
             line == UsedByDelim(ioc, <<Newline>>)
  <1>1. /\ ioc \in Caches /\ ioc.buf \in Seq(Bytes) /\ ioc.offset \in Nat /\ ioc.bufsize \in Nat \ {0}
        /\ ioc.offset <= N /\ N <= ioc.bufsize /\ N \in Nat
    BY DEF Fits, Caches
  <1>2. \/ Newlines(ioc) = {} /\ at = 0
        \/ /\ at \in (ioc.offset + 1)..N /\ ioc.buf[at] = Newline /\ at \in Newlines(ioc)
           /\ \A i \in Newlines(ioc) : at <= i
    BY ScanFinds DEF Newlines
  <1>3. at \in Nat /\ at <= N
    BY <1>1, <1>2
  <1>4. used = [ioc EXCEPT !.offset = at]
    <2>1. ioc.offset + (at - 1 - ioc.offset + Len(<<Newline>>)) = at
      BY <1>1, <1>3
    <2> QED BY <2>1 DEF iocache_use_delim, iocache_use_size
  <1>5. used \in Caches /\ used.buf = ioc.buf /\ used.bufsize = ioc.bufsize /\ used.offset = at
    <2> HIDE DEF used
    <2> QED BY <1>1, <1>3, <1>4 DEF Caches
  <1> HIDE DEF used
  <1>6. Fits(used)
    BY <1>1, <1>3, <1>5 DEF Fits
  <1>7. line \in Seq(Bytes)
    <2>1. \A i \in (ioc.offset + 1)..(at - 1) : ioc.buf[i] \in Bytes
      BY <1>1, <1>3
    <2> QED BY <1>1, <1>3, <2>1, SubSeqProperties DEF UsedByDelim
  <1>8. ASSUME Newlines(ioc) # {}
        PROVE  line \o <<Newline>> = SubSeq(ioc.buf, ioc.offset + 1, at)
    <2>1. ioc.offset + 1 \in 1..N /\ at \in (ioc.offset + 1)..N /\ ioc.buf[at] = Newline
      BY <1>1, <1>2, <1>8
    <2>2. SubSeq(ioc.buf, ioc.offset + 1, at) = SubSeq(ioc.buf, ioc.offset + 1, at - 1) \o <<ioc.buf[at]>>
      BY <1>1, <2>1, SubSeqRecursiveSecond
    <2> QED BY <2>1, <2>2 DEF UsedByDelim
  <1>9. ASSUME Newlines(ioc) # {}
        PROVE  Newlines(used) = Newlines(ioc) \ {at}
    <2>1. /\ at \in (ioc.offset + 1)..N /\ at \in Newlines(ioc)
          /\ \A i \in Newlines(ioc) : at <= i
      BY <1>2, <1>9
    <2>2. \A i \in Newlines(used) : i \in Newlines(ioc) /\ i # at
      BY <1>1, <1>5, <2>1 DEF Newlines
    <2>3. \A i \in Newlines(ioc) : i # at => i \in Newlines(used)
      BY <1>1, <1>5, <2>1 DEF Newlines
    <2>4. at \notin Newlines(used)
      BY <1>1, <1>5, <2>1 DEF Newlines
    <2> QED BY <2>2, <2>3, <2>4
  <1> QED BY <1>4, <1>6, <1>7, <1>8, <1>9 DEF used

LEMMA NewlinesFinite ==
    ASSUME NEW ioc, Fits(ioc)
    PROVE  IsFiniteSet(Newlines(ioc)) /\ Cardinality(Newlines(ioc)) \in Nat
  <1>1. ioc.offset + 1 \in Int /\ Len(ioc.buf) \in Int
    BY DEF Fits, Caches
  <1>2. IsFiniteSet(ioc.offset + 1 .. Len(ioc.buf))
    BY <1>1, FS_Interval
  <1>3. Newlines(ioc) \subseteq ioc.offset + 1 .. Len(ioc.buf)
    BY DEF Newlines
  <1> QED BY <1>2, <1>3, FS_Subset, FS_CardinalityType

\* The loop of command_input_handler processes all lines up to the last newline, in
\* order, and leaves what is behind it.
LEMMA LoopTakesLines ==
    ASSUME NEW ioc, Fits(ioc), NEW done \in Seq(Bytes)
    PROVE  LET after == AllLines(ioc, done)
           IN /\ Fits(after.ioc) /\ Newlines(after.ioc) = {} /\ after.ioc.buf = ioc.buf
              /\ after.ioc.offset \in ioc.offset..Len(ioc.buf)
              /\ after.ioc.offset # ioc.offset => ioc.buf[after.ioc.offset] = Newline
              /\ after.done = done \o SubSeq(ioc.buf, ioc.offset + 1, after.ioc.offset)
  <1> DEFINE N == Cardinality(Newlines(ioc))
             All == Bytes \cup {Newline}
             V == {st \in [ioc : Caches, done : Seq(All)] : Fits(st.ioc)}
             first == [ioc |-> ioc, done |-> done]
             Of(v) == OneLine(v)
             Eq(f) == f = [n \in 0..N |-> IF n = 0 THEN first ELSE Of(f[n - 1])]
             step == [n \in 1..N |-> [v \in V |-> Of(v)]]
             after == CHOOSE f : Eq(f)
             Len0 == Len(ioc.buf)
             To(e) == SubSeq(ioc.buf, ioc.offset + 1, e)
  <1>0. /\ ioc \in Caches /\ ioc.buf \in Seq(Bytes) /\ ioc.offset \in Nat
        /\ ioc.offset <= Len0 /\ Len0 \in Nat /\ done \in Seq(All)
    BY SeqMonotonic DEF Fits, Caches
  <1>1. N \in Nat /\ first \in V
    BY <1>0, NewlinesFinite
  <1>2. ASSUME NEW v \in V
        PROVE  /\ Of(v) \in V
               /\ Of(v).ioc = iocache_use_delim(v.ioc, <<Newline>>)
               /\ Of(v).done = (v.done \o UsedByDelim(v.ioc, <<Newline>>)) \o <<Newline>>
    <2> DEFINE line == UsedByDelim(v.ioc, <<Newline>>)
               used == iocache_use_delim(v.ioc, <<Newline>>)
    <2>1. Fits(v.ioc) /\ v.done \in Seq(All)
      OBVIOUS
    <2>2. Fits(used) /\ line \in Seq(Bytes)
      BY <2>1, LineTaken
    <2>3. (v.done \o line) \o <<Newline>> \in Seq(All)
      <3> HIDE DEF line
      <3>1. line \in Seq(All) /\ <<Newline>> \in Seq(All)
        BY <2>2, SeqMonotonic
      <3> HIDE DEF All
      <3>2. v.done \o line \in Seq(All)
        BY <2>1, <3>1, ConcatProperties
      <3> QED BY <3>1, <3>2, ConcatProperties
    <2>4. used \in Caches
      BY <2>2 DEF Fits
    <2>5. Of(v) = [ioc |-> used, done |-> (v.done \o line) \o <<Newline>>]
      BY DEF OneLine
    <2> HIDE DEF used, line, Of, All
    <2> QED BY <2>2, <2>3, <2>4, <2>5 DEF used, line
  <1> HIDE DEF Of, N, first
  <1>3. PICK f \in [0..N -> V] : f[0] = first /\ \A n \in 1..N : f[n] = step[n][f[n - 1]]
    <2>1. step \in [1..N -> [V -> V]]
      <3> HIDE DEF V
      <3> QED BY <1>2
    <2> HIDE DEF step, V
    <2>2. \E f \in [0..N -> V] : f[0] = first /\ \A n \in 1..N : f[n] = step[n][f[n - 1]]
      BY <1>1, <2>1, LoopExists
    <2> QED BY <2>2
  <1>4. \A n \in 1..N : f[n] = Of(f[n - 1])
    <2>1. \A n \in 1..N : n - 1 \in 0..N /\ f[n - 1] \in V
      <3> HIDE DEF V, step
      <3> QED BY <1>1, <1>3
    <2>2. \A n \in 1..N, v \in V : step[n][v] = Of(v)
      OBVIOUS
    <2> HIDE DEF step, V
    <2> QED BY <1>3, <2>1, <2>2
  <1>5. Eq(f)
    <2>1. f = [n \in 0..N |-> f[n]] /\ f[0] = first
      <3> HIDE DEF V, step
      <3> QED BY <1>3
    <2>2. \A n \in 0..N : n # 0 => n \in 1..N
      BY <1>1
    <2> QED BY <1>4, <2>1, <2>2
  <1>6. Eq(after)
    <2> HIDE DEF Eq
    <2> QED BY <1>5
  <1>7. AllLines(ioc, done) = after[N]
    BY DEF AllLines, Of, N, first
  <1>8. after = [n \in 0..N |-> IF n = 0 THEN first ELSE Of(after[n - 1])]
    BY <1>6
  <1> HIDE DEF after
  <1>9. after[0] = first /\ \A n \in 1..N : after[n] = Of(after[n - 1])
    <2>1. 0 \in 0..N /\ \A n \in 1..N : n \in 0..N /\ n # 0
      BY <1>1
    <2> QED BY <1>8, <2>1
  \* After n turns all but n newlines are still ahead.
  <1> DEFINE J(st, n) ==
                 /\ st \in V /\ st.ioc.buf = ioc.buf
                 /\ st.ioc.offset \in ioc.offset..Len0
                 /\ st.ioc.offset # ioc.offset => ioc.buf[st.ioc.offset] = Newline
                 /\ st.done = done \o To(st.ioc.offset)
                 /\ Cardinality(Newlines(st.ioc)) = N - n
             G == {n \in 0..N : J(after[n], n)}
  <1>10. J(first, 0)
    <2>1. To(ioc.offset) = <<>>
      BY <1>0, SubSeqEmpty
    <2>2. first.ioc = ioc /\ first.done = done
      BY DEF first
    <2>3. done = done \o <<>>
      BY <1>0
    <2> HIDE DEF To, V
    <2> QED BY <1>0, <1>1, <2>1, <2>2, <2>3 DEF N
  <1>11. ASSUME NEW n \in 1..N, NEW v, J(v, n - 1) PROVE J(Of(v), n)
    <2> DEFINE at == DelimAt(v.ioc, <<Newline>>)
               w == Of(v)
               line == UsedByDelim(v.ioc, <<Newline>>)
    <2>1. /\ v \in V /\ v.ioc.buf = ioc.buf /\ v.ioc.offset \in ioc.offset..Len0
          /\ v.done = done \o To(v.ioc.offset)
          /\ Cardinality(Newlines(v.ioc)) = N - (n - 1) /\ Fits(v.ioc)
      BY <1>11
    <2>2. Newlines(v.ioc) # {}
      <3>1. N - (n - 1) # 0
        BY <1>1
      <3>2. Cardinality(Newlines(v.ioc)) # 0
        BY <2>1, <3>1, Zenon
      <3> QED BY <3>2, FS_EmptySet
    <2>3. at \in Newlines(v.ioc)
      BY <2>1, <2>2, ScanFinds
    <2>4. at \in (v.ioc.offset + 1)..Len0 /\ ioc.buf[at] = Newline
      BY <2>1, <2>3 DEF Newlines
    <2>5. /\ w \in V /\ w.ioc = [v.ioc EXCEPT !.offset = at]
          /\ w.done = (v.done \o line) \o <<Newline>>
          /\ Newlines(w.ioc) = Newlines(v.ioc) \ {at}
          /\ line \o <<Newline>> = SubSeq(v.ioc.buf, v.ioc.offset + 1, at)
          /\ line \in Seq(Bytes)
      <3> HIDE DEF V, w
      <3>1. w \in V /\ w.ioc = iocache_use_delim(v.ioc, <<Newline>>)
            /\ w.done = (v.done \o line) \o <<Newline>>
        BY <1>2, <2>1 DEF w
      <3> QED BY <2>1, <2>2, <3>1, LineTaken
    <2>6. w.ioc.buf = ioc.buf /\ w.ioc.offset = at
      <3>1. v.ioc \in Caches
        BY <2>1
      <3> HIDE DEF w, V
      <3> QED BY <2>1, <2>5, <3>1 DEF Caches
    <2>7. Cardinality(Newlines(w.ioc)) = N - n
      <3> DEFINE K == Newlines(v.ioc)
      <3>1. IsFiniteSet(K) /\ at \in K /\ Cardinality(K) = N - (n - 1)
        BY <2>1, <2>3, NewlinesFinite
      <3>2. Newlines(w.ioc) = K \ {at}
        BY <2>5
      <3> HIDE DEF K, at, w
      <3>3. Cardinality(K \ {at}) = Cardinality(K) - 1
        BY <3>1, FS_RemoveElement
      <3>4. (N - (n - 1)) - 1 = N - n
        BY <1>1
      <3> QED BY <3>1, <3>2, <3>3, <3>4
    <2>8. w.done = done \o To(at)
      <3> DEFINE from == v.ioc.offset
                 old == To(from)
                 new == SubSeq(ioc.buf, from + 1, at)
                 nl == <<Newline>>
      <3>1. old \o new = To(at)
        <4>1. /\ ioc.offset + 1 \in 1..(Len0 + 1) /\ from \in ((ioc.offset + 1) - 1)..Len0
              /\ at \in from..Len0
          <5>1. (ioc.offset + 1) - 1 = ioc.offset
            BY <1>0
          <5>2. from \in ioc.offset..Len0 /\ at \in (from + 1)..Len0
            BY <2>1, <2>4
          <5> HIDE DEF from, at
          <5> QED BY <1>0, <5>1, <5>2
        <4> QED BY <1>0, <4>1, ConcatAdjacentSubSeq
      <3>2. new = line \o nl
        BY <2>1, <2>5
      <3>3. old \in Seq(All) /\ line \in Seq(All) /\ nl \in Seq(All) /\ done \in Seq(All)
        <4>1. \A i \in (ioc.offset + 1)..from : ioc.buf[i] \in Bytes
          BY <1>0, <2>1
        <4>2. old \in Seq(Bytes)
          BY <1>0, <2>1, <4>1, SubSeqProperties
        <4> HIDE DEF old, line
        <4> QED BY <1>0, <2>5, <4>2, SeqMonotonic
      <3> HIDE DEF old, new, line, nl, To, All
      <3>4. ((done \o old) \o line) \o nl = done \o (old \o (line \o nl))
        <4> DEFINE x == done \o old
                   y == line \o nl
        <4>1. x \in Seq(All) /\ y \in Seq(All)
          BY <3>3
        <4> DEFINE xl == x \o line
                   oy == old \o y
        <4>2. xl \o nl = x \o y
          <5>1. xl = x \o line /\ y = line \o nl
            OBVIOUS
          <5>2. x \in Seq(All) /\ line \in Seq(All) /\ nl \in Seq(All)
            BY <3>3, <4>1, Zenon
          <5> HIDE DEF x, y, xl
          <5> QED BY <5>1, <5>2, Associates, SMTT(30)
        <4>3. x \o y = done \o oy
          <5>1. x = done \o old /\ oy = old \o y
            OBVIOUS
          <5>2. done \in Seq(All) /\ old \in Seq(All) /\ y \in Seq(All)
            BY <3>3, <4>1, Zenon
          <5> HIDE DEF x, y, oy
          <5> QED BY <5>1, <5>2, Associates, SMTT(30)
        <4> QED BY <4>2, <4>3, Zenon
      <3>5. w.done = ((done \o old) \o line) \o nl
        BY <2>1, <2>5 DEF old, nl, line
      <3> QED BY <3>1, <3>2, <3>4, <3>5
    <2>9. at \in ioc.offset..Len0
      BY <1>0, <2>1, <2>4
    <2> HIDE DEF w, at, To, V
    <2>10. J(w, n)
      BY <2>4, <2>5, <2>6, <2>7, <2>8, <2>9
    <2> QED BY <2>10 DEF w
  <1> HIDE DEF J
  <1>12. J(after[N], N)
    <2>1. G \in SUBSET (0..N) /\ 0 \in G /\ \A n \in 1..N : n - 1 \in G => n \in G
      BY <1>1, <1>9, <1>10, <1>11
    <2> HIDE DEF G
    <2>2. \A n \in 0..N : n \in G
      BY <1>1, <2>1, Induction
    <2>3. N \in G
      BY <1>1, <2>2
    <2> QED BY <2>3 DEF G
  <1>13. Newlines(after[N].ioc) = {}
    <2>1. Fits(after[N].ioc) /\ Cardinality(Newlines(after[N].ioc)) = 0
      BY <1>1, <1>12 DEF J
    <2> QED BY <2>1, NewlinesFinite, FS_EmptySet
  <1>14. /\ Fits(after[N].ioc) /\ after[N].ioc.buf = ioc.buf
         /\ after[N].ioc.offset \in ioc.offset..Len0
         /\ after[N].ioc.offset # ioc.offset => ioc.buf[after[N].ioc.offset] = Newline
         /\ after[N].done = done \o To(after[N].ioc.offset)
    BY <1>12 DEF J
  <1> QED BY <1>7, <1>13, <1>14

-----------------------------------------------------------------------------
\* The way of a command.

\* Two parts of a sequence, told apart by the length of the first.
LEMMA TwoParts ==
    ASSUME NEW S, NEW s \in Seq(S), NEW t \in Seq(S)
    PROVE  /\ SubSeq(s \o t, 1, Len(s)) = s
           /\ SubSeq(s \o t, Len(s) + 1, Len(s \o t)) = t
           /\ \A i \in 1..Len(s) : (s \o t)[i] = s[i]
  <1> DEFINE c == s \o t
             a == SubSeq(c, 1, Len(s))
             b == SubSeq(c, Len(s) + 1, Len(c))
  <1>1. /\ c \in Seq(S) /\ Len(c) = Len(s) + Len(t) /\ Len(s) \in Nat /\ Len(t) \in Nat
        /\ \A i \in 1..(Len(s) + Len(t)) : c[i] = IF i <= Len(s) THEN s[i] ELSE t[i - Len(s)]
    BY ConcatProperties
  <1> HIDE DEF c
  <1>2. a \in Seq(S) /\ Len(a) = Len(s) /\ \A i \in 1..Len(s) : a[i] = c[i]
    <2>1. \A i \in 1..Len(s) : c[i] \in S
      BY <1>1
    <2> QED BY <1>1, <2>1, SubSeqProperties
  <1>3. \A i \in 1..Len(s) : c[i] = s[i]
    BY <1>1
  <1> DEFINE from == Len(s) + 1
  <1>4. b \in Seq(S) /\ Len(b) = Len(t) /\ \A i \in 1..Len(t) : b[i] = c[Len(s) + i]
    <2>1. \A i \in from..Len(c) : c[i] \in S
      BY <1>1
    <2>2. /\ from \in Int /\ Len(c) \in Int /\ Len(c) - from + 1 = Len(t)
          /\ (from <= Len(c) <=> Len(t) > 0) /\ \A i \in 1..Len(t) : from + i - 1 = Len(s) + i
      BY <1>1
    <2> HIDE DEF from
    <2>3. /\ SubSeq(c, from, Len(c)) \in Seq(S)
          /\ Len(SubSeq(c, from, Len(c))) = IF from <= Len(c) THEN Len(c) - from + 1 ELSE 0
          /\ \A i \in 1..(Len(c) - from + 1) : SubSeq(c, from, Len(c))[i] = c[from + i - 1]
      BY <2>1, <2>2, SubSeqProperties
    <2> QED BY <1>1, <2>2, <2>3 DEF from
  <1>5. \A i \in 1..Len(t) : c[Len(s) + i] = t[i]
    <2> TAKE i \in 1..Len(t)
    <2>1. /\ Len(s) + i \in 1..(Len(s) + Len(t)) /\ ~(Len(s) + i <= Len(s))
          /\ (Len(s) + i) - Len(s) = i
      BY <1>1
    <2> QED BY <1>1, <2>1
  <1> HIDE DEF a, b
  <1>6. a = s
    BY <1>2, <1>3, SeqEqual
  <1>7. b = t
    BY <1>4, <1>5, SeqEqual
  <1> QED BY <1>3, <1>6, <1>7 DEF a, b, c

\* One stretch of a sequence that is cut out.
OneStretchLess(s, t) ==
    \E i \in 0..Len(s) : \E j \in i..Len(s) :
        t = SubSeq(s, 1, i) \o SubSeq(s, j + 1, Len(s))

LEMMA CutOut ==
    ASSUME NEW S, NEW p \in Seq(S), NEW q \in Seq(S), NEW r \in Seq(S),
           NEW pq, pq = p \o q, NEW s, s = pq \o r, NEW t, t = p \o r
    PROVE  OneStretchLess(s, t)
  <1> DEFINE qr == q \o r
  <1>1. /\ pq \in Seq(S) /\ qr \in Seq(S) /\ Len(pq) = Len(p) + Len(q)
        /\ Len(p) \in Nat /\ Len(q) \in Nat /\ Len(r) \in Nat
    BY ConcatProperties
  <1>2. s = p \o qr
    <2>1. qr = q \o r
      OBVIOUS
    <2> HIDE DEF qr
    <2>2. pq \o r = p \o qr
      BY <2>1, Associates, SMTT(30)
    <2> QED BY <2>2, Zenon
  <1>3. Len(s) = Len(pq) + Len(r)
    BY <1>1
  <1>4. SubSeq(s, 1, Len(p)) = p
    <2> HIDE DEF qr
    <2> QED BY <1>1, <1>2, TwoParts
  <1>5. SubSeq(s, Len(pq) + 1, Len(s)) = r
    BY <1>1, TwoParts
  <1>6. Len(p) \in 0..Len(s) /\ Len(pq) \in Len(p)..Len(s)
    BY <1>1, <1>3
  <1> HIDE DEF qr
  <1> QED BY <1>4, <1>5, <1>6 DEF OneStretchLess

CommandInv ==
    /\ fifo \in Seq(Bytes) /\ socket \in Seq(Bytes) /\ processed \in Seq(Bytes)
    /\ Fits(worker_ioc) /\ Fits(master_ioc) /\ Newlines(master_ioc) = {}
    /\ ends \subseteq Processes /\ "master" \in ends
    /\ deaths \in 0..MaxDeaths /\ relaunches \in Nat
    /\ deaths = relaunches + (IF alive THEN 0 ELSE 1)

LEMMA CreatedFits ==
    ASSUME NEW size \in Nat \ {0}
    PROVE  /\ Fits(iocache_create(size)) /\ Newlines(iocache_create(size)) = {}
           /\ Contents(iocache_create(size)) = <<>>
  <1> DEFINE ioc == iocache_create(size)
  <1>1. ioc = [buf |-> <<>>, offset |-> 0, bufsize |-> size]
    BY DEF iocache_create
  <1>2. Len(<<>>) = 0 /\ <<>> \in Seq(Bytes)
    OBVIOUS
  <1>3. ioc.buf = <<>> /\ ioc.offset = 0 /\ ioc.bufsize = size /\ ioc \in Caches
    <2> DEFINE none == <<>>
    <2>1. none \in Seq(Bytes) /\ ioc = [buf |-> none, offset |-> 0, bufsize |-> size]
      BY <1>1
    <2> HIDE DEF none, ioc
    <2>2. ioc.buf = none /\ ioc.offset = 0 /\ ioc.bufsize = size /\ ioc \in Caches
      BY <2>1 DEF Caches
    <2> QED BY <2>2 DEF none
  <1> HIDE DEF ioc
  <1>4. Fits(ioc) /\ Newlines(ioc) = {}
    BY <1>2, <1>3 DEF Fits, Newlines
  <1>5. Contents(ioc) = <<>>
    BY <1>2, <1>3, SubSeqEmpty DEF Contents
  <1> QED BY <1>4, <1>5 DEF ioc

LEMMA ContentsType ==
    ASSUME NEW ioc, Fits(ioc)
    PROVE  Contents(ioc) \in Seq(Bytes) /\ Len(Contents(ioc)) = Available(ioc)
           /\ Available(ioc) \in Nat
  <1>1. /\ ioc.buf \in Seq(Bytes) /\ ioc.offset \in Nat
        /\ ioc.offset <= Len(ioc.buf) /\ Len(ioc.buf) \in Nat
    BY DEF Fits, Caches
  <1>2. \A i \in (ioc.offset + 1)..Len(ioc.buf) : ioc.buf[i] \in Bytes
    BY <1>1
  <1> QED BY <1>1, <1>2, SubSeqProperties DEF Contents, Available

\* A line is written behind what is on the way.
LEMMA SubmitStep ==
    ASSUME CommandInv, NEW line \in Lines, Submit(line)
    PROVE  CommandInv' /\ Contract!Submit(line)
  <1> DEFINE front == (Contents(master_ioc) \o socket) \o Contents(worker_ioc)
  <1>1. line \in Seq(Bytes)
    BY CommandConstants
  <1>2. /\ fifo' = fifo \o line /\ alive
        /\ UNCHANGED <<ends, worker_ioc, socket, master_ioc, processed, deaths, relaunches>>
    BY DEF Submit
  <1>3. /\ fifo \in Seq(Bytes) /\ socket \in Seq(Bytes)
        /\ Contents(master_ioc) \in Seq(Bytes) /\ Contents(worker_ioc) \in Seq(Bytes)
    BY ContentsType DEF CommandInv
  <1>4. front \in Seq(Bytes)
    BY <1>3
  <1>5. OnTheWay = front \o fifo /\ OnTheWay' = front \o (fifo \o line)
    BY <1>2 DEF OnTheWay
  <1>6. front \o (fifo \o line) = (front \o fifo) \o line
    <2> HIDE DEF front
    <2> DEFINE ff == front \o fifo
               fl == fifo \o line
    <2>1. ff = front \o fifo /\ fl = fifo \o line
      OBVIOUS
    <2>2. front \in Seq(Bytes) /\ fifo \in Seq(Bytes) /\ line \in Seq(Bytes)
      BY <1>1, <1>3, <1>4, Zenon
    <2> HIDE DEF ff, fl
    <2>3. ff \o line = front \o fl
      BY <2>1, <2>2, Associates, SMTT(30)
    <2> QED BY <2>1, <2>3, Zenon
  <1>7. Contract!Submit(line)
    BY <1>2, <1>5, <1>6 DEF Contract!Submit
  <1>8. fifo' \in Seq(Bytes)
    BY <1>1, <1>2, <1>3
  <1> QED BY <1>2, <1>7, <1>8 DEF CommandInv, alive

LEMMA SplitAt ==
    ASSUME NEW s \in Seq(Bytes), NEW k \in 0..Len(s)
    PROVE  /\ SubSeq(s, 1, k) \in Seq(Bytes) /\ SubSeq(s, k + 1, Len(s)) \in Seq(Bytes)
           /\ SubSeq(s, 1, k) \o SubSeq(s, k + 1, Len(s)) = s
  <1> DEFINE head == SubSeq(s, 1, k)
             tail == SubSeq(s, k + 1, Len(s))
  <1>1. \A i \in 1..Len(s) : s[i] \in Bytes
    OBVIOUS
  <1>2. head \in Seq(Bytes)
    <2>1. \A i \in 1..k : s[i] \in Bytes
      BY <1>1
    <2> QED BY <2>1, SubSeqProperties
  <1>3. tail \in Seq(Bytes)
    <2>1. \A i \in (k + 1)..Len(s) : s[i] \in Bytes
      BY <1>1
    <2> QED BY <2>1, SubSeqProperties
  <1>4. head \o tail = SubSeq(s, 1, Len(s))
    <2>1. 1 \in 1..(Len(s) + 1) /\ k \in (1 - 1)..Len(s) /\ Len(s) \in k..Len(s)
      OBVIOUS
    <2> QED BY <2>1, ConcatAdjacentSubSeq
  <1> QED BY <1>2, <1>3, <1>4, SubSeqFull

\* The worker moves bytes from the pipe into its buffer.
LEMMA WorkerReadsStep ==
    ASSUME CommandInv, WorkerReads
    PROVE  CommandInv' /\ OnTheWay' = OnTheWay
  <1> DEFINE k == Taken(worker_ioc, fifo)
             taken == SubSeq(fifo, 1, k)
             left == SubSeq(fifo, k + 1, Len(fifo))
             front == Contents(master_ioc) \o socket
  <1>1. /\ fifo \in Seq(Bytes) /\ socket \in Seq(Bytes) /\ Fits(worker_ioc)
        /\ Contents(master_ioc) \in Seq(Bytes) /\ Contents(worker_ioc) \in Seq(Bytes)
    BY ContentsType DEF CommandInv
  <1>2. /\ worker_ioc' = iocache_read(worker_ioc, fifo) /\ fifo' = left
        /\ Available(worker_ioc) = 0
        /\ UNCHANGED <<ends, socket, master_ioc, processed, deaths, relaunches>>
    BY DEF WorkerReads
  <1>3. Contents(worker_ioc) = <<>>
    <2>1. Len(Contents(worker_ioc)) = 0
      BY <1>1, <1>2, ContentsType
    <2> QED BY <1>1, <2>1, EmptySeq
  <1>4. /\ k \in 0..Len(fifo) /\ Fits(worker_ioc')
        /\ Contents(worker_ioc') = Contents(worker_ioc) \o taken
    BY <1>1, <1>2, ReadAppends
  <1>5. taken \in Seq(Bytes) /\ left \in Seq(Bytes) /\ taken \o left = fifo
    BY <1>1, <1>4, SplitAt
  <1> HIDE DEF taken, left
  <1>6. Contents(worker_ioc') = taken
    BY <1>3, <1>4, <1>5
  <1>7. front \in Seq(Bytes)
    BY <1>1
  <1>8. OnTheWay = (front \o <<>>) \o fifo
    BY <1>3 DEF OnTheWay
  <1>9. OnTheWay' = (front \o taken) \o left
    <2>1. Contents(worker_ioc)' = taken
      BY <1>6 DEF Contents
    <2>2. Contents(master_ioc)' = Contents(master_ioc)
      BY <1>2 DEF Contents
    <2> QED BY <1>2, <2>1, <2>2 DEF OnTheWay
  <1> HIDE DEF front
  <1>10. front \o <<>> = front /\ (front \o taken) \o left = front \o (taken \o left)
    <2>1. front \in Seq(Bytes) /\ taken \in Seq(Bytes) /\ left \in Seq(Bytes)
      BY <1>5, <1>7
    <2> DEFINE ft == front \o taken
               tl == taken \o left
    <2>2. ft = front \o taken /\ tl = taken \o left
      OBVIOUS
    <2>3. ft \o left = front \o tl
      <3> HIDE DEF ft, tl
      <3> QED BY <2>1, <2>2, Associates, SMTT(30)
    <2> QED BY <1>7, <2>3, ConcatEmptySeq
  <1> QED BY <1>2, <1>4, <1>5, <1>8, <1>9, <1>10 DEF CommandInv, alive

\* The worker moves bytes from its buffer into the socket.
LEMMA WorkerWritesStep ==
    ASSUME CommandInv, NEW n \in 1..SocketSize, WorkerWrites(n)
    PROVE  CommandInv' /\ OnTheWay' = OnTheWay
  <1> DEFINE sent == SubSeq(Contents(worker_ioc), 1, n)
             left == Contents(iocache_use_size(worker_ioc, n))
             m == Contents(master_ioc)
             front == m \o socket
  <1>1. /\ fifo \in Seq(Bytes) /\ socket \in Seq(Bytes) /\ Fits(worker_ioc)
        /\ m \in Seq(Bytes) /\ Available(worker_ioc) \in Nat /\ SocketSize \in Nat
    BY ContentsType, CommandConstants DEF CommandInv
  <1>2. /\ socket' = socket \o sent /\ worker_ioc' = iocache_use_size(worker_ioc, n)
        /\ n <= Available(worker_ioc)
        /\ UNCHANGED <<fifo, ends, master_ioc, processed, deaths, relaunches>>
    BY DEF WorkerWrites
  <1>3. n \in 0..Available(worker_ioc)
    BY <1>1, <1>2
  <1>4. /\ Fits(iocache_use_size(worker_ioc, n)) /\ Contents(worker_ioc) = sent \o left
        /\ sent \in Seq(Bytes) /\ left \in Seq(Bytes)
    BY <1>1, <1>3, UseTakes
  <1>5. OnTheWay = (front \o Contents(worker_ioc)) \o fifo
    BY DEF OnTheWay
  <1>6. OnTheWay' = ((m \o (socket \o sent)) \o left) \o fifo
    <2>1. Contents(worker_ioc)' = left
      BY <1>2 DEF Contents
    <2>2. Contents(master_ioc)' = m
      BY <1>2 DEF Contents
    <2> QED BY <1>2, <2>1, <2>2 DEF OnTheWay
  <1> HIDE DEF sent, left, m
  <1>7. m \o (socket \o sent) = front \o sent /\ front \in Seq(Bytes)
    <2> DEFINE ss == socket \o sent
    <2>1. front = m \o socket /\ ss = socket \o sent
      OBVIOUS
    <2>2. m \in Seq(Bytes) /\ socket \in Seq(Bytes) /\ sent \in Seq(Bytes)
      BY <1>1, <1>4, Zenon
    <2> HIDE DEF front, ss
    <2>3. front \o sent = m \o ss /\ front \in Seq(Bytes)
      BY <2>1, <2>2, Associates, SMTT(30)
    <2> QED BY <2>1, <2>3, Zenon
  <1>8. front \o (sent \o left) = (front \o sent) \o left
    <2> DEFINE fs == front \o sent
               sl == sent \o left
    <2>1. fs = front \o sent /\ sl = sent \o left
      OBVIOUS
    <2>2. front \in Seq(Bytes) /\ sent \in Seq(Bytes) /\ left \in Seq(Bytes)
      BY <1>4, <1>7, Zenon
    <2> HIDE DEF front, fs, sl
    <2>3. fs \o left = front \o sl
      BY <2>1, <2>2, Associates, SMTT(30)
    <2> QED BY <2>1, <2>3, Zenon
  <1>9. socket' \in Seq(Bytes) /\ Fits(worker_ioc')
    BY <1>1, <1>2, <1>4
  <1> HIDE DEF front
  <1>10. OnTheWay' = OnTheWay
    BY <1>4, <1>5, <1>6, <1>7, <1>8
  <1> QED BY <1>2, <1>9, <1>10 DEF CommandInv, alive

\* A worker that dies takes its buffer along, and maybe what is in the pipe.
LEMMA WorkerDiesStep ==
    ASSUME CommandInv, WorkerDies
    PROVE  CommandInv' /\ Contract!Lose
  <1> DEFINE w == Contents(worker_ioc)
             front == Contents(master_ioc) \o socket
             empty == iocache_create(WorkerSize)
  <1>1. /\ fifo \in Seq(Bytes) /\ front \in Seq(Bytes) /\ w \in Seq(Bytes)
    BY ContentsType DEF CommandInv
  <1>2. /\ alive /\ deaths < MaxDeaths /\ ends' = ends \ {"worker"} /\ worker_ioc' = empty
        /\ fifo' \in {<<>>, fifo} /\ deaths' = deaths + 1
        /\ UNCHANGED <<socket, master_ioc, processed, relaunches>>
    BY DEF WorkerDies
  <1>3. Fits(empty) /\ Contents(empty) = <<>>
    BY CreatedFits, CommandConstants
  <1>4. CommandInv'
    <2>1. fifo' \in Seq(Bytes)
      BY <1>1, <1>2, EmptySeq
    <2>2. /\ deaths \in 0..MaxDeaths /\ relaunches \in Nat /\ deaths = relaunches + 0
          /\ MaxDeaths \in Nat /\ ends \subseteq Processes /\ "master" \in ends
      BY <1>2, CommandConstants DEF CommandInv
    <2>3. ~alive' /\ ends' \subseteq Processes /\ "master" \in ends'
      BY <1>2, <2>2 DEF alive
    <2>4. deaths' \in 0..MaxDeaths /\ deaths' = relaunches' + 1
      BY <1>2, <2>2
    <2> HIDE DEF empty
    <2> QED BY <1>2, <1>3, <2>1, <2>2, <2>3, <2>4 DEF CommandInv
  <1>5. OnTheWay' = (front \o <<>>) \o fifo'
    <2>1. Contents(worker_ioc)' = <<>>
      BY <1>2, <1>3 DEF Contents
    <2>2. Contents(master_ioc)' = Contents(master_ioc)
      BY <1>2 DEF Contents
    <2> QED BY <1>2, <2>1, <2>2 DEF OnTheWay
  <1>6. OnTheWay = (front \o w) \o fifo
    BY DEF OnTheWay
  <1> HIDE DEF front, w
  <1>7. OneStretchLess(OnTheWay, OnTheWay')
    <2> DEFINE s == OnTheWay
               t == OnTheWay'
    <2>1. CASE fifo' = fifo
      <3> DEFINE pq == front \o w
      <3>1. t = front \o fifo /\ s = pq \o fifo /\ pq = front \o w
        BY <1>1, <1>5, <1>6, <2>1
      <3> HIDE DEF s, t, pq
      <3>2. OneStretchLess(s, t)
        BY <1>1, <3>1, CutOut
      <3> QED BY <3>2 DEF s, t
    <2>2. CASE fifo' = <<>>
      <3> DEFINE q == w \o fifo
                 none == <<>>
      <3>1. t = front \o none
        BY <1>1, <1>5, <2>2
      <3>2. q \in Seq(Bytes) /\ none \in Seq(Bytes) /\ s = s \o none /\ s = front \o q
        <4>1. q \in Seq(Bytes) /\ s = front \o q /\ s \in Seq(Bytes)
          BY <1>1, <1>6
        <4> HIDE DEF q, s
        <4> QED BY <1>1, <4>1, ConcatEmptySeq, EmptySeq
      <3> HIDE DEF s, t, q, none
      <3>3. OneStretchLess(s, t)
        BY <1>1, <3>1, <3>2, CutOut
      <3> QED BY <3>3 DEF s, t
    <2> QED BY <1>2, <2>1, <2>2
  <1>8. (deaths + relaunches)' = deaths + relaunches + 1
    BY <1>2 DEF CommandInv
  <1> QED BY <1>2, <1>4, <1>7, <1>8 DEF OneStretchLess, Contract!Lose, Contract!After

\* A new buffer of the master loses what was in the old one.
LEMMA RelaunchedStep ==
    ASSUME CommandInv, ~alive, Relaunched
    PROVE  CommandInv' /\ Contract!Lose
  <1> DEFINE m == Contents(master_ioc)
             w == Contents(worker_ioc)
             empty == iocache_create(MasterSize)
             none == <<>>
  <1>1. /\ fifo \in Seq(Bytes) /\ socket \in Seq(Bytes) /\ m \in Seq(Bytes) /\ w \in Seq(Bytes)
    BY ContentsType DEF CommandInv
  <1>2. /\ ends' = Processes /\ master_ioc' = empty /\ relaunches' = relaunches + 1
        /\ UNCHANGED <<fifo, worker_ioc, socket, processed, deaths>>
    BY DEF Relaunched, Launched
  <1>3. Fits(empty) /\ Newlines(empty) = {} /\ Contents(empty) = none
    BY CreatedFits, CommandConstants
  <1>4. CommandInv'
    <2>1. /\ deaths \in 0..MaxDeaths /\ relaunches \in Nat /\ deaths = relaunches + 1
      BY DEF CommandInv
    <2>2. alive' /\ ends' \subseteq Processes /\ "master" \in ends'
      BY <1>2 DEF alive, Processes
    <2>3. deaths' \in 0..MaxDeaths /\ relaunches' \in Nat /\ deaths' = relaunches' + 0
      BY <1>2, <2>1
    <2>4. Newlines(master_ioc)' = {}
      BY <1>2, <1>3 DEF Newlines
    <2>5. Fits(master_ioc') /\ Fits(worker_ioc')
      BY <1>2, <1>3 DEF CommandInv
    <2> HIDE DEF empty
    <2> QED BY <1>2, <2>2, <2>3, <2>4, <2>5 DEF CommandInv
  <1>5. OnTheWay = ((m \o socket) \o w) \o fifo
    BY DEF OnTheWay
  <1>6. OnTheWay' = ((none \o socket) \o w) \o fifo
    <2>1. Contents(master_ioc)' = none
      BY <1>2, <1>3 DEF Contents
    <2>2. Contents(worker_ioc)' = w
      BY <1>2 DEF Contents
    <2> QED BY <1>2, <2>1, <2>2 DEF OnTheWay
  <1>7. none \o socket = socket /\ none \in Seq(Bytes)
    BY <1>1, ConcatEmptySeq, EmptySeq
  <1> HIDE DEF m, w
  <1>8. OneStretchLess(OnTheWay, OnTheWay')
    <2> DEFINE s == OnTheWay
               t == OnTheWay'
               sw == socket \o w
               r == sw \o fifo
               pq == none \o m
    <2>1. sw \in Seq(Bytes) /\ (m \o socket) \o w = m \o sw
      <3> DEFINE ms == m \o socket
      <3>1. m \in Seq(Bytes) /\ socket \in Seq(Bytes) /\ w \in Seq(Bytes)
        BY <1>1, Zenon
      <3>2. ms = m \o socket /\ sw = socket \o w
        OBVIOUS
      <3> HIDE DEF ms, sw
      <3>3. ms \o w = m \o sw /\ sw \in Seq(Bytes)
        BY <3>1, <3>2, Associates, SMTT(30)
      <3> QED BY <3>2, <3>3, Zenon
    <2>2. s = (m \o sw) \o fifo /\ t = r
      <3>1. s = (m \o sw) \o fifo
        BY <1>5, <2>1
      <3>2. t = (socket \o w) \o fifo
        BY <1>6, <1>7
      <3> QED BY <3>1, <3>2
    <2>3. r \in Seq(Bytes) /\ (m \o sw) \o fifo = m \o r
      <3> HIDE DEF sw
      <3> DEFINE msw == m \o sw
      <3>1. m \in Seq(Bytes) /\ sw \in Seq(Bytes) /\ fifo \in Seq(Bytes)
        BY <1>1, <2>1, Zenon
      <3>2. msw = m \o sw /\ r = sw \o fifo
        OBVIOUS
      <3> HIDE DEF msw, r
      <3>3. msw \o fifo = m \o r /\ r \in Seq(Bytes)
        BY <3>1, <3>2, Associates, SMTT(30)
      <3> QED BY <3>2, <3>3, Zenon
    <2>4. pq = m
      BY <1>1, ConcatEmptySeq
    <2>5. t = none \o r
      <3> HIDE DEF r, t, s
      <3> QED BY <2>2, <2>3, ConcatEmptySeq
    <2>6. s = pq \o r
      BY <2>2, <2>3, <2>4
    <2> DEFINE q == m
    <2>7. q \in Seq(Bytes) /\ pq = none \o q
      BY <1>1
    <2> HIDE DEF s, t, r, pq, q, none
    <2>8. OneStretchLess(s, t)
      BY <1>7, <2>3, <2>5, <2>6, <2>7, CutOut
    <2> QED BY <2>8 DEF s, t
  <1>9. (deaths + relaunches)' = deaths + relaunches + 1
    BY <1>2 DEF CommandInv
  <1> QED BY <1>2, <1>4, <1>8, <1>9 DEF OneStretchLess, Contract!Lose, Contract!After

\* The master takes bytes from the socket, and the lines that are whole then.
LEMMA MasterReadsStep ==
    ASSUME CommandInv, MasterReads
    PROVE  CommandInv' /\ (Contract!Arrive \/ UNCHANGED <<OnTheWay, processed, deaths + relaunches>>)
  <1> DEFINE m == Contents(master_ioc)
             w == Contents(worker_ioc)
             k == Taken(master_ioc, socket)
             taken == SubSeq(socket, 1, k)
             left == SubSeq(socket, k + 1, Len(socket))
             read == iocache_read(master_ioc, socket)
             after == AllLines(read, processed)
             end == after.ioc.offset
             lines == SubSeq(read.buf, read.offset + 1, end)
             rest == Contents(after.ioc)
             stream == OnTheWay'
  <1>1. /\ fifo \in Seq(Bytes) /\ socket \in Seq(Bytes) /\ processed \in Seq(Bytes)
        /\ m \in Seq(Bytes) /\ w \in Seq(Bytes) /\ Fits(master_ioc)
    BY ContentsType DEF CommandInv
  <1>2. /\ socket' = left /\ master_ioc' = after.ioc /\ processed' = after.done
        /\ UNCHANGED <<fifo, ends, worker_ioc, deaths, relaunches>>
    <2>1. ends # {}
      BY DEF CommandInv
    <2> HIDE DEF after, left
    <2> QED BY <2>1 DEF MasterReads, after, left
  <1>3. k \in 0..Len(socket) /\ Fits(read) /\ Contents(read) = m \o taken
    BY <1>1, ReadAppends
  <1>4. /\ Fits(after.ioc) /\ Newlines(after.ioc) = {} /\ after.ioc.buf = read.buf
        /\ end \in read.offset..Len(read.buf)
        /\ end # read.offset => read.buf[end] = Newline
        /\ after.done = processed \o lines
    <2> HIDE DEF read
    <2> QED BY <1>1, <1>3, LoopTakesLines
  <1>5. taken \in Seq(Bytes) /\ left \in Seq(Bytes) /\ taken \o left = socket
    BY <1>1, <1>3, SplitAt
  <1> HIDE DEF after, read, lines, rest, end
  <1>6. /\ read.buf \in Seq(Bytes) /\ read.offset \in Nat /\ Len(read.buf) \in Nat
        /\ read.offset <= Len(read.buf)
        /\ end \in Nat /\ read.offset <= end /\ end <= Len(read.buf)
    BY <1>3, <1>4 DEF Fits, Caches
  <1>7. lines \in Seq(Bytes) /\ Len(lines) = end - read.offset
        /\ \A i \in 1..Len(lines) : lines[i] = read.buf[read.offset + i]
    <2> DEFINE from == read.offset + 1
    <2>1. from \in Int /\ end \in Int /\ end - from + 1 = end - read.offset
          /\ (from <= end <=> end - read.offset > 0)
          /\ \A i \in Nat : from + i - 1 = read.offset + i
          /\ end - read.offset \in Nat
      <3> DEFINE o == read.offset
      <3>1. o \in Nat /\ end \in Nat /\ o <= end
        BY <1>6
      <3> HIDE DEF o
      <3>2. /\ (o + 1) \in Int /\ end \in Int /\ end - (o + 1) + 1 = end - o
            /\ (o + 1 <= end <=> end - o > 0)
            /\ end - o \in Nat
        BY <3>1
      <3>3. \A i \in Nat : (o + 1) + i - 1 = o + i
        BY <3>1
      <3> QED BY <3>2, <3>3 DEF o
    <2>2. \A i \in from..end : read.buf[i] \in Bytes
      <3>1. \A i \in 1..Len(read.buf) : read.buf[i] \in Bytes
        BY <1>6
      <3>2. \A i \in (read.offset + 1)..end : i \in 1..Len(read.buf)
        BY <1>6
      <3> QED BY <3>1, <3>2
    <2> HIDE DEF from
    <2>4. /\ SubSeq(read.buf, from, end) \in Seq(Bytes)
          /\ Len(SubSeq(read.buf, from, end)) = IF from <= end THEN end - from + 1 ELSE 0
          /\ \A i \in 1..(end - from + 1) : SubSeq(read.buf, from, end)[i] = read.buf[from + i - 1]
      BY <2>1, <2>2, SubSeqProperties
    <2> QED BY <2>1, <2>4 DEF from, lines
  <1>8. rest \in Seq(Bytes)
    BY <1>4, ContentsType DEF rest
  <1>9. lines \o rest = m \o taken
    <2>1. rest = SubSeq(read.buf, end + 1, Len(read.buf))
      BY <1>4 DEF Contents, rest, end
    <2>2. /\ read.offset + 1 \in 1..(Len(read.buf) + 1)
          /\ end \in ((read.offset + 1) - 1)..Len(read.buf) /\ Len(read.buf) \in end..Len(read.buf)
      BY <1>6
    <2>3. lines \o SubSeq(read.buf, end + 1, Len(read.buf))
              = SubSeq(read.buf, read.offset + 1, Len(read.buf))
      BY <1>6, <2>2, ConcatAdjacentSubSeq DEF lines
    <2> QED BY <1>3, <2>1, <2>3 DEF Contents
  <1> HIDE DEF taken, left, m, w
  <1>10. m \o socket = lines \o (rest \o left) /\ rest \o left \in Seq(Bytes)
    <2> DEFINE front == m \o taken
    <2>1. m \in Seq(Bytes) /\ taken \in Seq(Bytes) /\ left \in Seq(Bytes)
      BY <1>1, <1>5, Zenon
    <2>2. front \o left = m \o socket
      <3>1. front = m \o taken /\ socket = taken \o left
        BY <1>5, Zenon
      <3> HIDE DEF front
      <3>2. front \o left = m \o socket
        BY <2>1, <3>1, Associates, SMTT(30)
      <3> QED BY <3>2 DEF front
    <2>3. lines \in Seq(Bytes) /\ rest \in Seq(Bytes) /\ left \in Seq(Bytes)
      BY <1>5, <1>7, <1>8, Zenon
    <2>4. front = lines \o rest
      BY <1>9, Zenon
    <2> DEFINE back == rest \o left
    <2>5. front \o left = lines \o back /\ back \in Seq(Bytes)
      <3>1. back = rest \o left
        OBVIOUS
      <3> HIDE DEF front, back
      <3> QED BY <2>3, <2>4, <3>1, Associates, SMTT(30)
    <2> QED BY <2>2, <2>5, Zenon
  <1>11. stream = ((rest \o left) \o w) \o fifo
    <2>1. Contents(master_ioc)' = rest
      BY <1>2 DEF Contents, rest
    <2>2. Contents(worker_ioc)' = w
      BY <1>2 DEF Contents, w
    <2> QED BY <1>2, <2>1, <2>2 DEF OnTheWay
  <1> HIDE DEF stream
  <1>12. OnTheWay = lines \o stream /\ stream \in Seq(Bytes)
    <2> DEFINE q == rest \o left
               lq == lines \o q
               lqw == lq \o w
               qw == q \o w
               qwf == qw \o fifo
    <2>1. OnTheWay = lqw \o fifo
      BY <1>10, Zenon DEF OnTheWay, m, w
    <2>2. q \in Seq(Bytes) /\ stream = qwf
      BY <1>10, <1>11, Zenon
    <2>3. lq = lines \o q /\ qw = q \o w
      OBVIOUS
    <2>4. lqw = lq \o w /\ qwf = qw \o fifo
      OBVIOUS
    <2> HIDE DEF q, lq, lqw, qw, qwf
    <2>5. lq \o w = lines \o qw /\ qw \in Seq(Bytes)
      <3>1. lines \in Seq(Bytes) /\ q \in Seq(Bytes) /\ w \in Seq(Bytes)
        BY <1>1, <1>7, <2>2, Zenon
      <3> QED BY <2>3, <3>1, Associates, SMTT(30)
    <2>6. lqw \o fifo = lines \o qwf /\ qwf \in Seq(Bytes)
      <3>1. lines \in Seq(Bytes) /\ qw \in Seq(Bytes) /\ fifo \in Seq(Bytes)
        BY <1>1, <1>7, <2>5, Zenon
      <3>2. lqw = lines \o qw /\ qwf = qw \o fifo
        BY <2>4, <2>5, Zenon
      <3> QED BY <3>1, <3>2, Associates, SMTT(30)
    <2> QED BY <2>1, <2>2, <2>6, Zenon
  <1>13. CommandInv'
    <2>1. processed' \in Seq(Bytes)
      BY <1>1, <1>2, <1>4, <1>7
    <2>2. Newlines(master_ioc)' = {} /\ Fits(master_ioc') /\ Fits(worker_ioc')
      BY <1>2, <1>4 DEF CommandInv, Newlines
    <2>3. fifo' = fifo /\ ends' = ends /\ deaths' = deaths /\ relaunches' = relaunches
          /\ alive' = alive /\ socket' \in Seq(Bytes)
      BY <1>2, <1>5 DEF alive
    <2> QED BY <2>1, <2>2, <2>3 DEF CommandInv
  <1>14. SubSeq(OnTheWay, 1, Len(lines)) = lines
         /\ SubSeq(OnTheWay, Len(lines) + 1, Len(OnTheWay)) = stream
         /\ \A i \in 1..Len(lines) : OnTheWay[i] = lines[i]
    BY <1>7, <1>12, TwoParts, SMTT(30)
  <1>15. CASE end = read.offset
    <2>1. lines = <<>>
      <3>1. Len(lines) = 0
        BY <1>6, <1>7, <1>15
      <3> QED BY <1>7, <3>1, EmptySeq
    <2>2. OnTheWay' = OnTheWay
      BY <1>12, <2>1, ConcatEmptySeq DEF stream
    <2>3. processed' = processed
      BY <1>1, <1>2, <1>4, <2>1, ConcatEmptySeq
    <2> QED BY <1>2, <1>13, <2>2, <2>3
  <1>16. CASE end # read.offset
    <2>1. Len(lines) \in 1..Len(lines) /\ read.offset + Len(lines) = end
      BY <1>4, <1>6, <1>7, <1>16
    <2>2. OnTheWay[Len(lines)] = Newline
      BY <1>4, <1>7, <1>14, <1>16, <2>1
    <2>3. Len(lines) \in DOMAIN OnTheWay
      <3>1. Len(OnTheWay) = Len(lines) + Len(stream) /\ OnTheWay \in Seq(Bytes)
        <4>1. lines \in Seq(Bytes) /\ stream \in Seq(Bytes)
          BY <1>7, <1>12, Zenon
        <4> QED BY <1>12, <4>1, ConcatProperties
      <3> QED BY <1>12, <2>1, <3>1
    <2>4. processed' = processed \o SubSeq(OnTheWay, 1, Len(lines))
      BY <1>2, <1>4, <1>14
    <2>5. OnTheWay' = SubSeq(OnTheWay, Len(lines) + 1, Len(OnTheWay))
      BY <1>14 DEF stream
    <2> QED BY <1>2, <1>13, <2>2, <2>3, <2>4, <2>5 DEF Contract!Arrive, Contract!After
  <1> QED BY <1>15, <1>16

LEMMA CommandInit ==
    ASSUME Init
    PROVE  CommandInv /\ Contract!Init
  <1>1. /\ fifo = <<>> /\ socket = <<>> /\ processed = <<>> /\ ends = Processes
        /\ worker_ioc = iocache_create(WorkerSize) /\ master_ioc = iocache_create(MasterSize)
        /\ deaths = 0 /\ relaunches = 0
    BY DEF Init, Launched
  <1>2. /\ Fits(worker_ioc) /\ Contents(worker_ioc) = <<>>
        /\ Fits(master_ioc) /\ Contents(master_ioc) = <<>> /\ Newlines(master_ioc) = {}
    BY <1>1, CreatedFits, CommandConstants
  <1>3. alive /\ "master" \in ends /\ ends \subseteq Processes
    BY <1>1 DEF alive, Processes
  <1>4. 0 \in 0..MaxDeaths
    BY CommandConstants
  <1>5. fifo \in Seq(Bytes) /\ socket \in Seq(Bytes) /\ processed \in Seq(Bytes)
    BY <1>1, EmptySeq
  <1>6. OnTheWay = <<>>
    <2> DEFINE none == <<>>
    <2>1. none \in Seq(Bytes)
      BY EmptySeq
    <2>2. none \o none = none
      <3> HIDE DEF none
      <3> QED BY <2>1, ConcatEmptySeq DEF none
    <2>3. OnTheWay = ((none \o none) \o none) \o none
      BY <1>1, <1>2, Zenon DEF OnTheWay
    <2> HIDE DEF none
    <2>4. OnTheWay = none
      BY <2>2, <2>3, Zenon
    <2> QED BY <2>4 DEF none
  <1> QED BY <1>1, <1>2, <1>3, <1>4, <1>5, <1>6 DEF CommandInv, Contract!Init

\* One step of the specification keeps the invariant, and is a step of the contract
\* or leaves what the contract speaks of alone.
LEMMA CommandStep ==
    ASSUME CommandInv, [Next]_vars
    PROVE  CommandInv' /\ [Contract!Next]_<<OnTheWay, processed, deaths + relaunches>>
  <1>1. ASSUME NEW line \in Lines, Submit(line)
        PROVE  CommandInv' /\ Contract!Next
    BY <1>1, SubmitStep DEF Contract!Next
  <1>2. ASSUME WorkerReads
        PROVE  CommandInv' /\ UNCHANGED <<OnTheWay, processed, deaths + relaunches>>
    <2>1. UNCHANGED <<processed, deaths, relaunches>>
      BY <1>2 DEF WorkerReads
    <2> QED BY <1>2, <2>1, WorkerReadsStep
  <1>3. ASSUME NEW n \in 1..SocketSize, WorkerWrites(n)
        PROVE  CommandInv' /\ UNCHANGED <<OnTheWay, processed, deaths + relaunches>>
    <2>1. UNCHANGED <<processed, deaths, relaunches>>
      BY <1>3 DEF WorkerWrites
    <2> QED BY <1>3, <2>1, WorkerWritesStep
  <1>4. ASSUME WorkerDies
        PROVE  CommandInv' /\ Contract!Next
    BY <1>4, WorkerDiesStep DEF Contract!Next
  <1>5. ASSUME MasterReads
        PROVE  CommandInv' /\ [Contract!Next]_<<OnTheWay, processed, deaths + relaunches>>
    BY <1>5, MasterReadsStep DEF Contract!Next
  <1>6. ASSUME Restart
        PROVE  CommandInv' /\ Contract!Next
    BY <1>6, RelaunchedStep DEF Restart, Contract!Next
  <1>7. ASSUME UNCHANGED vars
        PROVE  CommandInv' /\ UNCHANGED <<OnTheWay, processed, deaths + relaunches>>
    BY <1>7 DEF vars, CommandInv, alive, OnTheWay, Fits, Newlines, Contents
  <1> QED BY <1>1, <1>2, <1>3, <1>4, <1>5, <1>6, <1>7 DEF Next, WorkerStep

\* At all times both buffers are used no further than they are filled, the master holds
\* its end of the socket and no whole line, and a worker is missing exactly when one
\* more died than was replaced (command_file_worker, command_input_handler).
THEOREM CommandInvariant == Spec => []CommandInv
  <1>1. Init => CommandInv
    BY CommandInit
  <1>2. CommandInv /\ [Next]_vars => CommandInv'
    BY CommandStep
  <1> QED BY <1>1, <1>2, PTL DEF Spec

\* Every variable of the command file has its type, neither buffer is used further than
\* it is filled or filled beyond its memory, and between two calls of
\* command_input_handler there is no whole line in its buffer.
THEOREM CommandTypes == Spec => []TypeOK
  <1>1. CommandInv => TypeOK
    <2> SUFFICES ASSUME CommandInv PROVE TypeOK
      OBVIOUS
    <2>1. DelimAt(master_ioc, <<Newline>>) = 0
      BY ScanFinds DEF CommandInv
    <2>2. relaunches \in 0..deaths
      BY DEF CommandInv
    <2>3. \A ioc \in {worker_ioc, master_ioc} :
              /\ ioc \in Caches
              /\ ioc.offset <= Len(ioc.buf) /\ Len(ioc.buf) <= ioc.bufsize
      BY DEF CommandInv, Fits
    <2> QED BY <2>1, <2>2, <2>3 DEF CommandInv, TypeOK
  <1> QED BY <1>1, CommandInvariant, PTL

\* The command file keeps its contract, for lines, buffers, a pipe and a socket of any
\* size: no byte is lost, repeated or out of order on the way through the worker's
\* buffer, the socket and the master's buffer, except one stretch when the worker dies
\* and one when it is replaced (command_file_worker, command_input_handler,
\* iocache_read, iocache_use_delim).
THEOREM CommandImplementsContract == Spec => ImplementsContract
  <1>1. Init => Contract!Init
    BY CommandInit
  <1>2. CommandInv /\ [Next]_vars => [Contract!Next]_<<OnTheWay, processed, deaths + relaunches>>
    BY CommandStep
  <1> QED BY <1>1, <1>2, CommandInvariant, PTL DEF Spec, ImplementsContract, Contract!Spec, Contract!vars

=============================================================================
