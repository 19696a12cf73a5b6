----------------------------- MODULE BoardProofs -----------------------------
(***************************************************************************)
(* What the run over the board checks, for any number of columns, options, *)
(* tasks, locations and requests: positions stay dense, tasks keep a       *)
(* column, and bookings that move with their location take their tasks.    *)
(***************************************************************************)
EXTENDS MCBoard, TLAPS, FiniteSetTheorems, SequenceTheorems

-----------------------------------------------------------------------------
(* Lists with positions.                                                       *)

\* Sequences that name a row once.
Orders(S) == {s \in Seq(S) : IsInjective(s)}

LEMMA FunctionIsSeq ==
  ASSUME NEW n \in Nat, NEW S, NEW s \in [1..n -> S] PROVE s \in Seq(S) /\ Len(s) = n
<1>1. s \in Seq(S)
  BY SeqDef
<1>2. Len(s) \in Nat /\ DOMAIN s = 1..Len(s) /\ DOMAIN s = 1..n
  BY <1>1, LenProperties
<1> QED
  BY <1>1, <1>2

\* As many values as arguments, each from one argument: all of them occur.
LEMMA InjectionFills ==
  ASSUME NEW D, NEW T, IsFiniteSet(D), IsFiniteSet(T), Cardinality(D) = Cardinality(T),
         NEW f \in [D -> T], IsInjective(f)
  PROVE  Range(f) = T
<1>1. f \in Injection(D, T)
  BY DEF Injection
<1>2. f \in Surjection(D, T)
  BY <1>1, FS_Injection
<1> QED
  BY <1>2 DEF Surjection, Range

\* An order names as many rows as it is long.
LEMMA OrderCounts ==
  ASSUME NEW S, NEW s \in Orders(S)
  PROVE  /\ Len(s) \in Nat /\ DOMAIN s = 1..Len(s) /\ Range(s) \subseteq S
         /\ IsFiniteSet(Range(s)) /\ Cardinality(Range(s)) = Len(s)
<1>1. Len(s) \in Nat /\ DOMAIN s = 1..Len(s) /\ s \in [1..Len(s) -> S] /\ IsInjective(s)
  BY LenProperties DEF Orders
<1>2. s \in Bijection(1..Len(s), Range(s))
  BY <1>1 DEF Bijection, Injection, Surjection, Range
<1>3. IsFiniteSet(1..Len(s)) /\ Cardinality(1..Len(s)) = Len(s)
  BY <1>1, FS_Interval
<1>4. IsFiniteSet(Range(s)) /\ Cardinality(Range(s)) = Len(s)
  BY <1>2, <1>3, FS_Bijection DEF ExistsBijection
<1> QED
  BY <1>1, <1>4 DEF Range

\* In a finite set of numbers each has as many below it as its rank says, so
\* that the set can be listed in ascending order.
LEMMA AscendingExists ==
  ASSUME NEW N \in SUBSET Nat, IsFiniteSet(N)
  PROVE  \E s \in [1..Cardinality(N) -> N] : \A i, j \in DOMAIN s : i < j => s[i] < s[j]
<1> DEFINE n == Cardinality(N)
           Below(x) == {y \in N : y < x}
           rank == [x \in N |-> Cardinality(Below(x)) + 1]
<1>1. n \in Nat /\ IsFiniteSet(1..n) /\ Cardinality(1..n) = n /\ \A x \in N : x \in Nat
  <2>1. n \in Nat
    BY FS_CardinalityType
  <2> QED
    BY <2>1, FS_Interval
<1>2. \A x \in N : IsFiniteSet(Below(x)) /\ Cardinality(Below(x)) \in Nat
  BY FS_Subset, FS_CardinalityType
<1>3. ASSUME NEW x \in N PROVE Cardinality(Below(x)) < n
  <2>1. Below(x) \in SUBSET N /\ Below(x) # N
    OBVIOUS
  <2> QED
    BY <1>1, <1>2, <2>1, FS_Subset
<1>4. ASSUME NEW x \in N, NEW y \in N, x < y PROVE rank[x] < rank[y]
  <2>1. Below(x) \in SUBSET Below(y) /\ x \in Below(y) \ Below(x)
    <3>1. \A z \in N : z < x => z < y
      BY <1>1, <1>4
    <3>2. x \in Below(y) /\ x \notin Below(x)
      BY <1>1, <1>4
    <3> QED
      BY <3>1, <3>2
  <2>2. Cardinality(Below(x)) <= Cardinality(Below(y)) /\ Cardinality(Below(x)) # Cardinality(Below(y))
    BY <1>2, <2>1, FS_Subset
  <2> QED
    BY <1>2, <2>2
<1>5. rank \in [N -> 1..n]
  BY <1>1, <1>2, <1>3
<1>6. IsInjective(rank)
  <2>1. ASSUME NEW x \in N, NEW y \in N, rank[x] = rank[y] PROVE x = y
    <3> HIDE DEF rank
    <3>1. rank[x] \in Int /\ rank[y] \in Int
      BY <1>5
    <3> QED
      BY <1>4, <2>1, <3>1
  <2> HIDE DEF rank
  <2> QED
    BY <1>5, <2>1 DEF IsInjective
<1>7. Range(rank) = 1..n
  BY <1>1, <1>5, <1>6, InjectionFills
<1> HIDE DEF rank, n
<1> DEFINE s == [i \in 1..n |-> CHOOSE x \in N : rank[x] = i]
<1>8. \A i \in 1..n : s[i] \in N /\ rank[s[i]] = i
  BY <1>5, <1>7 DEF Range
<1>9. \A i, j \in 1..n : i < j => s[i] < s[j]
  <2> SUFFICES ASSUME NEW i \in 1..n, NEW j \in 1..n, i < j, ~(s[i] < s[j]) PROVE FALSE
    OBVIOUS
  <2>1. s[i] \in N /\ s[j] \in N /\ rank[s[i]] = i /\ rank[s[j]] = j
    BY <1>8
  <2> HIDE DEF s
  <2>4. s[i] \in Nat /\ s[j] \in Nat
    BY <1>1, <2>1
  <2>2. s[j] < s[i] \/ s[j] = s[i]
    BY <2>4
  <2>3. i \in Int /\ j \in Int
    BY <1>1
  <2>5. s[j] < s[i] => rank[s[j]] < rank[s[i]]
    BY <1>4, <2>1
  <2> QED
    BY <2>1, <2>2, <2>3, <2>5
<1> QED
  BY <1>8, <1>9 DEF n

LEMMA AscendingSorts ==
  ASSUME NEW N \in SUBSET Nat, IsFiniteSet(N)
  PROVE  /\ Ascending(N) \in Orders(N) /\ Range(Ascending(N)) = N
         /\ Ascending(N) \in [1..Cardinality(N) -> N]
<1> DEFINE s == Ascending(N)
           n == Cardinality(N)
<1>1. n \in Nat /\ IsFiniteSet(1..n) /\ Cardinality(1..n) = n
  BY FS_CardinalityType, FS_Interval
<1>2. s \in [1..n -> N] /\ \A i, j \in DOMAIN s : i < j => s[i] < s[j]
  BY AscendingExists DEF Ascending
<1> HIDE DEF s
<1>3. IsInjective(s)
  <2> SUFFICES ASSUME NEW i \in 1..n, NEW j \in 1..n, s[i] = s[j], i # j PROVE FALSE
    BY <1>2 DEF IsInjective
  <2>1. i < j \/ j < i
    BY <1>1
  <2>2. s[i] \in Nat /\ s[j] \in Nat
    BY <1>2
  <2> QED
    BY <1>2, <2>1, <2>2
<1>4. Range(s) = N
  BY <1>1, <1>2, <1>3, InjectionFills
<1>5. s \in Seq(N)
  BY <1>1, <1>2, FunctionIsSeq
<1> QED
  BY <1>2, <1>3, <1>4, <1>5 DEF s, Orders

\* ORDER BY position names each row once.
LEMMA InOrderIsOrder ==
  ASSUME NEW S, IsFiniteSet(S), NEW list \in [S -> Nat], IsInjective(list)
  PROVE  InOrder(list) \in Orders(S) /\ Range(InOrder(list)) = S
<1> DEFINE N == Range(list)
           at == Ascending(N)
<1>1. N \in SUBSET Nat /\ list \in Bijection(S, N)
  BY DEF Range, Bijection, Injection, Surjection
<1>2. IsFiniteSet(N) /\ Cardinality(N) \in Nat
  BY <1>1, FS_Bijection, FS_CardinalityType DEF ExistsBijection
<1>3. at \in Orders(N) /\ Range(at) = N /\ at \in [1..Cardinality(N) -> N]
  BY <1>1, <1>2, AscendingSorts
<1> HIDE DEF at
<1> DEFINE s == [i \in DOMAIN at |-> CHOOSE row \in DOMAIN list : list[row] = at[i]]
<1>4. \A i \in DOMAIN at : s[i] \in S /\ list[s[i]] = at[i]
  BY <1>3 DEF Range
<1>5. s \in [1..Cardinality(N) -> S]
  BY <1>3, <1>4
<1>6. IsInjective(s)
  BY <1>3, <1>4, <1>5 DEF IsInjective, Orders
<1>7. Range(s) = S
  <2>1. ASSUME NEW row \in S PROVE \E i \in DOMAIN at : s[i] = row
    <3>1. PICK i \in DOMAIN at : at[i] = list[row]
      BY <1>3 DEF Range
    <3> QED
      BY <1>4, <3>1 DEF IsInjective
  <2>2. DOMAIN s = DOMAIN at /\ \A i \in DOMAIN s : s[i] \in S
    BY <1>3, <1>4, <1>5
  <2> HIDE DEF s
  <2> QED
    BY <2>1, <2>2 DEF Range
<1>8. s \in Seq(S)
  BY <1>2, <1>5, FunctionIsSeq
<1> HIDE DEF s
<1> QED
  BY <1>6, <1>7, <1>8 DEF Orders, InOrder, s, at

\* What is left of an order is an order.
LEMMA KeptIsOrder ==
  ASSUME NEW S, NEW order \in Orders(S), NEW rows
  PROVE  Kept(order, rows) \in Orders(S) /\ Range(Kept(order, rows)) = Range(order) \cap rows
<1> DEFINE N == {i \in DOMAIN order : order[i] \in rows}
           at == Ascending(N)
<1>1. Len(order) \in Nat /\ DOMAIN order = 1..Len(order) /\ order \in [1..Len(order) -> S]
      /\ IsInjective(order)
  BY LenProperties DEF Orders
<1>2. N \in SUBSET Nat /\ IsFiniteSet(N) /\ Cardinality(N) \in Nat
  <2>1. IsFiniteSet(1..Len(order)) /\ N \in SUBSET (1..Len(order))
    BY <1>1, FS_Interval
  <2>2. IsFiniteSet(N)
    BY <2>1, FS_Subset
  <2> QED
    BY <1>1, <2>1, <2>2, FS_CardinalityType
<1>3. at \in Orders(N) /\ Range(at) = N /\ at \in [1..Cardinality(N) -> N]
  BY <1>2, AscendingSorts
<1> HIDE DEF at
<1> DEFINE s == [i \in DOMAIN at |-> order[at[i]]]
<1>4. s \in [1..Cardinality(N) -> S]
  BY <1>1, <1>3
<1>5. IsInjective(s)
  BY <1>1, <1>3, <1>4 DEF IsInjective, Orders
<1>6. Range(s) = Range(order) \cap rows
  <2>1. Range(s) \subseteq Range(order) \cap rows
    BY <1>1, <1>3 DEF Range
  <2>2. ASSUME NEW row \in Range(order) \cap rows PROVE row \in Range(s)
    <3>1. PICK k \in N : order[k] = row
      BY DEF Range
    <3>2. PICK i \in DOMAIN at : at[i] = k
      BY <1>3 DEF Range
    <3> QED
      BY <3>1, <3>2 DEF Range
  <2> QED
    BY <2>1, <2>2
<1>7. s \in Seq(S)
  BY <1>2, <1>4, FunctionIsSeq
<1> HIDE DEF s
<1> QED
  BY <1>5, <1>6, <1>7 DEF Orders, Kept, s, at

LEMMA SplicedIsOrder ==
  ASSUME NEW S, NEW order \in Orders(S), NEW after \in Nat, NEW row \in S, row \notin Range(order)
  PROVE  /\ Spliced(order, after, row) \in Orders(S)
         /\ Range(Spliced(order, after, row)) = Range(order) \cup {row}
<1> DEFINE n == Len(order)
           at == IF after > n THEN n ELSE after
           s == [i \in 1..(n + 1) |-> IF i <= at THEN order[i]
                                      ELSE IF i = at + 1 THEN row ELSE order[i - 1]]
<1>1. n \in Nat /\ DOMAIN order = 1..n /\ order \in [1..n -> S] /\ IsInjective(order)
  BY LenProperties DEF Orders
<1>2. at \in 0..n
  BY <1>1
<1> HIDE DEF n, at
<1>3. s \in [1..(n + 1) -> S]
  BY <1>1, <1>2
<1>4. \A i \in 1..n : order[i] # row
  BY <1>1 DEF Range
<1>5. IsInjective(s)
  BY <1>1, <1>2, <1>3, <1>4 DEF IsInjective
<1>6. Range(s) = Range(order) \cup {row}
  <2>1. Range(s) \subseteq Range(order) \cup {row}
    BY <1>1, <1>2, <1>3 DEF Range
  <2>2. s[at + 1] = row /\ at + 1 \in DOMAIN s
    BY <1>1, <1>2
  <2>3. ASSUME NEW i \in 1..n PROVE order[i] \in Range(s)
    <3>1. CASE i <= at
      BY <1>1, <1>2, <1>3, <3>1 DEF Range
    <3>2. CASE i > at
      <4>1. i + 1 \in 1..(n + 1) /\ s[i + 1] = order[i]
        BY <1>1, <1>2, <3>2
      <4> QED
        BY <1>3, <4>1 DEF Range
    <3> QED
      BY <1>1, <1>2, <3>1, <3>2
  <2> QED
    BY <1>1, <1>3, <2>1, <2>2, <2>3 DEF Range
<1>7. s \in Seq(S)
  BY <1>1, <1>3, FunctionIsSeq
<1>8. Spliced(order, after, row) = s
  BY DEF Spliced, n, at
<1> HIDE DEF s
<1> QED
  BY <1>5, <1>6, <1>7, <1>8 DEF Orders

\* Writing the order 0, 1, ... over some rows keeps the positions unique when
\* it collides with no other row, ...
LEMMA PersistedKeepsUnique ==
  ASSUME NEW D, NEW list \in [D -> Nat], IsInjective(list), NEW order \in Orders(D),
         Persistable(list, order)
  PROVE  Persisted(list, order) \in [D -> Nat] /\ IsInjective(Persisted(list, order))
<1> DEFINE at == [row \in Range(order) |-> CHOOSE i \in DOMAIN order : order[i] = row]
           p == [row \in D |-> IF row \in Range(order) THEN at[row] - 1 ELSE list[row]]
<1>1. Len(order) \in Nat /\ DOMAIN order = 1..Len(order) /\ Range(order) \subseteq D
  BY OrderCounts
<1>2. \A row \in Range(order) : at[row] \in DOMAIN order /\ order[at[row]] = row
  BY DEF Range
<1>3. p = Persisted(list, order)
  BY DEF Persisted
<1> HIDE DEF at
<1>4. p \in [D -> Nat]
  BY <1>1, <1>2
<1>5. \A row \in Range(order) : p[row] = at[row] - 1
  BY <1>1
<1>6. \A row \in D \ Range(order) : p[row] = list[row] /\ list[row] \in Others(list, order)
  BY DEF Others
<1> HIDE DEF p
<1>7. ASSUME NEW a \in D, NEW b \in D, p[a] = p[b] PROVE a = b
  <2>1. CASE a \in Range(order) /\ b \in Range(order)
    <3>1. at[a] \in Int /\ at[b] \in Int
      BY <1>1, <1>2, <2>1
    <3>2. at[a] = at[b]
      BY <1>5, <1>7, <2>1, <3>1
    <3> QED
      BY <1>2, <2>1, <3>2
  <2>2. CASE a \notin Range(order) /\ b \notin Range(order)
    BY <1>6, <1>7, <2>2 DEF IsInjective
  <2>3. ASSUME NEW x \in Range(order), NEW y \in D \ Range(order), p[x] = p[y] PROVE FALSE
    <3>1. at[x] \in DOMAIN order /\ at[x] - 1 = list[y]
      BY <1>2, <1>5, <1>6, <2>3
    <3> QED
      BY <1>6, <3>1 DEF Persistable
  <2> QED
    BY <1>7, <2>1, <2>2, <2>3
<1> QED
  BY <1>3, <1>4, <1>7 DEF IsInjective

\* ... dense when it names every row, ...
LEMMA PersistedAllIsDense ==
  ASSUME NEW D, IsFiniteSet(D), NEW list \in [D -> Nat], NEW order \in Orders(D), D \subseteq Range(order)
  PROVE  Dense(Persisted(list, order))
<1> DEFINE n == Len(order)
           p == Persisted(list, order)
<1>1. n \in Nat /\ DOMAIN order = 1..n /\ Range(order) = D /\ Cardinality(D) = n
  BY OrderCounts
<1>2. DOMAIN p = D
  BY DEF Persisted
<1>3. \A row \in D : p[row] = (CHOOSE i \in DOMAIN order : order[i] = row) - 1
  BY <1>1 DEF Persisted
<1>4. \A row \in D : \E i \in 1..n : order[i] = row /\ p[row] = i - 1
  BY <1>1, <1>3 DEF Range
<1> HIDE DEF p, n
<1>5. \A i \in 1..n : order[i] \in D /\ p[order[i]] = i - 1
  <2> SUFFICES ASSUME NEW i \in 1..n PROVE order[i] \in D /\ p[order[i]] = i - 1
    OBVIOUS
  <2>1. order[i] \in D
    BY <1>1 DEF Range
  <2>2. PICK j \in 1..n : order[j] = order[i] /\ p[order[i]] = j - 1
    BY <1>4, <2>1
  <2> QED
    BY <1>1, <2>1, <2>2 DEF Orders, IsInjective
<1>6. Range(p) \subseteq 0..(n - 1)
  BY <1>1, <1>2, <1>4 DEF Range
<1>7. ASSUME NEW k \in 0..(n - 1) PROVE k \in Range(p)
  <2>1. k + 1 \in 1..n
    BY <1>1
  <2> QED
    BY <1>1, <1>2, <1>5, <2>1 DEF Range
<1> QED
  BY <1>1, <1>2, <1>6, <1>7 DEF Dense, p

\* A dense list has its positions once each.
LEMMA DenseFills ==
  ASSUME NEW D, IsFiniteSet(D), NEW list \in [D -> Nat], IsInjective(list),
         \A row \in D : list[row] < Cardinality(D)
  PROVE  Dense(list)
<1> DEFINE n == Cardinality(D)
           T == 0..(n - 1)
<1>1. n \in Nat
  BY FS_CardinalityType
<1>2. IsFiniteSet(T) /\ Cardinality(T) = n
  BY <1>1, FS_Interval
<1>3. list \in [D -> T]
  BY <1>1
<1>4. Range(list) = T
  BY <1>2, <1>3, InjectionFills
<1> QED
  BY <1>4 DEF Dense

\* ... and it stays dense when it names some only: the others are behind.
LEMMA PersistedKeepsDense ==
  ASSUME NEW D, IsFiniteSet(D), NEW list \in [D -> Nat], IsInjective(list), NEW order \in Orders(D),
         Persistable(list, order), Dense(list)
  PROVE  Dense(Persisted(list, order))
<1> DEFINE n == Cardinality(D)
           p == Persisted(list, order)
<1>1. n \in Nat /\ \A row \in D : list[row] < n
  BY FS_CardinalityType DEF Dense, Range
<1>2. Len(order) \in Nat /\ DOMAIN order = 1..Len(order) /\ Range(order) \subseteq D
      /\ Cardinality(Range(order)) = Len(order)
  BY OrderCounts
<1>3. Len(order) <= n
  BY <1>2, FS_Subset
<1>4. p \in [D -> Nat] /\ IsInjective(p)
  BY PersistedKeepsUnique
<1>5. \A row \in D : p[row] < n
  <2> SUFFICES ASSUME NEW row \in D PROVE p[row] < n
    OBVIOUS
  <2>1. CASE row \in Range(order)
    <3>1. PICK i \in 1..Len(order) : p[row] = i - 1
      <4>1. p[row] = (CHOOSE i \in DOMAIN order : order[i] = row) - 1
        BY <2>1 DEF Persisted
      <4>2. \E i \in DOMAIN order : order[i] = row
        BY <2>1 DEF Range
      <4> QED
        BY <1>2, <4>1, <4>2
    <3> QED
      BY <1>1, <1>2, <1>3, <3>1
  <2>2. CASE row \notin Range(order)
    <3>1. p[row] = list[row]
      BY <2>2 DEF Persisted
    <3> QED
      BY <1>1, <3>1
  <2> QED
    BY <2>1, <2>2
<1> HIDE DEF p
<1> QED
  BY <1>4, <1>5, DenseFills DEF p

LEMMA OrderIn ==
  ASSUME NEW S, NEW s \in Orders(S), NEW T, Range(s) \subseteq T PROVE s \in Orders(T)
<1>1. Len(s) \in Nat /\ s \in [1..Len(s) -> S] /\ DOMAIN s = 1..Len(s) /\ IsInjective(s)
  BY LenProperties DEF Orders
<1>2. s \in [1..Len(s) -> T]
  BY <1>1 DEF Range
<1> QED
  BY <1>1, <1>2, FunctionIsSeq DEF Orders

-----------------------------------------------------------------------------
(* The board: the columns stay dense, and every task keeps one.                *)

ColumnInv ==
  /\ Stored \subseteq Columns
  /\ position \in [Stored -> Nat] /\ IsInjective(position)
  /\ title \in [Stored -> Titles]
  /\ gap \in BOOLEAN
  /\ BoardStaysDense

TaskRow == [state : {"free", "live", "deleted"},
            column : Columns \cup {NoColumn}, status : Titles \cup {NoTitle}]

TaskInv ==
  /\ task \in [Tasks -> TaskRow]
  /\ \A t \in Tasks : task[t].column \in Stored \cup {NoColumn}
  /\ TasksKeepAColumn

BoardWork == [op : {"idle", "create", "update", "delete", "reorder", "new", "save"},
              column : Columns \cup {NoColumn}, title : Titles \cup {NoTitle}, place : Nat,
              order : Orders(Columns), task : Tasks \cup {NoTask}, stale : BOOLEAN]

\* What a request will write to a task is what the board says, until a change
\* of the columns makes it stale.
Prepared(w, names) ==
  /\ w \in BoardWork
  /\ w.op \in {"create", "update", "delete"} => w.column \in Columns
  /\ w.op = "create" => w.title \in Titles
  /\ w.op \in {"new", "save"} =>
       /\ w.task \in Tasks
       /\ ~w.stale => /\ w.column \in DOMAIN names \cup {NoColumn}
                      /\ w.column = NoColumn <=> DOMAIN names = {}
                      /\ w.title = IF w.column = NoColumn THEN NoTitle ELSE names[w.column]

WorkInv == DOMAIN work = Requests /\ \A r \in Requests : Prepared(work[r], title)

BoardInv == ColumnInv /\ TaskInv /\ WorkInv

LEMMA EmptyOrder == ASSUME NEW S PROVE <<>> \in Orders(S)
BY DEF Orders, IsInjective

LEMMA BoardNumbers == Keep \in Nat /\ IsFiniteSet(Columns) /\ NoColumn \notin Columns
BY TaskBoardAssumption, FS_CardinalityType DEF Keep

LEMMA IdleIsPrepared == ASSUME NEW names PROVE Prepared(Idle, names)
BY EmptyOrder, BoardNumbers DEF Prepared, BoardWork, Idle

LEMMA BoardInit == Init => BoardInv
<1> SUFFICES ASSUME Init PROVE BoardInv
  OBVIOUS
<1>1. Stored = {} /\ position = <<>> /\ title = <<>>
  BY DEF Init, Stored
<1>2. position \in [Stored -> Nat] /\ title \in [Stored -> Titles]
  BY <1>1
<1>3. Dense(position)
  <2>1. Range(position) = {} /\ Cardinality(DOMAIN position) = 0
    BY <1>1, FS_EmptySet DEF Range
  <2> QED
    BY <2>1 DEF Dense
<1>4. ColumnInv
  BY <1>1, <1>2, <1>3 DEF ColumnInv, BoardStaysDense, IsInjective, Init
<1>5. TaskInv
  BY DEF Init, TaskInv, TaskRow, TasksKeepAColumn
<1>6. WorkInv
  BY IdleIsPrepared DEF Init, WorkInv
<1> QED
  BY <1>4, <1>5, <1>6 DEF BoardInv

\* A change of the columns leaves no task that is being written fresh.
LEMMA ChangeKeepsWork ==
  ASSUME BoardInv, NEW r \in Requests, Done(r, TRUE) PROVE WorkInv'
<1> SUFFICES ASSUME NEW q \in Requests PROVE Prepared(work'[q], title')
  BY DEF WorkInv, Done
<1>2. Prepared(work[q], title)
  BY DEF BoardInv, WorkInv
<1>3. CASE q = r
  BY <1>3, IdleIsPrepared DEF Done
<1>4. CASE q # r /\ OnTask(q)
  <2>1. work'[q] = [work[q] EXCEPT !.stale = TRUE]
    BY <1>4 DEF Done
  <2> QED
    BY <1>2, <1>4, <2>1 DEF Prepared, BoardWork, OnTask
<1>5. CASE q # r /\ ~OnTask(q)
  <2>1. work'[q] = work[q]
    BY <1>5 DEF Done
  <2> QED
    BY <1>2, <1>5, <2>1 DEF Prepared, OnTask
<1> QED
  BY <1>3, <1>4, <1>5

LEMMA EndKeepsWork ==
  ASSUME BoardInv, NEW r \in Requests, Done(r, FALSE), UNCHANGED title PROVE WorkInv'
<1>1. DOMAIN work' = Requests /\ \A q \in Requests : work'[q] = IF q = r THEN Idle ELSE work[q]
  BY DEF Done
<1> QED
  BY <1>1, IdleIsPrepared DEF BoardInv, WorkInv

LEMMA StartKeepsBoard ==
  ASSUME BoardInv, NEW r \in Requests, NEW w, Prepared(w, title), Start(r, w) PROVE BoardInv'
<1>1. UNCHANGED <<position, title, task, gap, raced>> /\ work' = [work EXCEPT ![r] = w]
  BY DEF Start
<1>2. ColumnInv' /\ TaskInv'
  BY <1>1 DEF BoardInv, ColumnInv, TaskInv, BoardStaysDense, TasksKeepAColumn, Stored, TitleOf
<1>3. WorkInv'
  BY <1>1 DEF BoardInv, WorkInv
<1> QED
  BY <1>2, <1>3 DEF BoardInv

\* What a request has listed, as far as it is still there.
LEMMA ListedColumns ==
  ASSUME BoardInv, NEW r \in Requests
  PROVE  LET existing == Relisted(work[r].order, position)
         IN existing \in Orders(Stored) /\ Range(existing) = Range(work[r].order) \cap Stored
<1> DEFINE existing == Relisted(work[r].order, position)
<1>1. work[r].order \in Orders(Columns)
  BY DEF BoardInv, WorkInv, Prepared, BoardWork
<1>2. existing \in Orders(Columns) /\ Range(existing) = Range(work[r].order) \cap Stored
  BY <1>1, KeptIsOrder DEF Relisted, Stored
<1> HIDE DEF existing
<1> QED
  BY <1>2, OrderIn DEF existing

LEMMA InOrderOfColumns ==
  ASSUME BoardInv PROVE InOrder(position) \in Orders(Columns) /\ Range(InOrder(position)) = Stored
<1>1. IsFiniteSet(Stored) /\ Stored \subseteq Columns
  BY BoardNumbers, FS_Subset DEF BoardInv, ColumnInv
<1>2. InOrder(position) \in Orders(Stored) /\ Range(InOrder(position)) = Stored
  BY <1>1, InOrderIsOrder DEF BoardInv, ColumnInv
<1> QED
  BY <1>1, <1>2, OrderIn

LEMMA ListColumnsKeeps == ASSUME BoardInv, NEW r \in Requests, ListColumns(r) PROVE BoardInv'
<1> DEFINE s == InOrder(position)
<1>1. s \in Orders(Columns) /\ Stored \subseteq Columns /\ Keep \in Nat /\ 0..Keep \subseteq Nat
  BY InOrderOfColumns, BoardNumbers DEF BoardInv, ColumnInv
<1> HIDE DEF s
<1>2. ASSUME NEW c \in Columns, NEW t \in Titles, NEW p \in 0..Keep
      PROVE  Prepared([Idle EXCEPT !.op = "create", !.column = c, !.title = t, !.place = p, !.order = s], title)
  BY <1>1 DEF Prepared, BoardWork, Idle
<1>3. ASSUME NEW c \in Stored, NEW t \in Titles
      PROVE  Prepared([Idle EXCEPT !.op = "update", !.column = c, !.title = t, !.order = s], title)
  BY <1>1 DEF Prepared, BoardWork, Idle
<1>4. ASSUME NEW c \in Stored, NEW p \in 0..Keep
      PROVE  Prepared([Idle EXCEPT !.op = "update", !.column = c, !.place = p, !.order = s], title)
  BY <1>1 DEF Prepared, BoardWork, Idle
<1>5. ASSUME NEW c \in Stored
      PROVE  Prepared([Idle EXCEPT !.op = "delete", !.column = c, !.order = s], title)
  BY <1>1 DEF Prepared, BoardWork, Idle
<1>6. Prepared([Idle EXCEPT !.op = "reorder", !.order = s], title)
  BY <1>1 DEF Prepared, BoardWork, Idle
<1> QED
  BY <1>2, <1>3, <1>4, <1>5, <1>6, StartKeepsBoard DEF ListColumns, s

\* A column is created behind a list that was the whole, or its position is
\* taken.  The first one takes the tasks that had none.
LEMMA CreateTaskColumnKeeps == ASSUME BoardInv, NEW r \in Requests, CreateTaskColumn(r) PROVE BoardInv'
<1> DEFINE w == work[r]
           existing == Relisted(w.order, position)
           at == InsertPosition(w.place, Len(existing))
           inserted == [c \in Stored \cup {w.column} |->
                          IF c = w.column THEN Len(existing) ELSE position[c]]
           order == Spliced(existing, at, w.column)
           moved == IF existing = <<>>
                    THEN {t \in Tasks : task[t].state # "free" /\ task[t].column = NoColumn}
                    ELSE {}
<1>1. /\ w.op = "create" /\ w.column \notin Stored
      /\ \A c \in Stored : position[c] # Len(existing)
      /\ Persistable(inserted, order)
      /\ position' = Persisted(inserted, order)
      /\ title' = [c \in Stored \cup {w.column} |-> IF c = w.column THEN w.title ELSE title[c]]
      /\ task' = Assigned(moved, w.column, w.title)
      /\ gap' = GapAfter(order)
      /\ raced' = raced \ moved
      /\ Done(r, TRUE)
  BY DEF CreateTaskColumn
<1>2. existing \in Orders(Stored) /\ Len(existing) \in Nat /\ Range(existing) \subseteq Stored
      /\ IsFiniteSet(Range(existing)) /\ Cardinality(Range(existing)) = Len(existing)
  BY ListedColumns, OrderCounts
<1>3. Prepared(w, title) /\ w.column \in Columns /\ w.title \in Titles /\ w.place \in Nat
  BY <1>1 DEF BoardInv, WorkInv, Prepared, BoardWork
<1> HIDE DEF existing
<1>4. at \in Nat
  BY <1>2, <1>3 DEF InsertPosition
<1> HIDE DEF at, w
<1> DEFINE D == Stored \cup {w.column}
<1>5. order \in Orders(D) /\ Range(order) = Range(existing) \cup {w.column}
  <2>1. existing \in Orders(D) /\ w.column \notin Range(existing)
    BY <1>1, <1>2, OrderIn
  <2> QED
    BY <1>4, <2>1, SplicedIsOrder
<1> HIDE DEF order
<1>6. position \in [Stored -> Nat] /\ IsInjective(position) /\ Stored \subseteq Columns
      /\ title \in [Stored -> Titles] /\ gap \in BOOLEAN /\ IsFiniteSet(Stored) /\ IsFiniteSet(D)
  <2>1. Stored \subseteq Columns /\ D \subseteq Columns
    BY <1>3 DEF BoardInv, ColumnInv
  <2> QED
    BY <2>1, BoardNumbers, FS_Subset DEF BoardInv, ColumnInv
<1>7. inserted \in [D -> Nat] /\ IsInjective(inserted)
  <2>1. inserted \in [D -> Nat]
    BY <1>2, <1>6
  <2> QED
    BY <1>1, <1>6, <2>1 DEF IsInjective
<1> HIDE DEF inserted
<1>8. position' \in [D -> Nat] /\ IsInjective(position') /\ Stored' = D
  BY <1>1, <1>5, <1>7, PersistedKeepsUnique DEF Stored
<1>9. BoardStaysDense'
  <2> SUFFICES ASSUME ~gap' PROVE Dense(position')
    BY DEF BoardStaysDense
  <2>1. D \subseteq Range(order)
    <3>1. CASE gap
      BY <1>1, <1>8, <3>1 DEF GapAfter, Stored
    <3>2. CASE ~gap
      <4>1. Range(position) = 0..(Cardinality(Stored) - 1)
        BY <3>2 DEF BoardInv, ColumnInv, BoardStaysDense, Dense, Stored
      <4>2. Len(existing) \notin Range(position)
        BY <1>1 DEF Range, Stored
      <4>3. Cardinality(Stored) \in Nat /\ Cardinality(Range(existing)) <= Cardinality(Stored)
        BY <1>2, <1>6, FS_Subset, FS_CardinalityType
      <4>4. Len(existing) = Cardinality(Stored)
        BY <1>2, <4>1, <4>2, <4>3
      <4>5. Range(existing) = Stored
        BY <1>2, <1>6, <4>4, FS_Subset
      <4> QED
        BY <1>5, <4>5
    <3> QED
      BY <1>6, <3>1, <3>2
  <2> HIDE DEF D
  <2> QED
    BY <1>1, <1>5, <1>6, <1>7, <2>1, PersistedAllIsDense
<1>10. title' \in [D -> Titles] /\ D \subseteq Columns /\ gap' \in BOOLEAN
  BY <1>1, <1>3, <1>6 DEF GapAfter
<1>11. ColumnInv'
  BY <1>8, <1>9, <1>10 DEF ColumnInv
<1>12. TaskInv'
  <2>1. task \in [Tasks -> TaskRow] /\ \A t \in Tasks : task[t].column \in Stored \cup {NoColumn}
    BY DEF BoardInv, TaskInv
  <2>2. \A t \in Tasks : task'[t] = IF t \in moved
                                    THEN [task[t] EXCEPT !.column = w.column, !.status = w.title]
                                    ELSE task[t]
    BY <1>1 DEF Assigned
  <2>3. task' \in [Tasks -> TaskRow]
    BY <1>1, <1>3, <2>1 DEF Assigned, TaskRow
  <2>4. \A t \in Tasks : task'[t].column \in D \cup {NoColumn}
    BY <2>1, <2>2 DEF TaskRow
  <2>5. ASSUME NEW t \in Tasks, task'[t].state # "free", t \notin raced'
        PROVE  task'[t].column # NoColumn /\ task'[t].status = title'[task'[t].column]
    <3>1. CASE t \in moved
      <4>1. task'[t].column = w.column /\ task'[t].status = w.title
        BY <2>1, <2>2, <3>1 DEF TaskRow
      <4> QED
        BY <1>1, <1>3, <4>1, BoardNumbers
    <3>2. CASE t \notin moved
      <4>1. task'[t] = task[t] /\ t \notin raced
        BY <1>1, <2>2, <2>5, <3>2
      <4>2. /\ task[t].column = NoColumn <=> Stored = {}
            /\ task[t].status = TitleOf(task[t].column)
        BY <2>5, <4>1 DEF BoardInv, TaskInv, TasksKeepAColumn
      <4>3. task[t].column # NoColumn
        <5> SUFFICES ASSUME task[t].column = NoColumn PROVE FALSE
          OBVIOUS
        <5>1. Range(existing) = {}
          BY <1>2, <4>2
        <5>2. existing = <<>>
          BY <1>2, <5>1, FS_EmptySet, EmptySeq, LenProperties DEF Orders
        <5> QED
          BY <2>5, <3>2, <4>1, <5>2
      <4>4. task[t].column \in Stored
        BY <2>1, <4>3
      <4> QED
        BY <1>1, <4>1, <4>2, <4>3, <4>4 DEF TitleOf
    <3> QED
      BY <3>1, <3>2
  <2> HIDE DEF moved
  <2>6. TasksKeepAColumn'
    BY <1>8, <2>5 DEF TasksKeepAColumn, TitleOf
  <2> QED
    BY <1>8, <2>3, <2>4, <2>6 DEF TaskInv
<1>13. WorkInv'
  BY <1>1, ChangeKeepsWork
<1> QED
  BY <1>11, <1>12, <1>13 DEF BoardInv

\* An order of stored columns that is saved leaves a gap only where one was.
LEMMA SavedOrder ==
  ASSUME BoardInv, NEW order \in Orders(Stored), Persistable(position, order),
         position' = Persisted(position, order), gap' = GapAfter(order)
  PROVE  /\ position' \in [Stored -> Nat] /\ IsInjective(position') /\ Stored' = Stored
         /\ gap' \in BOOLEAN /\ BoardStaysDense'
<1>1. position \in [Stored -> Nat] /\ IsInjective(position) /\ IsFiniteSet(Stored) /\ gap \in BOOLEAN
  BY BoardNumbers, FS_Subset DEF BoardInv, ColumnInv
<1>2. position' \in [Stored -> Nat] /\ IsInjective(position') /\ Stored' = Stored
  BY <1>1, PersistedKeepsUnique DEF Stored
<1>3. CASE gap
  <2>1. ~gap' => Stored \subseteq Range(order)
    BY <1>2, <1>3 DEF GapAfter, Stored
  <2> QED
    BY <1>1, <1>2, <2>1, PersistedAllIsDense DEF BoardStaysDense, GapAfter
<1>4. CASE ~gap
  <2>1. Dense(position)
    BY <1>4 DEF BoardInv, ColumnInv, BoardStaysDense
  <2> QED
    BY <1>1, <1>2, <1>4, <2>1, PersistedKeepsDense DEF BoardStaysDense, GapAfter
<1> QED
  BY <1>1, <1>3, <1>4

LEMMA UpdateTaskColumnKeeps == ASSUME BoardInv, NEW r \in Requests, UpdateTaskColumn(r) PROVE BoardInv'
<1> DEFINE w == work[r]
           existing == Relisted(w.order, position)
           at == IF w.place = Keep THEN position[w.column] ELSE w.place
           order == Spliced(Without(existing, w.column), at, w.column)
           nextTitle == IF w.title = NoTitle THEN title[w.column] ELSE w.title
           renamed == IF nextTitle = title[w.column] THEN {}
                      ELSE {t \in Tasks : task[t].column = w.column}
<1>1. /\ w.column \in Stored
      /\ title' = [title EXCEPT ![w.column] = nextTitle]
      /\ task' = Assigned(renamed, w.column, nextTitle)
      /\ IF order = existing THEN UNCHANGED <<position, gap>>
         ELSE /\ Persistable(position, order)
              /\ position' = Persisted(position, order)
              /\ gap' = GapAfter(order)
      /\ raced' = raced \ renamed
      /\ Done(r, TRUE)
  BY DEF UpdateTaskColumn
<1>2. existing \in Orders(Stored)
  BY ListedColumns
<1>3. Prepared(w, title) /\ w.place \in Nat /\ w.title \in Titles \cup {NoTitle}
  BY DEF BoardInv, WorkInv, Prepared, BoardWork
<1>4. position \in [Stored -> Nat] /\ Stored \subseteq Columns /\ title \in [Stored -> Titles]
  BY DEF BoardInv, ColumnInv
<1> HIDE DEF existing
<1>5. at \in Nat
  BY <1>1, <1>3, <1>4
<1> HIDE DEF at, w
<1>6. order \in Orders(Stored)
  <2>1. Without(existing, w.column) \in Orders(Stored) /\ w.column \notin Range(Without(existing, w.column))
    BY <1>2, KeptIsOrder DEF Without
  <2> QED
    BY <1>1, <1>5, <2>1, SplicedIsOrder
<1> HIDE DEF order
<1>7. /\ position' \in [Stored -> Nat] /\ IsInjective(position') /\ Stored' = Stored
      /\ gap' \in BOOLEAN /\ BoardStaysDense'
  <2>1. CASE order = existing
    BY <1>1, <2>1 DEF BoardInv, ColumnInv, Stored, BoardStaysDense
  <2>2. CASE order # existing
    BY <1>1, <1>6, <2>2, SavedOrder
  <2> QED
    BY <2>1, <2>2
<1>8. nextTitle \in Titles
  BY <1>1, <1>3, <1>4
<1> HIDE DEF nextTitle
<1>9. title' \in [Stored -> Titles]
  BY <1>1, <1>4, <1>8
<1>10. ColumnInv'
  BY <1>4, <1>7, <1>9 DEF ColumnInv
<1>11. TaskInv'
  <2>1. task \in [Tasks -> TaskRow] /\ \A t \in Tasks : task[t].column \in Stored \cup {NoColumn}
    BY DEF BoardInv, TaskInv
  <2>2. \A t \in Tasks : task'[t] = IF t \in renamed
                                    THEN [task[t] EXCEPT !.column = w.column, !.status = nextTitle]
                                    ELSE task[t]
    BY <1>1 DEF Assigned
  <2>3. task' \in [Tasks -> TaskRow]
    <3>1. w.column \in Columns
      BY <1>1, <1>4
    <3> HIDE DEF renamed
    <3> QED
      BY <1>1, <1>8, <2>1, <3>1 DEF Assigned, TaskRow
  <2>4. \A t \in Tasks : task'[t].column = task[t].column /\ task'[t].state = task[t].state
    BY <2>1, <2>2 DEF TaskRow
  <2>5. ASSUME NEW t \in Tasks, task'[t].state # "free", t \notin raced'
        PROVE  /\ task'[t].column = NoColumn <=> Stored = {}
               /\ task'[t].status = IF task'[t].column = NoColumn THEN NoTitle ELSE title'[task'[t].column]
    <3>1. CASE t \in renamed
      <4>1. task'[t].column = w.column /\ task'[t].status = nextTitle
        BY <2>1, <2>2, <3>1 DEF TaskRow
      <4> QED
        BY <1>1, <1>4, <4>1, BoardNumbers
    <3>2. CASE t \notin renamed
      <4>1. task'[t] = task[t] /\ t \notin raced
        BY <1>1, <2>2, <2>5, <3>2
      <4>2. /\ task[t].column = NoColumn <=> Stored = {}
            /\ task[t].status = TitleOf(task[t].column)
        BY <2>5, <4>1 DEF BoardInv, TaskInv, TasksKeepAColumn
      <4>3. CASE task[t].column = NoColumn
        BY <4>1, <4>2, <4>3 DEF TitleOf
      <4>4. CASE task[t].column # NoColumn
        <5>1. task[t].column \in Stored /\ task[t].status = title[task[t].column]
          BY <2>1, <4>2, <4>4 DEF TitleOf
        <5>2. title'[task[t].column] = title[task[t].column]
          BY <1>1, <1>4, <3>2, <5>1
        <5> QED
          BY <4>1, <4>2, <4>4, <5>1, <5>2
      <4> QED
        BY <4>3, <4>4
    <3> QED
      BY <3>1, <3>2
  <2> HIDE DEF renamed
  <2>6. TasksKeepAColumn'
    BY <1>7, <2>5 DEF TasksKeepAColumn, TitleOf
  <2> QED
    BY <1>7, <2>1, <2>3, <2>4, <2>6 DEF TaskInv
<1>12. WorkInv'
  BY <1>1, ChangeKeepsWork
<1> QED
  BY <1>10, <1>11, <1>12 DEF BoardInv

\* An order without repetition, permuted, is one.
LEMMA PermutedIsOrder ==
  ASSUME NEW S, NEW order \in Orders(S), NEW f \in [DOMAIN order -> DOMAIN order],
         \A i, j \in DOMAIN f : i # j => f[i] # f[j]
  PROVE  [i \in DOMAIN order |-> order[f[i]]] \in Orders(S)
<1> DEFINE s == [i \in DOMAIN order |-> order[f[i]]]
<1>1. Len(order) \in Nat /\ DOMAIN order = 1..Len(order) /\ order \in [1..Len(order) -> S]
      /\ IsInjective(order)
  BY LenProperties DEF Orders
<1>2. s \in [1..Len(order) -> S] /\ IsInjective(s)
  BY <1>1 DEF IsInjective
<1> HIDE DEF s
<1>3. s \in Orders(S)
  BY <1>1, <1>2, FunctionIsSeq DEF Orders
<1> QED
  BY <1>3 DEF s

LEMMA ReorderTaskColumnsKeeps == ASSUME BoardInv, NEW r \in Requests, ReorderTaskColumns(r) PROVE BoardInv'
<1> DEFINE existing == Relisted(work[r].order, position)
<1>1. UNCHANGED <<title, task, raced>> /\ Done(r, TRUE)
  BY DEF ReorderTaskColumns
<1>2. PICK f \in [DOMAIN existing -> DOMAIN existing] :
        /\ \A i, j \in DOMAIN f : i # j => f[i] # f[j]
        /\ IF [i \in DOMAIN existing |-> existing[f[i]]] = existing THEN UNCHANGED <<position, gap>>
           ELSE /\ Persistable(position, [i \in DOMAIN existing |-> existing[f[i]]])
                /\ position' = Persisted(position, [i \in DOMAIN existing |-> existing[f[i]]])
                /\ gap' = GapAfter([i \in DOMAIN existing |-> existing[f[i]]])
  BY DEF ReorderTaskColumns
<1>3. existing \in Orders(Stored)
  BY ListedColumns
<1> HIDE DEF existing
<1> DEFINE order == [i \in DOMAIN existing |-> existing[f[i]]]
<1>4. order \in Orders(Stored)
  BY <1>2, <1>3, PermutedIsOrder
<1>5. IF order = existing THEN UNCHANGED <<position, gap>>
      ELSE Persistable(position, order) /\ position' = Persisted(position, order) /\ gap' = GapAfter(order)
  BY <1>2
<1> HIDE DEF order
<1>6. /\ position' \in [Stored -> Nat] /\ IsInjective(position') /\ Stored' = Stored
      /\ gap' \in BOOLEAN /\ BoardStaysDense'
  <2>1. CASE order = existing
    BY <1>5, <2>1 DEF BoardInv, ColumnInv, Stored, BoardStaysDense
  <2>2. CASE order # existing
    BY <1>4, <1>5, <2>2, SavedOrder
  <2> QED
    BY <2>1, <2>2
<1>7. ColumnInv'
  BY <1>1, <1>6 DEF BoardInv, ColumnInv
<1>8. TaskInv'
  BY <1>1, <1>6 DEF BoardInv, TaskInv, TasksKeepAColumn, TitleOf
<1>9. WorkInv'
  BY <1>1, ChangeKeepsWork
<1> QED
  BY <1>7, <1>8, <1>9 DEF BoardInv

\* The columns that are left are numbered anew; the tasks of the one that goes
\* are on the first of them, or are told apart.
LEMMA DeleteTaskColumnKeeps == ASSUME BoardInv, NEW r \in Requests, DeleteTaskColumn(r) PROVE BoardInv'
<1> DEFINE w == work[r]
           order == Without(Relisted(w.order, position), w.column)
           left == Stored \ {w.column}
           rest == [c \in left |-> position[c]]
           fallback == IF order = <<>> THEN NoColumn ELSE Head(order)
           moved == {t \in Tasks : task[t].column = w.column}
           unlisted == left \ Range(order)
<1>1. /\ w.column \in Stored
      /\ Persistable(rest, order)
      /\ position' = Persisted(rest, order)
      /\ title' = [c \in left |-> title[c]]
      /\ task' = Assigned(moved, fallback, TitleOf(fallback))
      /\ gap' = (unlisted # {} \/ GapAfter(order))
      /\ raced' = IF unlisted = {} THEN raced \ moved ELSE raced \cup moved
      /\ Done(r, TRUE)
  BY DEF DeleteTaskColumn
<1>2. order \in Orders(left)
  <2>1. Relisted(w.order, position) \in Orders(Stored)
    BY ListedColumns
  <2>2. order \in Orders(Stored) /\ w.column \notin Range(order) /\ Range(order) \subseteq Stored
    BY <2>1, KeptIsOrder, OrderCounts DEF Without
  <2> HIDE DEF order
  <2> QED
    BY <2>2, OrderIn
<1>3. position \in [Stored -> Nat] /\ IsInjective(position) /\ Stored \subseteq Columns
      /\ title \in [Stored -> Titles] /\ gap \in BOOLEAN /\ IsFiniteSet(left)
  <2>1. IsFiniteSet(Stored)
    BY BoardNumbers, FS_Subset DEF BoardInv, ColumnInv
  <2> QED
    BY <2>1, FS_Subset DEF BoardInv, ColumnInv
<1> HIDE DEF w, order
<1>4. rest \in [left -> Nat] /\ IsInjective(rest)
  BY <1>3 DEF IsInjective
<1> HIDE DEF rest
<1>5. position' \in [left -> Nat] /\ IsInjective(position') /\ Stored' = left
  BY <1>1, <1>2, <1>4, PersistedKeepsUnique DEF Stored
<1>6. unlisted = {} => left \subseteq Range(order)
  OBVIOUS
<1>7. BoardStaysDense'
  <2> SUFFICES ASSUME ~gap' PROVE Dense(position')
    BY DEF BoardStaysDense
  <2>1. left \subseteq Range(order)
    BY <1>1, <1>6
  <2> HIDE DEF left
  <2> QED
    BY <1>1, <1>2, <1>3, <1>4, <2>1, PersistedAllIsDense
<1>8. title' \in [left -> Titles] /\ gap' \in BOOLEAN
  BY <1>1, <1>3 DEF GapAfter
<1>9. ColumnInv'
  BY <1>3, <1>5, <1>7, <1>8 DEF ColumnInv
<1>10. fallback \in left \cup {NoColumn} /\ (fallback = NoColumn /\ unlisted = {} => left = {})
  <2>1. CASE order = <<>>
    <3>1. Range(order) = {}
      BY <2>1 DEF Range
    <3> QED
      BY <2>1, <3>1
  <2>2. CASE order # <<>>
    <3>1. order \in Seq(left)
      BY <1>2 DEF Orders
    <3>2. Head(order) \in left
      BY <2>2, <3>1, HeadTailProperties
    <3> QED
      BY <1>3, <2>2, <3>2, BoardNumbers
  <2> QED
    BY <2>1, <2>2
<1> HIDE DEF fallback
<1> DEFINE text == TitleOf(fallback)
<1>11. text = IF fallback = NoColumn THEN NoTitle ELSE title'[fallback]
  BY <1>1, <1>10 DEF TitleOf
<1>12. text \in Titles \cup {NoTitle}
  BY <1>3, <1>10 DEF TitleOf
<1> HIDE DEF text
<1>13. TaskInv'
  <2>1. task \in [Tasks -> TaskRow] /\ \A t \in Tasks : task[t].column \in Stored \cup {NoColumn}
    BY DEF BoardInv, TaskInv
  <2>2. /\ DOMAIN task' = Tasks
        /\ \A t \in Tasks : task'[t] = IF t \in moved
                                       THEN [task[t] EXCEPT !.column = fallback, !.status = text]
                                       ELSE task[t]
    BY <1>1 DEF Assigned, text
  <2>3. task' \in [Tasks -> TaskRow]
    <3>1. fallback \in Columns \cup {NoColumn}
      BY <1>3, <1>10
    <3> HIDE DEF moved
    <3>2. ASSUME NEW t \in Tasks PROVE task'[t] \in TaskRow
      <4>1. [task[t] EXCEPT !.column = fallback, !.status = text] \in TaskRow
        BY <1>12, <2>1, <3>1 DEF TaskRow
      <4> QED
        BY <2>1, <2>2, <4>1
    <3>3. task' = [t \in Tasks |-> task'[t]]
      BY <1>1 DEF Assigned
    <3> QED
      BY <3>2, <3>3
  <2>4. ASSUME NEW t \in Tasks, t \in moved
        PROVE  task'[t].column = fallback /\ task'[t].status = text
    BY <2>1, <2>2, <2>4 DEF TaskRow
  <2>5. ASSUME NEW t \in Tasks, t \notin moved
        PROVE  task'[t] = task[t] /\ task[t].column \in left \cup {NoColumn}
    BY <2>1, <2>2, <2>5
  <2>6. \A t \in Tasks : task'[t].column \in left \cup {NoColumn}
    BY <1>10, <2>4, <2>5
  <2>7. ASSUME NEW t \in Tasks, task'[t].state # "free", t \notin raced'
        PROVE  /\ task'[t].column = NoColumn <=> left = {}
               /\ task'[t].status = IF task'[t].column = NoColumn THEN NoTitle ELSE title'[task'[t].column]
    <3>1. CASE t \in moved
      <4>1. unlisted = {}
        BY <1>1, <2>7, <3>1
      <4>2. fallback = NoColumn <=> left = {}
        BY <1>3, <1>10, <4>1, BoardNumbers
      <4> QED
        BY <1>11, <2>4, <3>1, <4>2
    <3>2. CASE t \notin moved
      <4>1. task'[t] = task[t] /\ t \notin raced /\ task[t].column \in left \cup {NoColumn}
        BY <1>1, <2>5, <2>7, <3>2
      <4>2. /\ task[t].column = NoColumn <=> Stored = {}
            /\ task[t].status = TitleOf(task[t].column)
        BY <2>7, <4>1 DEF BoardInv, TaskInv, TasksKeepAColumn
      <4>3. task[t].column # NoColumn
        BY <1>1, <4>2
      <4>4. task[t].column \in left /\ task[t].status = title[task[t].column]
        BY <4>1, <4>2, <4>3 DEF TitleOf
      <4> QED
        BY <1>1, <4>1, <4>3, <4>4
    <3> QED
      BY <3>1, <3>2
  <2>8. TasksKeepAColumn'
    BY <1>5, <2>7 DEF TasksKeepAColumn, TitleOf
  <2> QED
    BY <1>5, <2>3, <2>6, <2>8 DEF TaskInv
<1>14. WorkInv'
  BY <1>1, ChangeKeepsWork
<1> QED
  BY <1>9, <1>13, <1>14 DEF BoardInv

LEMMA FirstColumnStored ==
  ASSUME BoardInv PROVE FirstColumn \in Resolvable /\ Resolvable \subseteq Columns \cup {NoColumn}
<1>1. InOrder(position) \in Orders(Columns) /\ Range(InOrder(position)) = Stored
  BY InOrderOfColumns
<1> DEFINE s == InOrder(position)
<1> HIDE DEF s
<1>2. Stored # {} => Head(s) \in Stored
  <2> SUFFICES ASSUME Stored # {} PROVE Head(s) \in Stored
    OBVIOUS
  <2>1. s \in Seq(Columns) /\ Range(s) = Stored /\ s # <<>>
    BY <1>1 DEF s, Orders, Range
  <2>2. Head(s) = s[1] /\ 1 \in DOMAIN s
    BY <2>1, EmptySeq, LenProperties
  <2> QED
    BY <2>1, <2>2 DEF Range
<1> QED
  BY <1>2 DEF FirstColumn, Resolvable, s, BoardInv, ColumnInv

\* A task is prepared with a column and its title as they are.
LEMMA ResolveKeeps ==
  ASSUME BoardInv, NEW r \in Requests, NEW t \in Tasks, ResolveForCreate(r, t) \/ ResolveForUpdate(r, t)
  PROVE  BoardInv'
<1>1. PICK c \in Resolvable, o \in {"new", "save"} :
        Start(r, [Idle EXCEPT !.op = o, !.task = t, !.column = c, !.title = TitleOf(c)])
  <2>1. FirstColumn \in Resolvable
    BY FirstColumnStored
  <2> QED
    BY <2>1 DEF ResolveForCreate, ResolveForUpdate
<1> DEFINE w == [Idle EXCEPT !.op = o, !.task = t, !.column = c, !.title = TitleOf(c)]
<1>2. c \in Columns \cup {NoColumn} /\ c \in Stored \cup {NoColumn} /\ (c = NoColumn <=> Stored = {})
      /\ TitleOf(c) \in Titles \cup {NoTitle} /\ DOMAIN title = Stored
  <2>1. Stored \subseteq Columns /\ title \in [Stored -> Titles]
    BY DEF BoardInv, ColumnInv
  <2> QED
    BY <2>1, BoardNumbers DEF Resolvable, TitleOf
<1>3. w.op = o /\ w.task = t /\ w.column = c /\ w.title = TitleOf(c)
  BY DEF Idle
<1>4. w \in BoardWork
  BY <1>2, IdleIsPrepared, EmptyOrder, BoardNumbers DEF BoardWork, Idle
<1>5. TitleOf(c) = IF c = NoColumn THEN NoTitle ELSE title[c]
  BY DEF TitleOf
<1> HIDE DEF w
<1>6. Prepared(w, title)
  BY <1>2, <1>3, <1>4, <1>5 DEF Prepared
<1>7. Start(r, w)
  BY <1>1 DEF w
<1> QED
  BY <1>6, <1>7, StartKeepsBoard

LEMMA WriteTaskKeeps == ASSUME BoardInv, NEW r \in Requests, WriteTask(r) PROVE BoardInv'
<1> DEFINE w == work[r]
           row == [state |-> "live", column |-> w.column, status |-> w.title]
<1>1. /\ w.column \in Stored \cup {NoColumn} /\ w.op \in {"new", "save"}
      /\ task' = [task EXCEPT ![w.task] = row]
      /\ raced' = IF w.stale THEN raced \cup {w.task} ELSE raced \ {w.task}
      /\ Done(r, FALSE)
      /\ UNCHANGED <<position, title, gap>>
  BY DEF WriteTask, Written, OnTask
<1>2. Prepared(w, title) /\ DOMAIN title = Stored
  BY DEF BoardInv, WorkInv, ColumnInv
<1>3. w.title \in Titles \cup {NoTitle} /\ w.task \in Tasks /\ Stored \subseteq Columns
  BY <1>1, <1>2 DEF Prepared, BoardWork, BoardInv, ColumnInv
<1>4. ~w.stale => /\ w.column = NoColumn <=> Stored = {}
                  /\ w.title = TitleOf(w.column)
  BY <1>1, <1>2 DEF Prepared, TitleOf
<1> HIDE DEF w
<1>5. row \in TaskRow
  BY <1>1, <1>3 DEF TaskRow
<1>6. TaskInv'
  <2>1. task \in [Tasks -> TaskRow] /\ \A t \in Tasks : task[t].column \in Stored \cup {NoColumn}
    BY DEF BoardInv, TaskInv
  <2>2. task' \in [Tasks -> TaskRow] /\ \A t \in Tasks : task'[t] = IF t = w.task THEN row ELSE task[t]
    BY <1>1, <1>3, <1>5, <2>1
  <2>3. \A t \in Tasks : task'[t].column \in Stored \cup {NoColumn}
    BY <1>1, <2>1, <2>2
  <2>4. ASSUME NEW t \in Tasks, task'[t].state # "free", t \notin raced'
        PROVE  /\ task'[t].column = NoColumn <=> Stored = {}
               /\ task'[t].status = TitleOf(task'[t].column)
    <3>1. CASE t = w.task
      BY <1>1, <1>4, <2>2, <2>4, <3>1
    <3>2. CASE t # w.task
      <4>1. task'[t] = task[t] /\ t \notin raced
        BY <1>1, <2>2, <2>4, <3>2
      <4> QED
        BY <2>4, <4>1 DEF BoardInv, TaskInv, TasksKeepAColumn
    <3> QED
      BY <3>1, <3>2
  <2>5. Stored' = Stored /\ \A c : TitleOf(c)' = TitleOf(c)
    BY <1>1 DEF Stored, TitleOf
  <2>6. TasksKeepAColumn'
    BY <2>4, <1>1 DEF TasksKeepAColumn, Stored, TitleOf
  <2> QED
    BY <2>2, <2>3, <2>5, <2>6 DEF TaskInv
<1>7. ColumnInv'
  BY <1>1 DEF BoardInv, ColumnInv, Stored, BoardStaysDense
<1>8. WorkInv'
  BY <1>1, EndKeepsWork
<1> QED
  BY <1>6, <1>7, <1>8 DEF BoardInv

LEMMA DeleteOrRestoreKeeps == ASSUME BoardInv, NEW t \in Tasks, DeleteOrRestore(t) PROVE BoardInv'
<1>1. /\ UNCHANGED <<position, title, work, gap, raced>> /\ task[t].state # "free"
      /\ task' = [task EXCEPT ![t].state = "deleted"] \/ task' = [task EXCEPT ![t].state = "live"]
  BY DEF DeleteOrRestore
<1>2. task \in [Tasks -> TaskRow]
  BY DEF BoardInv, TaskInv
<1>3. /\ task' \in [Tasks -> TaskRow]
      /\ \A u \in Tasks : /\ task'[u].column = task[u].column /\ task'[u].status = task[u].status
                          /\ task'[u].state # "free" => task[u].state # "free"
  BY <1>1, <1>2 DEF TaskRow
<1>4. TaskInv'
  BY <1>1, <1>3 DEF BoardInv, TaskInv, TasksKeepAColumn, Stored, TitleOf
<1> QED
  BY <1>1, <1>4 DEF BoardInv, ColumnInv, WorkInv, Stored, BoardStaysDense

LEMMA AbortKeeps == ASSUME BoardInv, NEW r \in Requests, Abort(r) PROVE BoardInv'
<1>1. Done(r, FALSE) /\ UNCHANGED <<position, title, task, gap, raced>>
  BY DEF Abort
<1>2. WorkInv'
  BY <1>1, EndKeepsWork
<1> QED
  BY <1>1, <1>2 DEF BoardInv, ColumnInv, TaskInv, TasksKeepAColumn, BoardStaysDense, Stored, TitleOf

LEMMA BoardStep == BoardInv /\ [Next]_vars => BoardInv'
<1> SUFFICES ASSUME BoardInv, [Next]_vars PROVE BoardInv'
  OBVIOUS
<1>1. CASE UNCHANGED vars
  BY <1>1 DEF vars, BoardInv, ColumnInv, TaskInv, WorkInv, TasksKeepAColumn, BoardStaysDense, Stored, TitleOf
<1>2. ASSUME NEW r \in Requests, Request(r) PROVE BoardInv'
  BY <1>2, ListColumnsKeeps, CreateTaskColumnKeeps, UpdateTaskColumnKeeps, ReorderTaskColumnsKeeps,
     DeleteTaskColumnKeeps, ResolveKeeps, WriteTaskKeeps, AbortKeeps DEF Request
<1>3. ASSUME NEW t \in Tasks, DeleteOrRestore(t) PROVE BoardInv'
  BY <1>3, DeleteOrRestoreKeeps
<1> QED
  BY <1>1, <1>2, <1>3 DEF Next

\* The board of TaskBoard.tla: unless a deletion missed a column, the columns
\* are numbered without a gap, ...
THEOREM ColumnsStayDense == Spec => []BoardStaysDense
<1>1. BoardInv => BoardStaysDense
  BY DEF BoardInv, ColumnInv
<1> QED
  BY BoardInit, BoardStep, <1>1, PTL DEF Spec

\* ... and a task that was not written across a change of the columns is on a
\* column of the board, as long as there is one, and says its title.  Nothing is
\* said of a task that was, until it is written again.
THEOREM TasksAreOnTheBoard == Spec => []TasksKeepAColumn
<1>1. BoardInv => TasksKeepAColumn
  BY DEF BoardInv, TaskInv
<1> QED
  BY BoardInit, BoardStep, <1>1, PTL DEF Spec
-----------------------------------------------------------------------------
(* The booking options: a deletion knows every option, because a creation that *)
(* finds its position free has listed the option that the deletion holds.      *)

\* The lists of the options are those of the board.
LEMMA SameLists ==
  ASSUME NEW list, NEW order, NEW rows
  PROVE  /\ OptionList!Dense(list) = Dense(list)
         /\ OptionList!InOrder(list) = InOrder(list)
         /\ OptionList!Relisted(order, list) = Relisted(order, list)
         /\ OptionList!Without(order, rows) = Without(order, rows)
         /\ OptionList!Persistable(list, order) = Persistable(list, order)
         /\ OptionList!Persisted(list, order) = Persisted(list, order)
<1>1. \A f : OptionList!Range(f) = Range(f)
  BY DEF OptionList!Range, Range
<1>2. \A S : OptionList!Cardinality(S) = Cardinality(S)
  BY DEF OptionList!Cardinality, Cardinality, OptionList!IsFiniteSet, IsFiniteSet
<1>3. \A N : OptionList!Ascending(N) = Ascending(N)
  BY <1>2 DEF OptionList!Ascending, Ascending
<1>4. \A R : OptionList!Kept(order, R) = Kept(order, R)
  BY <1>3 DEF OptionList!Kept, Kept
<1>5. OptionList!Dense(list) = Dense(list)
  BY <1>1, <1>2 DEF OptionList!Dense, Dense
<1>6. OptionList!InOrder(list) = InOrder(list)
  BY <1>1, <1>3 DEF OptionList!InOrder, InOrder
<1>7. OptionList!Relisted(order, list) = Relisted(order, list)
  BY <1>4 DEF OptionList!Relisted, Relisted
<1>8. OptionList!Without(order, rows) = Without(order, rows)
  BY <1>1, <1>4 DEF OptionList!Without, Without
<1>9. OptionList!Persistable(list, order) = Persistable(list, order)
  BY <1>1 DEF OptionList!Persistable, Persistable, OptionList!Others, Others
<1>10. OptionList!Persisted(list, order) = Persisted(list, order)
  BY <1>1 DEF OptionList!Persisted, Persisted
<1> QED
  BY <1>5, <1>6, <1>7, <1>8, <1>9, <1>10

OptionRows ==
  /\ DOMAIN options \subseteq Options /\ IsFiniteSet(DOMAIN options)
  /\ options \in [DOMAIN options -> Nat] /\ IsInjective(options)
  /\ Dense(options)

OptionWork ==
  [op : {"idle", "create", "reorder", "hold", "delete"}, option : Options \cup {NoOption},
   order : Orders(Options)]

\* The option of a deletion is there and held by nobody else; once its
\* siblings are listed, there are no others.
OptionLocks ==
  \A r \in OptionRequests :
    /\ request[r].op = "create" => request[r].option \in Options
    /\ OptionList!Holds(r) => /\ request[r].option \in DOMAIN options
                              /\ ~OptionList!Held(request[r].option, r)
    /\ request[r].op = "delete" => DOMAIN options \subseteq Range(request[r].order)

OptionInv == OptionRows /\ request \in [OptionRequests -> OptionWork] /\ OptionLocks

LEMMA OptionInit == OptionList!Init => OptionInv
<1> SUFFICES ASSUME OptionList!Init PROVE OptionInv
  OBVIOUS
<1>1. options = <<>> /\ DOMAIN options = {} /\ request = [r \in OptionRequests |-> OptionList!Idle]
  BY DEF OptionList!Init
<1>2. OptionRows
  <2>1. Range(options) = {} /\ Cardinality(DOMAIN options) = 0 /\ IsFiniteSet(DOMAIN options)
    BY <1>1, FS_EmptySet DEF Range
  <2>2. Dense(options)
    BY <2>1 DEF Dense
  <2> QED
    BY <1>1, <2>1, <2>2 DEF OptionRows, IsInjective
<1> QED
  BY <1>1, <1>2, EmptyOrder DEF OptionInv, OptionWork, OptionLocks, OptionList!Idle, OptionList!Holds

\* What a request has listed, as far as it is still there.
LEMMA ListedOptions ==
  ASSUME OptionInv, NEW r \in OptionRequests
  PROVE  /\ OptionList!Listed(r) \in Orders(DOMAIN options)
         /\ Range(OptionList!Listed(r)) = Range(request[r].order) \cap DOMAIN options
<1> DEFINE s == OptionList!Listed(r)
<1>1. request[r].order \in Orders(Options)
  BY DEF OptionInv, OptionWork
<1>2. s = Relisted(request[r].order, options)
  BY SameLists DEF OptionList!Listed
<1>3. s \in Orders(Options) /\ Range(s) = Range(request[r].order) \cap DOMAIN options
  BY <1>1, <1>2, KeptIsOrder DEF Relisted
<1> HIDE DEF s
<1> QED
  BY <1>3, OrderIn DEF s

LEMMA InOrderOfOptions ==
  ASSUME OptionInv
  PROVE  /\ OptionList!InOrder(options) \in Orders(Options)
         /\ Range(OptionList!InOrder(options)) = DOMAIN options
<1> DEFINE s == InOrder(options)
<1>1. s \in Orders(DOMAIN options) /\ Range(s) = DOMAIN options
  BY InOrderIsOrder DEF OptionInv, OptionRows
<1> HIDE DEF s
<1>2. s \in Orders(Options)
  BY <1>1, OrderIn DEF OptionInv, OptionRows
<1> QED
  BY <1>1, <1>2, SameLists DEF s

\* A request that ends leaves the locks of the others, whose options stay.
LEMMA OptionEnd ==
  ASSUME OptionInv, NEW r \in OptionRequests, request' = [request EXCEPT ![r] = OptionList!Idle],
         OptionRows',
         \A q \in OptionRequests \ {r} : OptionList!Holds(q) => request[q].option \in DOMAIN options',
         DOMAIN options' \subseteq DOMAIN options
           \/ \A q \in OptionRequests \ {r} : request[q].op # "delete"
  PROVE  OptionInv'
<1>1. request' \in [OptionRequests -> OptionWork]
  BY EmptyOrder DEF OptionInv, OptionWork, OptionList!Idle
<1>2. request'[r] = OptionList!Idle /\ \A q \in OptionRequests \ {r} : request'[q] = request[q]
  BY DEF OptionInv
<1>3. OptionLocks'
  BY <1>2 DEF OptionInv, OptionLocks, OptionList!Idle, OptionList!Holds, OptionList!Held
<1> QED
  BY <1>1, <1>3 DEF OptionInv

\* A creation that finds its position free has listed every option.
LEMMA CreateOptionKeeps ==
  ASSUME OptionInv, NEW r \in OptionRequests, OptionList!CreateTaskBookingOption(r) PROVE OptionInv'
<1> DEFINE s == OptionList!Listed(r)
           o == request[r].option
           D == DOMAIN options \cup {o}
<1>1. /\ request[r].op = "create" /\ OptionList!Lockable(r)
      /\ o \notin DOMAIN options /\ \A p \in DOMAIN options : options[p] # Len(s)
      /\ options' = [p \in D |-> IF p = o THEN Len(s) ELSE options[p]]
      /\ request' = [request EXCEPT ![r] = OptionList!Idle]
  BY DEF OptionList!CreateTaskBookingOption, OptionList!Set
<1>2. s \in Orders(DOMAIN options) /\ Len(s) \in Nat /\ DOMAIN s = 1..Len(s)
      /\ Range(s) \subseteq DOMAIN options
      /\ IsFiniteSet(Range(s)) /\ Cardinality(Range(s)) = Len(s)
  BY ListedOptions, OrderCounts
<1>3. o \in Options
  BY <1>1 DEF OptionInv, OptionLocks
<1>4. /\ DOMAIN options \subseteq Options /\ IsFiniteSet(DOMAIN options)
      /\ options \in [DOMAIN options -> Nat] /\ IsInjective(options) /\ Dense(options)
      /\ Cardinality(DOMAIN options) \in Nat
  BY FS_CardinalityType DEF OptionInv, OptionRows
<1> HIDE DEF s, o
<1>5. Len(s) = Cardinality(DOMAIN options)
  <2>1. Len(s) <= Cardinality(DOMAIN options)
    BY <1>2, <1>4, FS_Subset
  <2>2. Len(s) \notin Range(options)
    BY <1>1 DEF Range
  <2> QED
    BY <1>2, <1>4, <2>1, <2>2 DEF Dense
<1>6. Range(s) = DOMAIN options
  BY <1>2, <1>4, <1>5, FS_Subset
<1>7. IsFiniteSet(D) /\ Cardinality(D) = Len(s) + 1
  BY <1>1, <1>4, <1>5, FS_AddElement
<1>8. options' \in [D -> Nat] /\ IsInjective(options')
  BY <1>1, <1>2, <1>4 DEF IsInjective
<1>9. \A p \in D : options'[p] < Len(s) + 1
  BY <1>1, <1>2, <1>4, <1>5 DEF Dense, Range
<1>10. Dense(options')
  BY <1>7, <1>8, <1>9, DenseFills
<1>11. OptionRows'
  BY <1>3, <1>4, <1>7, <1>8, <1>10 DEF OptionRows
<1>12. ASSUME NEW q \in OptionRequests \ {r}, OptionList!Holds(q) PROVE FALSE
  <2>1. request[q].option \in Range(s)
    BY <1>6, <1>12 DEF OptionInv, OptionLocks
  <2>2. PICK i \in DOMAIN s : s[i] = request[q].option
    BY <2>1 DEF Range
  <2> QED
    BY <1>1, <1>12, <2>2 DEF OptionList!Lockable, OptionList!Held, s
<1>13. \A q \in OptionRequests \ {r} : request[q].op # "delete"
  BY <1>12 DEF OptionList!Holds
<1> QED
  BY <1>1, <1>11, <1>12, <1>13, OptionEnd

LEMMA ReorderOptionsKeeps ==
  ASSUME OptionInv, NEW r \in OptionRequests, OptionList!ReorderTaskBookingOptions(r) PROVE OptionInv'
<1> DEFINE s == OptionList!Listed(r)
<1>1. request' = [request EXCEPT ![r] = OptionList!Idle]
  BY DEF OptionList!ReorderTaskBookingOptions, OptionList!Set
<1>2. PICK f \in [DOMAIN s -> DOMAIN s] :
        /\ \A i, j \in DOMAIN f : i # j => f[i] # f[j]
        /\ LET order == [i \in DOMAIN f |-> s[f[i]]] IN
           /\ order # s => Persistable(options, order)
           /\ options' = IF order = s THEN options ELSE Persisted(options, order)
  BY SameLists DEF OptionList!ReorderTaskBookingOptions
<1>3. s \in Orders(DOMAIN options)
  BY ListedOptions
<1>4. OptionRows
  BY DEF OptionInv
<1> HIDE DEF s
<1> DEFINE order == [i \in DOMAIN s |-> s[f[i]]]
<1>5. order \in Orders(DOMAIN options)
  BY <1>2, <1>3, PermutedIsOrder
<1>6. /\ order # s => Persistable(options, order)
      /\ options' = IF order = s THEN options ELSE Persisted(options, order)
  BY <1>2
<1> HIDE DEF order
<1>7. CASE order = s
  BY <1>1, <1>4, <1>6, <1>7, OptionEnd DEF OptionInv, OptionRows, OptionLocks
<1>8. CASE order # s
  <2>1. /\ options' \in [DOMAIN options -> Nat] /\ IsInjective(options')
        /\ Dense(options') /\ DOMAIN options' = DOMAIN options
    BY <1>4, <1>5, <1>6, <1>8, PersistedKeepsUnique, PersistedKeepsDense DEF OptionRows
  <2>2. OptionRows'
    BY <1>4, <2>1 DEF OptionRows
  <2> QED
    BY <1>1, <2>1, <2>2, OptionEnd DEF OptionInv, OptionLocks
<1> QED
  BY <1>7, <1>8

LEMMA DeleteOptionKeeps ==
  ASSUME OptionInv, NEW r \in OptionRequests, OptionList!DeleteTaskBookingOption(r) PROVE OptionInv'
<1> DEFINE o == request[r].option
           left == DOMAIN options \ {o}
           rest == [p \in left |-> options[p]]
           order == Without(OptionList!Listed(r), o)
<1>1. /\ request[r].op = "delete" /\ Persistable(rest, order) /\ options' = Persisted(rest, order)
      /\ request' = [request EXCEPT ![r] = OptionList!Idle]
  BY SameLists DEF OptionList!DeleteTaskBookingOption, OptionList!Set
<1>2. DOMAIN options \subseteq Range(request[r].order) /\ ~OptionList!Held(o, r)
  BY <1>1 DEF OptionInv, OptionLocks, OptionList!Holds
<1>3. OptionList!Listed(r) \in Orders(DOMAIN options) /\ Range(OptionList!Listed(r)) = DOMAIN options
  BY <1>2, ListedOptions
<1>4. order \in Orders(DOMAIN options) /\ Range(order) = left
  BY <1>3, KeptIsOrder DEF Without
<1> HIDE DEF order
<1>5. order \in Orders(left)
  BY <1>4, OrderIn
<1>6. OptionRows /\ IsFiniteSet(left)
  BY FS_Subset DEF OptionInv, OptionRows
<1>7. rest \in [left -> Nat] /\ IsInjective(rest)
  BY <1>6 DEF OptionRows, IsInjective
<1> HIDE DEF rest
<1>8. options' \in [left -> Nat] /\ IsInjective(options') /\ Dense(options') /\ DOMAIN options' = left
  <2> HIDE DEF left
  <2>1. Dense(options')
    BY <1>1, <1>4, <1>5, <1>6, <1>7, PersistedAllIsDense
  <2> QED
    BY <1>1, <1>5, <1>7, <2>1, PersistedKeepsUnique
<1>9. OptionRows'
  BY <1>6, <1>8 DEF OptionRows
<1>10. \A q \in OptionRequests \ {r} : OptionList!Holds(q) => request[q].option \in left
  BY <1>2 DEF OptionInv, OptionLocks, OptionList!Held
<1> QED
  BY <1>1, <1>8, <1>9, <1>10, OptionEnd

LEMMA OptionStep == OptionInv /\ [OptionList!Next]_optionVars => OptionInv'
<1> SUFFICES ASSUME OptionInv, [OptionList!Next]_optionVars PROVE OptionInv'
  OBVIOUS
<1>1. ASSUME UNCHANGED <<options, request>> PROVE OptionInv'
  BY <1>1 DEF OptionInv, OptionRows, OptionLocks, OptionList!Holds, OptionList!Held
<1>2. ASSUME NEW r \in OptionRequests, UNCHANGED options, NEW w \in OptionWork,
             request' = [request EXCEPT ![r] = w],
             w.op = "create" => w.option \in Options,
             w.op \in {"hold", "delete"} => w.option \in DOMAIN options /\ ~OptionList!Held(w.option, r),
             w.op = "delete" => DOMAIN options \subseteq Range(w.order)
      PROVE  OptionInv'
  <2>1. request' \in [OptionRequests -> OptionWork]
    BY <1>2 DEF OptionInv
  <2>2. request'[r] = w /\ \A q \in OptionRequests \ {r} : request'[q] = request[q]
    BY <1>2 DEF OptionInv
  <2>3. OptionRows'
    BY <1>2 DEF OptionInv, OptionRows
  <2>4. OptionLocks'
    BY <1>2, <2>2 DEF OptionInv, OptionLocks, OptionList!Holds, OptionList!Held
  <2> QED
    BY <2>1, <2>3, <2>4 DEF OptionInv
<1>3. ASSUME NEW r \in OptionRequests, OptionList!ListOptions(r) PROVE OptionInv'
  <2> DEFINE s == OptionList!InOrder(options)
  <2>1. s \in Orders(Options)
    BY InOrderOfOptions
  <2> HIDE DEF s
  <2>2. UNCHANGED options
    BY <1>3 DEF OptionList!ListOptions
  <2>3. PICK w \in {[op |-> "create", option |-> o, order |-> s] : o \in Options}
                   \cup {[op |-> "reorder", option |-> NoOption, order |-> s]} :
          request' = [request EXCEPT ![r] = w]
    BY <1>3 DEF OptionList!ListOptions, OptionList!Set, s
  <2>4. w \in OptionWork /\ w.op \in {"create", "reorder"} /\ (w.op = "create" => w.option \in Options)
    BY <2>1, <2>3 DEF OptionWork
  <2> QED
    BY <1>2, <2>2, <2>3, <2>4
<1>4. ASSUME NEW r \in OptionRequests, OptionList!LockOption(r) PROVE OptionInv'
  <2>1. PICK o \in DOMAIN options :
          /\ ~OptionList!Held(o, r)
          /\ request' = [request EXCEPT ![r] = [op |-> "hold", option |-> o, order |-> <<>>]]
    BY <1>4 DEF OptionList!LockOption, OptionList!Set
  <2>2. UNCHANGED options /\ [op |-> "hold", option |-> o, order |-> <<>>] \in OptionWork
    BY <1>4, EmptyOrder DEF OptionList!LockOption, OptionWork, OptionInv, OptionRows
  <2> QED
    BY <1>2, <2>1, <2>2
<1>5. ASSUME NEW r \in OptionRequests, OptionList!ListSiblings(r) PROVE OptionInv'
  <2> DEFINE s == OptionList!InOrder(options)
             w == [request[r] EXCEPT !.op = "delete", !.order = s]
  <2>1. s \in Orders(Options) /\ Range(s) = DOMAIN options
    BY InOrderOfOptions
  <2>2. UNCHANGED options /\ request' = [request EXCEPT ![r] = w] /\ request[r].op = "hold"
    BY <1>5 DEF OptionList!ListSiblings, OptionList!Set
  <2> HIDE DEF s
  <2>3. /\ w \in OptionWork /\ w.op = "delete" /\ w.option = request[r].option /\ w.order = s
        /\ request[r].option \in DOMAIN options /\ ~OptionList!Held(request[r].option, r)
    BY <2>1, <2>2 DEF OptionInv, OptionWork, OptionLocks, OptionList!Holds
  <2> HIDE DEF w
  <2> QED
    BY <1>2, <2>1, <2>2, <2>3
<1>6. ASSUME NEW r \in OptionRequests, OptionList!Abort(r) PROVE OptionInv'
  <2>1. UNCHANGED options /\ request' = [request EXCEPT ![r] = OptionList!Idle]
    BY <1>6 DEF OptionList!Abort, OptionList!Set
  <2> QED
    BY <2>1, OptionEnd DEF OptionInv, OptionRows, OptionLocks
<1>7. ASSUME NEW o \in Options, OptionList!SaveTaskWithOption(o) PROVE OptionInv'
  BY <1>1, <1>7 DEF OptionList!SaveTaskWithOption
<1>8. UNCHANGED optionVars => OptionInv'
  BY <1>1 DEF optionVars
<1> QED
  BY <1>3, <1>4, <1>5, <1>6, <1>7, <1>8, CreateOptionKeeps, ReorderOptionsKeeps, DeleteOptionKeeps
     DEF OptionList!Next

-----------------------------------------------------------------------------
(* The locations: whoever puts a booking at a location holds a lock on its     *)
(* row, or inserts the row; a merge holds the source for update, so that no    *)
(* booking arrives there between its two statements.                           *)

LocationWork ==
  [stage : {"idle", "importing", "located", "editing", "placed", "target", "source", "moving",
            "changing"},
   booking : Placed \cup {NoBooking}, target : Locations \cup {NoLocation},
   source : Locations \cup {NoLocation}, id : Ids \cup {NoId},
   strong : SUBSET Locations, update : SUBSET Locations, shared : SUBSET Locations,
   affected : SUBSET Placed]

Locks(w) == w.strong \cup w.update \cup w.shared

\* What a request holds at its stage.
Grasped(w, rows, at) ==
  /\ w \in LocationWork /\ Locks(w) \subseteq rows
  /\ w.stage \in {"target", "source", "moving"} => w.target \in w.strong
  /\ w.stage \in {"source", "moving"} => w.source \in w.strong /\ w.source # w.target
  /\ w.stage = "placed" => w.target \in w.shared
  /\ w.stage = "located" => w.target \in Locations /\ (w.target \in w.update \/ w.target \notin rows)
  /\ w.stage = "moving" => \A b \in Placed : at[b] = w.source => b \in w.affected

\* A row that is locked for update is locked by nobody else, and a row that an
\* import will insert is no other request's target.
Apart(v, w, rows) ==
  /\ v.strong \cap Locks(w) = {}
  /\ v.stage = "located" /\ v.target \notin rows => w.target # v.target

LocationInv ==
  /\ Places!Rows \subseteq Locations /\ id \in [Places!Rows -> Ids \cup {NoId}]
  /\ place \in [Placed -> Places!Rows \cup {NoLocation}]
  /\ DOMAIN merge = LocationRequests
  /\ \A r \in LocationRequests : Grasped(merge[r], Places!Rows, place)
  /\ \A q, r \in LocationRequests : q # r => Apart(merge[q], merge[r], Places!Rows)
  /\ Places!MovedBookingsTakeTheirTasks

LEMMA IdleGrasps ==
  ASSUME NEW rows, NEW at
  PROVE  /\ Grasped(Places!Idle, rows, at)
         /\ \A w : Apart(Places!Idle, w, rows)
         /\ \A w : Grasped(w, rows, at) => Apart(w, Places!Idle, rows)
<1>1. NoLocation \notin Locations
  BY PartsAssumption DEF Places!LocationMappingAssumption
<1>2. Places!Idle.stage = "idle" /\ Locks(Places!Idle) = {} /\ Places!Idle.strong = {}
      /\ Places!Idle.target = NoLocation
  BY DEF Places!Idle, Locks
<1>3. Places!Idle \in LocationWork
  BY DEF Places!Idle, LocationWork
<1> HIDE DEF Places!Idle
<1> QED
  BY <1>1, <1>2, <1>3 DEF Grasped, Apart

LEMMA LocationInit == Places!Init => LocationInv
<1> SUFFICES ASSUME Places!Init PROVE LocationInv
  OBVIOUS
<1>1. Places!Rows \subseteq Locations /\ id \in [Places!Rows -> Ids \cup {NoId}]
  BY DEF Places!Init, Places!Rows
<1>2. \A r \in LocationRequests : merge[r] = Places!Idle
  BY DEF Places!Init
<1> QED
  BY <1>1, <1>2, IdleGrasps DEF Places!Init, LocationInv, Places!MovedBookingsTakeTheirTasks

\* A statement that takes locks only.
LEMMA LocksKeepLocations ==
  ASSUME LocationInv, NEW r \in LocationRequests, NEW w, Places!Set(r, w), UNCHANGED <<id, place, missed>>,
         Grasped(w, Places!Rows, place),
         \A q \in LocationRequests \ {r} : Apart(w, merge[q], Places!Rows) /\ Apart(merge[q], w, Places!Rows)
  PROVE  LocationInv'
<1>1. /\ merge'[r] = w /\ \A q \in LocationRequests \ {r} : merge'[q] = merge[q]
      /\ DOMAIN merge' = LocationRequests /\ Places!Rows' = Places!Rows
  BY DEF Places!Set, LocationInv, Places!Rows
<1>2. \A q \in LocationRequests : Grasped(merge'[q], Places!Rows, place)
  BY <1>1 DEF LocationInv
<1>3. \A p, q \in LocationRequests : p # q => Apart(merge'[p], merge'[q], Places!Rows)
  BY <1>1 DEF LocationInv
<1> QED
  BY <1>1, <1>2, <1>3 DEF LocationInv, Places!MovedBookingsTakeTheirTasks

\* A request that takes the row l, as far as it changes its locks at all.
LEMMA NewTarget ==
  ASSUME LocationInv, NEW w, NEW r \in LocationRequests,
         w.target \in Places!Rows \cup {NoLocation} \/ \A q \in LocationRequests : merge[q].target # w.target
  PROVE  \A q \in LocationRequests \ {r} :
           merge[q].stage = "located" /\ merge[q].target \notin Places!Rows => w.target # merge[q].target
BY PartsAssumption DEF Places!LocationMappingAssumption, LocationInv, Grasped

LEMMA ResolveKeepsLocations ==
  ASSUME LocationInv, NEW r \in LocationRequests, NEW i \in Ids, Places!ResolveLocation(r, i)
  PROVE  LocationInv'
<1>1. merge[r].stage = "importing" /\ UNCHANGED <<id, place, missed>>
  BY DEF Places!ResolveLocation
<1>2. merge[r] \in LocationWork /\ Locks(merge[r]) \subseteq Places!Rows
  BY DEF LocationInv, Grasped
<1>3. CASE \E l \in Places!Rows :
             /\ Places!FreeForNoKeyUpdate(l, r)
             /\ Places!Set(r, [merge[r] EXCEPT !.stage = "located", !.id = i, !.target = l, !.update = {l}])
  <2>1. PICK l \in Places!Rows :
             /\ Places!FreeForNoKeyUpdate(l, r)
             /\ Places!Set(r, [merge[r] EXCEPT !.stage = "located", !.id = i, !.target = l, !.update = {l}])
    BY <1>3
  <2> DEFINE w == [merge[r] EXCEPT !.stage = "located", !.id = i, !.target = l, !.update = {l}]
  <2>2. /\ w \in LocationWork /\ w.stage = "located" /\ w.target = l /\ w.update = {l}
        /\ w.strong = merge[r].strong /\ w.shared = merge[r].shared
    BY <1>2, <2>1 DEF LocationWork, LocationInv
  <2> HIDE DEF w
  <2>3. Grasped(w, Places!Rows, place)
    BY <1>2, <2>1, <2>2 DEF Grasped, Locks, LocationInv
  <2>4. \A q \in LocationRequests \ {r} : Apart(w, merge[q], Places!Rows)
    BY <2>1, <2>2 DEF Apart, LocationInv
  <2>5. \A q \in LocationRequests \ {r} : Apart(merge[q], w, Places!Rows)
    BY <2>1, <2>2 DEF Apart, LocationInv, Locks, Places!FreeForNoKeyUpdate
  <2> QED
    BY <1>1, <2>1, <2>3, <2>4, <2>5, LocksKeepLocations DEF w
<1>4. CASE \E l \in Locations \ Places!Rows :
             /\ \A q \in LocationRequests : merge[q].target # l
             /\ Places!Set(r, [merge[r] EXCEPT !.stage = "located", !.id = i, !.target = l])
  <2>1. PICK l \in Locations \ Places!Rows :
             /\ \A q \in LocationRequests : merge[q].target # l
             /\ Places!Set(r, [merge[r] EXCEPT !.stage = "located", !.id = i, !.target = l])
    BY <1>4
  <2> DEFINE w == [merge[r] EXCEPT !.stage = "located", !.id = i, !.target = l]
  <2>2. /\ w \in LocationWork /\ w.stage = "located" /\ w.target = l /\ w.update = merge[r].update
        /\ w.strong = merge[r].strong /\ w.shared = merge[r].shared
    BY <1>2, <2>1 DEF LocationWork
  <2> HIDE DEF w
  <2>3. Grasped(w, Places!Rows, place)
    BY <1>2, <2>1, <2>2 DEF Grasped, Locks
  <2>4. \A q \in LocationRequests \ {r} :
          Apart(w, merge[q], Places!Rows) /\ Apart(merge[q], w, Places!Rows)
    BY <2>1, <2>2 DEF Apart, LocationInv, Locks
  <2> QED
    BY <1>1, <2>1, <2>3, <2>4, LocksKeepLocations DEF w
<1> QED
  BY <1>3, <1>4 DEF Places!ResolveLocation

LEMMA LocksTaken ==
  ASSUME LocationInv, NEW r \in LocationRequests, NEW b, NEW l,
         \/ b \in Placed /\ (Places!BeginImport(r, b) \/ Places!BeginEdit(r, b, l))
         \/ Places!WriteEdit(r)
         \/ Places!LockTarget(r, l) \/ Places!LockSource(r, l) \/ Places!RewriteTasks(r)
         \/ Places!ReadLocation(r, l) \/ Places!Abort(r)
  PROVE  LocationInv'
<1> DEFINE rows == Places!Rows
<1>1. merge[r] \in LocationWork /\ Grasped(merge[r], rows, place) /\ rows \subseteq Locations
  BY DEF LocationInv, Grasped
<1>2. \A q \in LocationRequests \ {r} : Apart(merge[r], merge[q], rows) /\ Apart(merge[q], merge[r], rows)
  BY DEF LocationInv
<1>3. CASE b \in Placed /\ Places!BeginImport(r, b)
  <2> DEFINE w == [Places!Idle EXCEPT !.stage = "importing", !.booking = b]
  <2>1. w \in LocationWork /\ w.stage = "importing" /\ Locks(w) = {} /\ w.strong = {} /\ w.target = NoLocation
    BY <1>3 DEF Places!Idle, LocationWork, Locks
  <2>2. Places!Set(r, w) /\ UNCHANGED <<id, place, missed>>
    BY <1>3 DEF Places!BeginImport
  <2> HIDE DEF w
  <2> QED
    BY <1>3, <2>1, <2>2, NewTarget, LocksKeepLocations DEF Grasped, Apart
<1>4. CASE b \in Placed /\ Places!BeginEdit(r, b, l)
  <2> DEFINE w == [Places!Idle EXCEPT !.stage = "editing", !.booking = b, !.target = l]
  <2>1. w \in LocationWork /\ w.stage = "editing" /\ Locks(w) = {} /\ w.strong = {} /\ w.target = l
    BY <1>1, <1>4 DEF Places!Idle, LocationWork, Locks, Places!BeginEdit
  <2>2. l \in rows /\ Places!Set(r, w) /\ UNCHANGED <<id, place, missed>>
    BY <1>4 DEF Places!BeginEdit
  <2> HIDE DEF w
  <2> QED
    BY <2>1, <2>2, NewTarget, LocksKeepLocations DEF Grasped, Apart
<1>5. CASE Places!WriteEdit(r)
  <2> DEFINE k == merge[r].target
             w == [merge[r] EXCEPT !.stage = "placed", !.shared = {k}]
  <2>1. k \in rows /\ Places!FreeForKeyShare(k, r) /\ Places!Set(r, w) /\ UNCHANGED <<id, place, missed>>
    BY <1>5 DEF Places!WriteEdit
  <2>2. /\ w \in LocationWork /\ w.stage = "placed" /\ w.target = k /\ w.shared = {k}
        /\ w.strong = merge[r].strong /\ w.update = merge[r].update
    BY <1>1, <2>1 DEF LocationWork
  <2> HIDE DEF w
  <2>3. Grasped(w, rows, place)
    BY <1>1, <2>1, <2>2 DEF Grasped, Locks
  <2>4. \A q \in LocationRequests \ {r} : Apart(w, merge[q], rows) /\ Apart(merge[q], w, rows)
    BY <1>2, <2>1, <2>2 DEF Apart, Locks, Places!FreeForKeyShare
  <2> QED
    BY <2>1, <2>3, <2>4, LocksKeepLocations
<1>6. CASE Places!LockTarget(r, l)
  <2> DEFINE w == [Places!Idle EXCEPT !.stage = "target", !.target = l, !.strong = {l}]
  <2>1. l \in rows /\ Places!FreeForUpdate(l, r) /\ Places!Set(r, w) /\ UNCHANGED <<id, place, missed>>
    BY <1>6 DEF Places!LockTarget
  <2>2. w \in LocationWork /\ w.stage = "target" /\ Locks(w) = {l} /\ w.strong = {l} /\ w.target = l
    BY <1>1, <2>1 DEF Places!Idle, LocationWork, Locks
  <2> HIDE DEF w
  <2>3. Grasped(w, rows, place)
    BY <2>1, <2>2 DEF Grasped
  <2>4. \A q \in LocationRequests \ {r} : Apart(w, merge[q], rows)
    BY <2>1, <2>2 DEF Apart, Locks, Places!FreeForUpdate
  <2>5. \A q \in LocationRequests \ {r} : Apart(merge[q], w, rows)
    BY <2>1, <2>2, NewTarget DEF Apart, Places!FreeForUpdate
  <2> QED
    BY <2>1, <2>3, <2>4, <2>5, LocksKeepLocations
<1>7. CASE Places!LockSource(r, l)
  <2> DEFINE w == [merge[r] EXCEPT !.stage = "source", !.source = l, !.id = id[l], !.strong = @ \cup {l}]
  <2>1. /\ l \in rows /\ l # merge[r].target /\ Places!FreeForUpdate(l, r) /\ merge[r].stage = "target"
        /\ Places!Set(r, w) /\ UNCHANGED <<id, place, missed>>
    BY <1>7 DEF Places!LockSource
  <2>2. id[l] \in Ids \cup {NoId}
    BY <2>1 DEF LocationInv
  <2>3. /\ w \in LocationWork /\ w.stage = "source" /\ w.target = merge[r].target /\ w.source = l
        /\ w.strong = merge[r].strong \cup {l} /\ w.shared = merge[r].shared /\ w.update = merge[r].update
    BY <1>1, <2>1, <2>2 DEF LocationWork
  <2> HIDE DEF w
  <2>4. Grasped(w, rows, place)
    BY <1>1, <2>1, <2>3 DEF Grasped, Locks
  <2>5. \A q \in LocationRequests \ {r} : Apart(w, merge[q], rows) /\ Apart(merge[q], w, rows)
    BY <1>2, <2>1, <2>3 DEF Apart, Locks, Places!FreeForUpdate
  <2> QED
    BY <2>1, <2>4, <2>5, LocksKeepLocations
<1>8. CASE Places!RewriteTasks(r)
  <2> DEFINE found == {c \in Placed : place[c] \in {merge[r].target, merge[r].source}}
             w == [merge[r] EXCEPT !.stage = "moving", !.affected = found]
  <2>1. merge[r].stage = "source" /\ Places!Set(r, w) /\ UNCHANGED <<id, place, missed>>
    BY <1>8 DEF Places!RewriteTasks
  <2>2. /\ w \in LocationWork /\ w.stage = "moving" /\ w.target = merge[r].target
        /\ w.source = merge[r].source /\ w.affected = found
        /\ w.strong = merge[r].strong /\ w.shared = merge[r].shared /\ w.update = merge[r].update
    BY <1>1, <2>1 DEF LocationWork
  <2> HIDE DEF w
  <2>3. Grasped(w, rows, place)
    BY <1>1, <2>1, <2>2 DEF Grasped, Locks
  <2>4. \A q \in LocationRequests \ {r} : Apart(w, merge[q], rows) /\ Apart(merge[q], w, rows)
    BY <1>2, <2>1, <2>2 DEF Apart, Locks
  <2> QED
    BY <2>1, <2>3, <2>4, LocksKeepLocations
<1>9. CASE Places!ReadLocation(r, l)
  <2>1. PICK i \in {id[l], NoId} \cup Ids :
          Places!Set(r, [Places!Idle EXCEPT !.stage = "changing", !.source = l, !.id = i])
    BY <1>9 DEF Places!ReadLocation
  <2> DEFINE w == [Places!Idle EXCEPT !.stage = "changing", !.source = l, !.id = i]
  <2>2. i \in Ids \cup {NoId} /\ UNCHANGED <<id, place, missed>>
    BY <1>9 DEF Places!ReadLocation, LocationInv
  <2>3. w \in LocationWork /\ w.stage = "changing" /\ Locks(w) = {} /\ w.strong = {} /\ w.target = NoLocation
    BY <1>1, <1>9, <2>2 DEF Places!ReadLocation, Places!Idle, LocationWork, Locks
  <2>4. Places!Set(r, w)
    BY <2>1
  <2> HIDE DEF w
  <2> QED
    BY <2>2, <2>3, <2>4, NewTarget, LocksKeepLocations DEF Grasped, Apart
<1>10. CASE Places!Abort(r)
  BY <1>10, IdleGrasps, LocksKeepLocations DEF Places!Abort, LocationInv
<1> QED
  BY <1>3, <1>4, <1>5, <1>6, <1>7, <1>8, <1>9, <1>10

\* A transaction that ends, when what it does leaves the others their rows.
LEMMA CommitKeepsLocations ==
  ASSUME LocationInv, NEW r \in LocationRequests, Places!Set(r, Places!Idle),
         Places!Rows' \subseteq Locations, id' \in [Places!Rows' -> Ids \cup {NoId}],
         place' \in [Placed -> Places!Rows' \cup {NoLocation}],
         \A q \in LocationRequests \ {r} :
           /\ Grasped(merge[q], Places!Rows', place')
           /\ \A p \in LocationRequests \ {q, r} : Apart(merge[q], merge[p], Places!Rows'),
         Places!MovedBookingsTakeTheirTasks'
  PROVE  LocationInv'
<1>1. /\ merge'[r] = Places!Idle /\ \A q \in LocationRequests \ {r} : merge'[q] = merge[q]
      /\ DOMAIN merge' = LocationRequests
  BY DEF Places!Set, LocationInv
<1>2. \A q \in LocationRequests : Grasped(merge'[q], Places!Rows', place')
  BY <1>1, IdleGrasps
<1>3. \A p, q \in LocationRequests : p # q => Apart(merge'[p], merge'[q], Places!Rows')
  BY <1>1, IdleGrasps
<1> QED
  BY <1>1, <1>2, <1>3 DEF LocationInv

\* Where a booking is put while another request moves a location: not there.
LEMMA CommitImportKeeps == ASSUME LocationInv, NEW r \in LocationRequests, Places!CommitImport(r) PROVE LocationInv'
<1> DEFINE w == merge[r]
           rows == Places!Rows
<1>1. /\ w.stage = "located" /\ Places!Set(r, Places!Idle) /\ UNCHANGED missed
      /\ id' = [l \in rows \cup {w.target} |-> IF l = w.target THEN w.id ELSE id[l]]
      /\ place' = [place EXCEPT ![w.booking] = w.target] \/ UNCHANGED place
  BY DEF Places!CommitImport
<1>2. w.target \in Locations /\ (w.target \in w.update \/ w.target \notin rows)
      /\ w.id \in Ids \cup {NoId} /\ Locks(w) \subseteq rows
  BY <1>1 DEF LocationInv, Grasped, LocationWork
<1>3. /\ rows \subseteq Locations /\ id \in [rows -> Ids \cup {NoId}]
      /\ place \in [Placed -> rows \cup {NoLocation}]
  BY DEF LocationInv
<1>4. Places!Rows' = rows \cup {w.target} /\ Places!Rows' \subseteq Locations
  BY <1>1, <1>2, <1>3 DEF Places!Rows
<1>5. id' \in [Places!Rows' -> Ids \cup {NoId}] /\ place' \in [Placed -> Places!Rows' \cup {NoLocation}]
  BY <1>1, <1>2, <1>3, <1>4
<1>6. \A b \in Placed : place'[b] = place[b] \/ place'[b] = w.target
  BY <1>1, <1>3
<1>7. ASSUME NEW q \in LocationRequests \ {r}
      PROVE  /\ Grasped(merge[q], Places!Rows', place')
             /\ \A p \in LocationRequests \ {q, r} : Apart(merge[q], merge[p], Places!Rows')
  <2>1. /\ Grasped(merge[q], rows, place) /\ Apart(merge[q], w, rows) /\ Apart(w, merge[q], rows)
        /\ \A p \in LocationRequests \ {q, r} : Apart(merge[q], merge[p], rows)
    BY DEF LocationInv
  <2>2. w.target \notin merge[q].strong
    BY <1>2, <2>1 DEF Grasped, Apart, Locks
  <2>3. merge[q].stage = "located" /\ merge[q].target \notin rows => merge[q].target # w.target
    BY <1>1, <2>1 DEF Apart
  <2>4. merge[q].stage = "located" => merge[q].target \in merge[q].update \/ merge[q].target \notin Places!Rows'
    BY <1>4, <2>1, <2>3 DEF Grasped
  <2>5. merge[q].stage = "moving" => \A b \in Placed : place'[b] = merge[q].source => b \in merge[q].affected
    BY <1>6, <2>1, <2>2 DEF Grasped
  <2>6. Grasped(merge[q], Places!Rows', place')
    BY <1>4, <2>1, <2>4, <2>5 DEF Grasped
  <2> QED
    BY <1>4, <2>1, <2>6 DEF Apart
<1> QED
  BY <1>1, <1>4, <1>5, <1>7, CommitKeepsLocations DEF LocationInv, Places!MovedBookingsTakeTheirTasks

LEMMA CommitEditKeeps == ASSUME LocationInv, NEW r \in LocationRequests, Places!CommitEdit(r) PROVE LocationInv'
<1> DEFINE w == merge[r]
           rows == Places!Rows
<1>1. /\ w.stage = "placed" /\ Places!Set(r, Places!Idle) /\ UNCHANGED <<id, missed>>
      /\ place' = [place EXCEPT ![w.booking] = w.target] /\ Places!Rows' = rows
  BY DEF Places!CommitEdit, Places!Rows
<1>2. w.target \in w.shared /\ w.target \in rows
  BY <1>1 DEF LocationInv, Grasped, Locks
<1>3. /\ rows \subseteq Locations /\ id \in [rows -> Ids \cup {NoId}]
      /\ place \in [Placed -> rows \cup {NoLocation}]
  BY DEF LocationInv
<1>4. place' \in [Placed -> rows \cup {NoLocation}] /\ \A b \in Placed : place'[b] = place[b] \/ place'[b] = w.target
  BY <1>1, <1>2, <1>3
<1>5. ASSUME NEW q \in LocationRequests \ {r}
      PROVE  /\ Grasped(merge[q], rows, place')
             /\ \A p \in LocationRequests \ {q, r} : Apart(merge[q], merge[p], rows)
  <2>1. /\ Grasped(merge[q], rows, place) /\ Apart(merge[q], w, rows)
        /\ \A p \in LocationRequests \ {q, r} : Apart(merge[q], merge[p], rows)
    BY DEF LocationInv
  <2>2. w.target \notin merge[q].strong
    BY <1>2, <2>1 DEF Apart, Locks
  <2> QED
    BY <1>4, <2>1, <2>2 DEF Grasped
<1> QED
  BY <1>1, <1>3, <1>4, <1>5, CommitKeepsLocations DEF LocationInv, Places!MovedBookingsTakeTheirTasks

\* The bookings at the source were all there when the tasks were rewritten.
LEMMA MoveKeeps == ASSUME LocationInv, NEW r \in LocationRequests, Places!MoveAndCommit(r) PROVE LocationInv'
<1> DEFINE w == merge[r]
           rows == Places!Rows
           moved == {b \in Placed : place[b] = w.source}
<1>1. /\ w.stage = "moving" /\ Places!Set(r, Places!Idle)
      /\ place' = [b \in Placed |-> IF b \in moved THEN w.target ELSE place[b]]
      /\ id' = [l \in rows \ {w.source} |-> IF l = w.target THEN w.id ELSE id[l]]
      /\ missed' = missed \cup (moved \ w.affected)
      /\ Places!Rows' = rows \ {w.source}
  BY DEF Places!MoveAndCommit, Places!Rows
<1>2. /\ {w.source, w.target} \subseteq w.strong /\ w.source # w.target /\ Locks(w) \subseteq rows
      /\ moved \subseteq w.affected /\ w.id \in Ids \cup {NoId}
  BY <1>1 DEF LocationInv, Grasped, LocationWork
<1>3. /\ rows \subseteq Locations /\ id \in [rows -> Ids \cup {NoId}]
      /\ place \in [Placed -> rows \cup {NoLocation}]
  BY DEF LocationInv
<1>4. w.source \in rows /\ w.target \in rows \ {w.source}
  BY <1>2 DEF Locks
<1>5. /\ id' \in [rows \ {w.source} -> Ids \cup {NoId}]
      /\ place' \in [Placed -> (rows \ {w.source}) \cup {NoLocation}]
  BY <1>1, <1>2, <1>3, <1>4
<1>6. \A b \in Placed : place'[b] = place[b] \/ place'[b] = w.target
  BY <1>1
<1>7. missed' = {}
  BY <1>1, <1>2 DEF LocationInv, Places!MovedBookingsTakeTheirTasks
<1> HIDE DEF moved
<1>8. ASSUME NEW q \in LocationRequests \ {r}
      PROVE  /\ Grasped(merge[q], rows \ {w.source}, place')
             /\ \A p \in LocationRequests \ {q, r} : Apart(merge[q], merge[p], rows \ {w.source})
  <2>1. /\ Grasped(merge[q], rows, place) /\ Apart(merge[q], w, rows) /\ Apart(w, merge[q], rows)
        /\ \A p \in LocationRequests \ {q, r} : Apart(merge[q], merge[p], rows)
    BY DEF LocationInv
  <2>2. w.source \notin Locks(merge[q]) /\ w.target \notin merge[q].strong
    BY <1>2, <2>1 DEF Apart, Locks
  <2>3. Grasped(merge[q], rows \ {w.source}, place')
    BY <1>6, <2>1, <2>2 DEF Grasped
  <2>4. merge[q].stage = "located" /\ merge[q].target \notin rows \ {w.source} => merge[q].target \notin rows
    BY <2>1, <2>2 DEF Grasped, Locks
  <2> QED
    BY <2>1, <2>3, <2>4 DEF Apart
<1> QED
  BY <1>1, <1>3, <1>5, <1>7, <1>8, CommitKeepsLocations DEF Places!MovedBookingsTakeTheirTasks

LEMMA WriteLocationKeeps == ASSUME LocationInv, NEW r \in LocationRequests, Places!WriteLocation(r) PROVE LocationInv'
<1> DEFINE l == merge[r].source
           i == merge[r].id
<1>1. /\ l \in Places!Rows /\ id' = [id EXCEPT ![l] = i] /\ Places!Set(r, Places!Idle)
      /\ UNCHANGED <<place, missed>>
  BY DEF Places!WriteLocation
<1>2. i \in Ids \cup {NoId} /\ id \in [Places!Rows -> Ids \cup {NoId}]
  BY DEF LocationInv, Grasped, LocationWork
<1> HIDE DEF l, i
<1>3. Places!Rows' = Places!Rows /\ id' \in [Places!Rows -> Ids \cup {NoId}]
  BY <1>1, <1>2 DEF Places!Rows
<1> QED
  BY <1>1, <1>3, CommitKeepsLocations DEF LocationInv, Places!MovedBookingsTakeTheirTasks

\* Rows that come and go without a transaction of their own.
LEMMA RowsKeepLocations ==
  ASSUME LocationInv, NEW l \in Locations, Places!CreateLocation(l) \/ Places!DeleteLocation(l)
  PROVE  LocationInv'
<1> DEFINE rows == Places!Rows
<1>1. UNCHANGED <<place, merge, missed>>
  BY DEF Places!CreateLocation, Places!DeleteLocation
<1>2. /\ rows \subseteq Locations /\ id \in [rows -> Ids \cup {NoId}]
      /\ place \in [Placed -> rows \cup {NoLocation}]
  BY DEF LocationInv
<1>3. CASE Places!CreateLocation(l)
  <2>1. PICK i \in Ids \cup {NoId} : id' = [k \in rows \cup {l} |-> IF k = l THEN i ELSE id[k]]
    BY <1>3 DEF Places!CreateLocation
  <2>2. Places!Rows' = rows \cup {l} /\ id' \in [rows \cup {l} -> Ids \cup {NoId}]
    BY <1>2, <2>1 DEF Places!Rows
  <2>3. \A q \in LocationRequests : merge[q].target # l
    BY <1>3 DEF Places!CreateLocation
  <2>4. \A q \in LocationRequests : Grasped(merge[q], rows \cup {l}, place)
    BY <2>3 DEF LocationInv, Grasped
  <2>5. \A p, q \in LocationRequests : p # q => Apart(merge[p], merge[q], rows \cup {l})
    BY DEF LocationInv, Apart
  <2> QED
    BY <1>1, <1>2, <2>2, <2>4, <2>5 DEF LocationInv, Places!MovedBookingsTakeTheirTasks
<1>4. CASE Places!DeleteLocation(l)
  <2>1. id' = [k \in rows \ {l} |-> id[k]] /\ \A b \in Placed : place[b] # l
    BY <1>4 DEF Places!DeleteLocation
  <2>2. Places!Rows' = rows \ {l} /\ id' \in [rows \ {l} -> Ids \cup {NoId}]
        /\ place \in [Placed -> (rows \ {l}) \cup {NoLocation}]
    BY <1>2, <2>1 DEF Places!Rows
  <2>3. \A q \in LocationRequests : l \notin Locks(merge[q])
    BY <1>4 DEF Places!DeleteLocation, Locks
  <2>4. \A q \in LocationRequests : Grasped(merge[q], rows \ {l}, place)
    BY <2>3 DEF LocationInv, Grasped
  <2>5. \A p, q \in LocationRequests : p # q => Apart(merge[p], merge[q], rows \ {l})
    <3> SUFFICES ASSUME NEW p \in LocationRequests, NEW q \in LocationRequests, p # q
                 PROVE  Apart(merge[p], merge[q], rows \ {l})
      OBVIOUS
    <3>1. merge[p].stage = "located" /\ merge[p].target \notin rows \ {l} => merge[p].target \notin rows
      BY <2>3 DEF LocationInv, Grasped, Locks
    <3> QED
      BY <3>1 DEF LocationInv, Apart
  <2> QED
    BY <1>1, <1>2, <2>2, <2>4, <2>5 DEF LocationInv, Places!MovedBookingsTakeTheirTasks
<1> QED
  BY <1>3, <1>4

LEMMA LocationStep == LocationInv /\ [Places!Next]_locationVars => LocationInv'
<1> SUFFICES ASSUME LocationInv, [Places!Next]_locationVars PROVE LocationInv'
  OBVIOUS
<1>1. CASE UNCHANGED locationVars
  BY <1>1 DEF locationVars, LocationInv, Places!Rows, Places!MovedBookingsTakeTheirTasks
<1>2. ASSUME NEW r \in LocationRequests,
             \/ \E b \in Placed : Places!BeginImport(r, b) \/ \E l \in Locations : Places!BeginEdit(r, b, l)
             \/ \E l \in Locations : Places!LockTarget(r, l) \/ Places!LockSource(r, l) \/ Places!ReadLocation(r, l)
             \/ Places!WriteEdit(r) \/ Places!RewriteTasks(r) \/ Places!Abort(r)
      PROVE  LocationInv'
  BY <1>2, LocksTaken
<1>3. ASSUME NEW r \in LocationRequests,
             \/ \E i \in Ids : Places!ResolveLocation(r, i)
             \/ Places!CommitImport(r) \/ Places!CommitEdit(r) \/ Places!MoveAndCommit(r) \/ Places!WriteLocation(r)
      PROVE  LocationInv'
  BY <1>3, ResolveKeepsLocations, CommitImportKeeps, CommitEditKeeps, MoveKeeps, WriteLocationKeeps
<1> QED
  BY <1>1, <1>2, <1>3, RowsKeepLocations DEF Places!Next

\* The locations of LocationMapping.tla: a booking that moves with its location
\* takes its tasks along, for any number of imports, edits and merges at once.
THEOREM MergesMissNothing == Places!Spec => []Places!MovedBookingsTakeTheirTasks
<1>1. LocationInv => Places!MovedBookingsTakeTheirTasks
  BY DEF LocationInv
<1>2. Places!Spec => Places!Init /\ [][Places!Next]_locationVars
  BY DEF Places!Spec, Places!vars, locationVars
<1> QED
  BY LocationInit, LocationStep, <1>1, <1>2, PTL

\* The options of BookingOptions.tla are numbered without a gap.
THEOREM OptionsAreDense == OptionList!Spec => []OptionList!OptionsStayDense
<1>1. OptionInv => OptionList!OptionsStayDense
  BY SameLists DEF OptionInv, OptionRows, OptionList!OptionsStayDense
<1>2. OptionList!Spec => OptionList!Init /\ [][OptionList!Next]_optionVars
  BY DEF OptionList!Spec, OptionList!vars, optionVars
<1> QED
  BY OptionInit, OptionStep, <1>1, <1>2, PTL

-----------------------------------------------------------------------------
(* The run checks the three side by side.                                      *)

LEMMA SideBySide == MCSpec => [](BoardInv /\ OptionInv /\ LocationInv)
<1> DEFINE AllInv == BoardInv /\ OptionInv /\ LocationInv
<1>1. MCInit => AllInv
  BY BoardInit, OptionInit, LocationInit DEF MCInit
<1>2. AllInv /\ [MCNext]_<<part, vars, optionVars, locationVars>> => AllInv'
  <2>1. [MCNext]_<<part, vars, optionVars, locationVars>> =>
          [Next]_vars /\ [OptionList!Next]_optionVars /\ [Places!Next]_locationVars
    BY DEF MCNext, BoardPart, OptionPart, LocationPart
  <2> QED
    BY <2>1, BoardStep, OptionStep, LocationStep
<1> QED
  BY <1>1, <1>2, PTL DEF MCSpec

\* The two lists of positions: no creation, move or deletion of a column or an
\* option leaves a gap, but for the deletion that missed a column.
THEOREM PositionsAreDense == MCSpec => []PositionsStayDense
<1>1. BoardInv /\ OptionInv => PositionsStayDense
  BY SameLists DEF BoardInv, ColumnInv, OptionInv, OptionRows, OptionList!OptionsStayDense, PositionsStayDense
<1> QED
  BY SideBySide, <1>1, PTL

\* A booking that moves with its location takes its tasks along.
THEOREM MovesAreComplete == MCSpec => []MovedBookingsTakeTheirTasks
<1>1. LocationInv => MovedBookingsTakeTheirTasks
  BY DEF LocationInv, MovedBookingsTakeTheirTasks
<1> QED
  BY SideBySide, <1>1, PTL
=============================================================================
