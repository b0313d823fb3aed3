--------------------------- MODULE ReadingsProofs ----------------------------
(***************************************************************************)
(* Proofs about the two readers of readings: of the lineages for every     *)
(* table of rows, of the csv for every stream of readings, and of the      *)
(* bundle for every list of reports and of states.                         *)
(*                                                                         *)
(* A lemma about one step has the name of what it keeps and of the step;   *)
(* the invariants are KnitInv (the lineages, in both), CsvInv and          *)
(* CollectInv (the csv), BundleInv (the bundle).                           *)
(***************************************************************************)
EXTENDS ReadingsCsv, ReadingsBundle, OrderedProofs

-----------------------------------------------------------------------------
(* The inductive invariant of the loop of lineages(). *)

\* A row not taken, or with no scale, is alone; the roots of the others are among them.
Alone ==
    \A i \in 1..Len(rows) :
        /\ i \notin Scaled => root[i] = i
        /\ i \in Scaled => root[i] \in Scaled

\* The first row of a name has it, and every row of the name has its root.
NamesMet ==
    /\ \A n \in Names : byName[n] # 0 => rows[byName[n]].name = n
    /\ \A i \in Scaled : byName[rows[i].name] # 0 /\ root[byName[rows[i].name]] = root[i]

\* The same of channel Ids.
IdsMet ==
    /\ \A c \in ChannelIds : byId[c] # 0 => rows[byId[c]].channel_id = c
    /\ \A i \in Scaled : rows[i].channel_id # NoId =>
          byId[rows[i].channel_id] # 0 /\ root[byId[rows[i].channel_id]] = root[i]

\* r tells no two rows of one set apart that S does.
Respects(r, S) == \A i, j \in DOMAIN r : r[i] = r[j] => (i \in S <=> j \in S)

\* No more is joined than has to be: a closed set is made of whole lineages.
Sound == \A S \in SUBSET Scaled : Closed(S) => Respects(root, S)

KnitInv == TypeOK /\ Alone /\ NamesMet /\ IdsMet /\ Sound

-----------------------------------------------------------------------------
\* The roots r of N rows, roots q that tell no more of them apart, and roots that leave
\* the rows outside D alone.
Roots(r, N) == r \in [1..N -> 1..N]

Coarser(q, r, N) == \A k, l \in 1..N : r[k] = r[l] => q[k] = q[l]

StaysIn(r, D, N) == /\ \A k \in D : r[k] \in D
                  /\ \A k \in (1..N) \ D : r[k] = k

\* What a join by a key does to the roots.
LEMMA JoinedByFacts ==
    ASSUME NEW N \in Nat, NEW r, Roots(r, N), NEW i \in 1..N, NEW j \in 0..N
    PROVE  /\ Roots(JoinedBy(r, i, j), N)
           /\ Coarser(JoinedBy(r, i, j), r, N)
           /\ j # 0 => JoinedBy(r, i, j)[i] = JoinedBy(r, i, j)[j]
<1>1. CASE j = 0
  BY <1>1 DEF JoinedBy, Roots, Coarser
<1>2. CASE j # 0
  BY SMTT(30), <1>2 DEF JoinedBy, Join, Roots, Coarser
<1> QED BY <1>1, <1>2

\* A join within a set S or outside it keeps S made of whole lineages.
LEMMA JoinedByRespects ==
    ASSUME NEW N \in Nat, NEW r, Roots(r, N), NEW i \in 1..N, NEW j \in 0..N,
           NEW S, Respects(r, S), j # 0 => (i \in S <=> j \in S)
    PROVE  Respects(JoinedBy(r, i, j), S)
<1>1. CASE j = 0
  BY <1>1 DEF JoinedBy
<1>2. CASE j # 0
  <2>1. r \in [1..N -> 1..N] /\ DOMAIN r = 1..N /\ DOMAIN JoinedBy(r, i, j) = 1..N
    BY <1>2 DEF Roots, JoinedBy, Join
  <2>2. \A k \in 1..N : JoinedBy(r, i, j)[k] = IF r[k] = r[i] THEN r[j] ELSE r[k]
    BY SMTT(30), <1>2, <2>1 DEF JoinedBy, Join
  <2> QED BY SMTT(30), <1>2, <2>1, <2>2 DEF Respects
<1> QED BY <1>1, <1>2

\* A join of two rows of D leaves the rows outside D alone.
LEMMA JoinedByStays ==
    ASSUME NEW N \in Nat, NEW r, Roots(r, N), NEW i \in 1..N, NEW j \in 0..N,
           NEW D \in SUBSET (1..N), i \in D, j # 0 => j \in D, StaysIn(r, D, N)
    PROVE  StaysIn(JoinedBy(r, i, j), D, N)
<1>1. CASE j = 0
  BY <1>1 DEF JoinedBy
<1>2. CASE j # 0
  BY <1>2 DEF JoinedBy, Join, Roots, StaysIn
<1> QED BY <1>1, <1>2

\* The rows and their fields have their types.
LEMMA RowTypes ==
    ASSUME TypeOK
    PROVE  /\ Len(rows) \in Nat
           /\ \A i \in 1..Len(rows) :
                 /\ rows[i].name \in Names
                 /\ rows[i].channel_id \in ChannelIds \cup {NoId}
                 /\ rows[i].retired_at \in Nat
                 /\ rows[i].state \in BOOLEAN
                 /\ rows[i].unit \in Units
<1>1. rows \in Seq(Row)
  BY LineagesAssumption DEF TypeOK
<1>2. Len(rows) \in Nat /\ \A i \in 1..Len(rows) : rows[i] \in Row
  BY <1>1
<1> QED BY <1>2 DEF Row

\* No row is taken at first.
LEMMA InitKnits == Init => KnitInv
<1> SUFFICES ASSUME Init PROVE KnitInv
  OBVIOUS
<1>1. rows \in Seq(Row)
  BY LineagesAssumption DEF Init
<1>2. Scaled = {}
  BY <1>1 DEF Init, Scaled
<1>3. TypeOK
  BY <1>1, <1>2 DEF Init, TypeOK
<1>4. Alone /\ NamesMet /\ IdsMet
  BY <1>2 DEF Init, Alone, NamesMet, IdsMet
<1>5. Sound
  BY <1>1, <1>2 DEF Init, Sound, Respects
<1> QED BY <1>3, <1>4, <1>5 DEF KnitInv

\* A row with no scale changes nothing but the count.
LEMMA SkippedRowKnits ==
    ASSUME KnitInv, TakeRow, rows[taken + 1].unit = NoScale
    PROVE  KnitInv'
<1>1. /\ taken' = taken + 1 /\ taken + 1 \in 1..Len(rows)
      /\ UNCHANGED <<rows, root, byName, byId>>
  BY RowTypes DEF KnitInv, TypeOK, TakeRow
<1>2. Scaled' = Scaled
  BY <1>1, RowTypes DEF KnitInv, TypeOK, Scaled
<1>3. TypeOK'
  BY <1>1, <1>2, RowTypes DEF KnitInv, TypeOK
<1>4. Alone' /\ NamesMet' /\ IdsMet'
  BY <1>1, <1>2 DEF KnitInv, Alone, NamesMet, IdsMet
<1>5. Sound'
  BY <1>1, <1>2 DEF KnitInv, Sound, Closed, Respects
<1> QED BY <1>3, <1>4, <1>5 DEF KnitInv

\* A row with a scale is joined to the first of its name and the first of its Id.
LEMMA TakenRowKnits ==
    ASSUME KnitInv, TakeRow, rows[taken + 1].unit # NoScale
    PROVE  KnitInv'
<1> DEFINE N == Len(rows)
           i == taken + 1
           n == rows[i].name
           c == rows[i].channel_id
           named == JoinedBy(root, i, byName[n])
           second == IF c = NoId THEN 0 ELSE byId[c]
<1>0. /\ N \in Nat /\ i \in 1..N /\ taken \in Nat
      /\ n \in Names /\ c \in ChannelIds \cup {NoId} /\ NoId \notin ChannelIds
      /\ root \in [1..N -> 1..N]
      /\ byName \in [Names -> {0} \cup Scaled] /\ byId \in [ChannelIds -> {0} \cup Scaled]
      /\ Scaled \subseteq 1..N /\ 0 \notin Scaled
  BY RowTypes, LineagesAssumption DEF KnitInv, TypeOK, TakeRow, Scaled
<1>1. /\ taken' = i /\ rows' = rows
      /\ root' = JoinedBy(named, i, second)
      /\ byName' = IF byName[n] = 0 THEN [byName EXCEPT ![n] = i] ELSE byName
      /\ byId' = IF c # NoId /\ byId[c] = 0 THEN [byId EXCEPT ![c] = i] ELSE byId
  BY <1>0 DEF TakeRow, JoinedBy
<1>2. Scaled' = Scaled \cup {i} /\ i \notin Scaled
  BY <1>0, <1>1 DEF Scaled
<1>3. /\ byName[n] \in 0..N /\ second \in 0..N
      /\ byName[n] # 0 => byName[n] \in Scaled /\ rows[byName[n]].name = n
      /\ second # 0 => second \in Scaled /\ rows[second].channel_id = c /\ c # NoId
  <2>1. byName[n] \in {0} \cup Scaled /\ second \in {0} \cup Scaled
    BY <1>0
  <2>2. \A k \in {0} \cup Scaled : k \in 0..N /\ (k # 0 => k \in Scaled)
    BY <1>0
  <2>3. byName[n] # 0 => rows[byName[n]].name = n
    BY <1>0 DEF KnitInv, NamesMet
  <2>4. second # 0 => rows[second].channel_id = c /\ c # NoId
    BY <1>0 DEF KnitInv, IdsMet
  <2> HIDE DEF second, n, c, N
  <2> QED BY <2>1, <2>2, <2>3, <2>4
<1>4. /\ Roots(named, N) /\ Coarser(named, root, N)
      /\ byName[n] # 0 => named[i] = named[byName[n]]
  <2>1. N \in Nat /\ Roots(root, N) /\ i \in 1..N /\ byName[n] \in 0..N
    BY <1>0, <1>3 DEF Roots
  <2>2. named = JoinedBy(root, i, byName[n])
    OBVIOUS
  <2> HIDE DEF named, second, N, n, c, i
  <2> QED BY <2>1, <2>2, JoinedByFacts
<1>5. /\ Roots(root', N) /\ Coarser(root', named, N)
      /\ second # 0 => root'[i] = root'[second]
  <2>1. N \in Nat /\ Roots(named, N) /\ i \in 1..N /\ second \in 0..N
    BY <1>0, <1>3, <1>4
  <2>2. root' = JoinedBy(named, i, second)
    BY <1>1
  <2> HIDE DEF named, second, N, n, c, i
  <2> QED BY <2>1, <2>2, JoinedByFacts
<1>6. TypeOK'
  <2>1. rows \in Tables /\ rows' = rows /\ taken' \in 0..Len(rows)
    BY <1>0, <1>1 DEF KnitInv, TypeOK
  <2>2. root' \in [1..Len(rows) -> 1..Len(rows)]
    BY <1>5 DEF Roots
  <2>3. byName' \in [Names -> {0} \cup Scaled']
    BY <1>0, <1>1, <1>2
  <2>4. byId' \in [ChannelIds -> {0} \cup Scaled']
    BY <1>0, <1>1, <1>2
  <2> QED BY <2>1, <2>2, <2>3, <2>4 DEF TypeOK
<1>7. Alone'
  <2> DEFINE D == Scaled \cup {i}
  <2>1. /\ N \in Nat /\ i \in 1..N /\ byName[n] \in 0..N /\ second \in 0..N
        /\ D \in SUBSET (1..N) /\ i \in D
        /\ byName[n] # 0 => byName[n] \in D
        /\ second # 0 => second \in D
    BY <1>0, <1>3
  <2>2. StaysIn(root, D, N) /\ Roots(root, N)
    BY <1>0, <1>2 DEF KnitInv, Alone, StaysIn, Roots
  <2>3. StaysIn(named, D, N)
    <3> HIDE DEF D, N, n, c, i, second
    <3> QED BY <2>1, <2>2, JoinedByStays
  <2>4. StaysIn(root', D, N)
    <3>1. root' = JoinedBy(named, i, second)
      BY <1>1
    <3> HIDE DEF D, N, n, c, i, named, second
    <3> QED BY <1>4, <2>1, <2>3, <3>1, JoinedByStays
  <2> QED BY <1>1, <1>2, <2>4 DEF Alone, StaysIn
<1>8. \A k, l \in 1..N : root[k] = root[l] => root'[k] = root'[l]
  BY <1>4, <1>5 DEF Coarser
<1>9. NamesMet'
  <2>1. \A m \in Names : byName'[m] # 0 => rows[byName'[m]].name = m
    BY <1>0, <1>1 DEF KnitInv, NamesMet
  <2>2. ASSUME NEW k \in Scaled
        PROVE  byName'[rows[k].name] # 0 /\ root'[byName'[rows[k].name]] = root'[k]
    <3>1. byName[rows[k].name] # 0 /\ root[byName[rows[k].name]] = root[k]
      BY DEF KnitInv, NamesMet
    <3>2. rows[k].name \in Names /\ byName[rows[k].name] \in Scaled
      BY <1>0, <3>1, RowTypes DEF KnitInv
    <3>3. byName'[rows[k].name] = byName[rows[k].name]
      BY <1>0, <1>1, <3>1, <3>2
    <3>4. byName[rows[k].name] \in 1..N /\ k \in 1..N
      BY <1>0, <3>2
    <3>5. root'[byName[rows[k].name]] = root'[k]
      BY <1>8, <3>1, <3>4
    <3> QED BY <3>1, <3>3, <3>5
  <2>3. byName'[n] # 0 /\ root'[byName'[n]] = root'[i]
    <3>1. CASE byName[n] = 0
      BY <1>0, <1>1, <3>1
    <3>2. CASE byName[n] # 0
      <4>1. byName' = byName /\ byName[n] \in 1..N /\ i \in 1..N
        BY <1>0, <1>1, <1>3, <3>2
      <4>2. named[i] = named[byName[n]]
        BY <1>4, <3>2
      <4> HIDE DEF N, n, i, named
      <4> QED BY <1>5, <3>2, <4>1, <4>2 DEF Coarser
    <3> QED BY <3>1, <3>2
  <2>4. ASSUME NEW k \in Scaled'
        PROVE  byName'[rows[k].name] # 0 /\ root'[byName'[rows[k].name]] = root'[k]
    BY <1>2, <2>2, <2>3
  <2> QED BY <1>1, <2>1, <2>4 DEF NamesMet
<1>10. IdsMet'
  <2>1. \A m \in ChannelIds : byId'[m] # 0 => rows[byId'[m]].channel_id = m
    BY <1>0, <1>1 DEF KnitInv, IdsMet
  <2>2. ASSUME NEW k \in Scaled, rows[k].channel_id # NoId
        PROVE  byId'[rows[k].channel_id] # 0 /\ root'[byId'[rows[k].channel_id]] = root'[k]
    <3>1. byId[rows[k].channel_id] # 0 /\ root[byId[rows[k].channel_id]] = root[k]
      BY <2>2 DEF KnitInv, IdsMet
    <3>2. rows[k].channel_id \in ChannelIds /\ byId[rows[k].channel_id] \in Scaled
      BY <1>0, <2>2, <3>1, RowTypes DEF KnitInv
    <3>3. byId'[rows[k].channel_id] = byId[rows[k].channel_id]
      BY <1>0, <1>1, <3>1, <3>2
    <3>4. byId[rows[k].channel_id] \in 1..N /\ k \in 1..N
      BY <1>0, <3>2
    <3>5. root'[byId[rows[k].channel_id]] = root'[k]
      BY <1>8, <3>1, <3>4
    <3> QED BY <3>1, <3>3, <3>5
  <2>3. c # NoId => byId'[c] # 0 /\ root'[byId'[c]] = root'[i]
    <3>1. CASE c # NoId /\ byId[c] = 0
      BY <1>0, <1>1, <3>1
    <3>2. CASE c # NoId /\ byId[c] # 0
      BY <1>0, <1>1, <1>3, <1>5, <3>2
    <3> QED BY <3>1, <3>2
  <2>4. ASSUME NEW k \in Scaled', rows[k].channel_id # NoId
        PROVE  byId'[rows[k].channel_id] # 0 /\ root'[byId'[rows[k].channel_id]] = root'[k]
    BY <1>2, <2>2, <2>3, <2>4
  <2> QED BY <1>1, <2>1, <2>4 DEF IdsMet
<1>11. Sound'
  <2> SUFFICES ASSUME NEW S \in SUBSET (Scaled \cup {i}), Closed(S)'
               PROVE  Respects(root', S)
    BY <1>2 DEF Sound
  <2>1. \A k \in S : \A l \in (Scaled \cup {i}) \ S :
           /\ rows[k].name # rows[l].name
           /\ rows[k].channel_id = NoId \/ rows[k].channel_id # rows[l].channel_id
    BY <1>1, <1>2 DEF Closed
  <2>2. Respects(root, S \ {i})
    <3>1. Closed(S \ {i})
      BY <1>2, <2>1 DEF Closed
    <3> QED BY <3>1 DEF KnitInv, Sound
  <2>3. Respects(root, S)
    <3>1. \A k \in 1..N : root[k] = root[i] => k = i
      BY <1>0, <1>2 DEF KnitInv, Alone
    <3> QED BY <1>0, <2>2, <3>1 DEF Respects
  <2>4. byName[n] # 0 => (i \in S <=> byName[n] \in S)
    BY <1>0, <1>3, <2>1
  <2>5. second # 0 => (i \in S <=> second \in S)
    BY <1>0, <1>3, <2>1
  <2>6. Respects(named, S)
    BY <1>0, <1>3, <2>3, <2>4, JoinedByRespects DEF Roots
  <2>7. Respects(JoinedBy(named, i, second), S)
    <3> HIDE DEF named, second
    <3> QED BY <1>0, <1>3, <1>4, <2>5, <2>6, JoinedByRespects
  <2> QED BY <1>1, <2>7
<1> QED BY <1>6, <1>7, <1>9, <1>10, <1>11 DEF KnitInv

\* A row taken keeps the invariant, with a scale or without.
LEMMA TakeRowKnits == KnitInv /\ TakeRow => KnitInv'
  BY SkippedRowKnits, TakenRowKnits

\* The invariant holds of a step that leaves the loop's variables alone.
LEMMA StutterKnits == KnitInv /\ UNCHANGED knitVars => KnitInv'
<1> SUFFICES ASSUME KnitInv, UNCHANGED knitVars PROVE KnitInv'
  OBVIOUS
<1>1. UNCHANGED <<rows, taken, root, byName, byId>> /\ Scaled' = Scaled
  BY DEF knitVars, Scaled
<1> QED BY <1>1 DEF KnitInv, TypeOK, Alone, NamesMet, IdsMet, Sound, Closed, Respects

\* The roots tell exactly the lineages.
LEMMA KnitExact == KnitInv => LineagesExact
<1> SUFFICES ASSUME KnitInv, NEW i \in Scaled, NEW j \in Scaled
             PROVE  root[i] = root[j] <=> Connected(i, j)
  BY DEF LineagesExact
<1>0. Scaled \subseteq 1..Len(rows) /\ DOMAIN root = 1..Len(rows)
  BY RowTypes DEF KnitInv, TypeOK, Scaled
<1>1. root[i] = root[j] => Connected(i, j)
  BY <1>0 DEF KnitInv, Sound, Respects, Connected
<1>2. ASSUME Connected(i, j) PROVE root[i] = root[j]
  <2> DEFINE S == {k \in Scaled : root[k] = root[i]}
  <2>1. Closed(S)
    BY DEF KnitInv, NamesMet, IdsMet, Closed
  <2> QED BY <1>2, <2>1 DEF Connected
<1> QED BY <1>1, <1>2

\* No two columns have a name or a channel Id in common, and every row with a scale is
\* in one: a heading, or a name asked for, is one column's (readings_units.py lineages,
\* which csv_generator relies on where it collects readings by heading).
ColumnsApart ==
    /\ UNION Columns = Scaled
    /\ \A c, d \in Columns :
          \A i \in c, j \in d :
              \/ rows[i].name = rows[j].name
              \/ rows[i].channel_id # NoId /\ rows[i].channel_id = rows[j].channel_id
              => c = d

\* The roots make the columns.
LEMMA KnitApart == KnitInv => ColumnsApart
<1> SUFFICES ASSUME KnitInv PROVE ColumnsApart
  OBVIOUS
<1>1. UNION Columns = Scaled
  BY DEF Columns
<1>2. ASSUME NEW c \in Columns, NEW d \in Columns, NEW i \in c, NEW j \in d,
             \/ rows[i].name = rows[j].name
             \/ rows[i].channel_id # NoId /\ rows[i].channel_id = rows[j].channel_id
      PROVE  c = d
  <2>1. i \in Scaled /\ j \in Scaled
    BY DEF Columns
  <2>2. root[i] = root[j]
    BY <1>2, <2>1 DEF KnitInv, NamesMet, IdsMet
  <2>3. c = {k \in Scaled : root[k] = root[i]} /\ d = {k \in Scaled : root[k] = root[j]}
    BY DEF Columns
  <2> QED BY <2>2, <2>3
<1> QED BY <1>1, <1>2 DEF ColumnsApart

-----------------------------------------------------------------------------
(* The columns. *)

\* A column has its newest row, and a retired row of it tells the time it was.
LEMMA NewestFacts ==
    ASSUME KnitInv, NEW col \in Columns
    PROVE  /\ Newest(col) \in col
           /\ col \subseteq Scaled /\ col # {}
<1>1. col \subseteq Scaled /\ col # {}
  BY DEF Columns
<1>2. /\ Len(rows) \in Nat
      /\ col \in SUBSET (1..Len(rows))
      /\ \A i \in col : rows[i].retired_at \in Nat
  <2>1. Len(rows) \in Nat /\ \A i \in 1..Len(rows) : rows[i].retired_at \in Nat
    BY RowTypes DEF KnitInv
  <2>2. Scaled \subseteq 1..Len(rows)
    BY <2>1 DEF KnitInv, TypeOK, Scaled
  <2> QED BY <1>1, <2>1, <2>2
<1>3. \E i \in col : \A j \in col : ~NewerRow(j, i) /\ (j < i => NewerRow(i, j))
  <2> DEFINE Active == {i \in col : rows[i].retired_at = 0}
             times == {rows[i].retired_at : i \in col}
  <2>1. CASE Active # {}
    <3>1. Active \in SUBSET Nat
      BY <1>2
    <3>2. PICK i \in Active : \A j \in Active : i <= j
      BY <2>1, <3>1, Least
    <3>3. \A j \in col : j < i => rows[j].retired_at # 0
      BY <1>2, <3>1, <3>2
    <3> QED BY <3>2, <3>3 DEF NewerRow
  <2>2. CASE Active = {}
    <3>1. IsFiniteSet(col)
      <4>1. 1 \in Int /\ Len(rows) \in Int
        BY <1>2
      <4> QED BY <1>2, <4>1, BoundedFinite
    <3>2. times \in SUBSET Int /\ times # {}
      <4>1. PICK i \in col : TRUE
        BY <1>1
      <4>2. rows[i].retired_at \in times
        BY <4>1
      <4>3. \A t \in times : t \in Int
        BY <1>2
      <4> QED BY <4>2, <4>3
    <3>3. IsFiniteSet(times)
      <4> DEFINE f == [i \in col |-> rows[i].retired_at]
      <4>1. f \in [col -> Nat] /\ times = {f[i] : i \in col}
        BY <1>2
      <4> HIDE DEF f, times
      <4> QED BY <3>1, <4>1, FiniteImage
    <3>4. Max(times) \in times /\ \A t \in times : t <= Max(times)
      <4> HIDE DEF times
      <4> QED BY <3>2, <3>3, Extremes
    <3> DEFINE latest == {i \in col : rows[i].retired_at = Max(times)}
    <3>5. latest \in SUBSET Nat /\ latest # {}
      <4>1. PICK i \in col : Max(times) = rows[i].retired_at
        BY <3>4
      <4>2. i \in latest
        BY <4>1
      <4>3. \A j \in latest : j \in 1..Len(rows)
        BY <1>2
      <4> HIDE DEF latest
      <4> QED BY <4>2, <4>3, <1>2
    <3>6. PICK i \in latest : \A j \in latest : i <= j
      <4> HIDE DEF latest
      <4> QED BY <3>5, Least
    <3>7. \A j \in col : rows[j].retired_at \in Nat \ {0} /\ rows[j].retired_at <= rows[i].retired_at
      BY <1>2, <2>2, <3>4, <3>6
    <3>8. \A j \in col : j < i => rows[j].retired_at # rows[i].retired_at
      BY <1>2, <3>5, <3>6
    <3>9. \A j \in col : ~NewerRow(j, i) /\ (j < i => NewerRow(i, j))
      BY <1>2, <3>6, <3>7, <3>8 DEF NewerRow
    <3> QED BY <3>6, <3>9
  <2> QED BY <2>1, <2>2
<1> QED BY <1>1, <1>3 DEF Newest

\* A heading is the name of one of its column's rows and of no other column's.
LEMMA HeadingFacts ==
    ASSUME KnitInv
    PROVE  /\ \A col \in Columns : Heading(col) \in Names /\ Heading(col) \in NamesOf(col)
           /\ \A c, d \in Columns : Heading(c) = Heading(d) => c = d
           /\ IsFiniteSet(Columns)
<1>1. \A col \in Columns : /\ Newest(col) \in col /\ col \subseteq 1..Len(rows)
                           /\ Heading(col) = rows[Newest(col)].name
  BY NewestFacts, RowTypes DEF KnitInv, TypeOK, Scaled, Heading
<1>2. \A col \in Columns : Heading(col) \in Names /\ Heading(col) \in NamesOf(col)
  BY <1>1, RowTypes DEF KnitInv, NamesOf
<1>3. \A c, d \in Columns : Heading(c) = Heading(d) => c = d
  BY <1>1, KnitApart DEF ColumnsApart
<1>4. IsFiniteSet(Columns)
  <2>1. Scaled \in SUBSET (1..Len(rows)) /\ Len(rows) \in Nat
    BY RowTypes DEF KnitInv, TypeOK, Scaled
  <2>2. 1 \in Int /\ Len(rows) \in Int
    BY <2>1
  <2>3. IsFiniteSet(Scaled)
    <3> HIDE DEF Scaled
    <3> QED BY <2>1, <2>2, BoundedFinite
  <2> DEFINE f == [i \in Scaled |-> {j \in Scaled : root[j] = root[i]}]
  <2>4. f \in [Scaled -> SUBSET Scaled] /\ Columns = {f[i] : i \in Scaled}
    BY DEF Columns
  <2> HIDE DEF f
  <2> QED BY <2>3, <2>4, FiniteImage
<1> QED BY <1>2, <1>3, <1>4

\* A selection of columns, in the order of their headings, is all of them, each once.
LEMMA ByHeadingFacts ==
    ASSUME KnitInv, NEW cols \in SUBSET Columns
    PROVE  /\ ByHeading(cols) \in Seq(Columns)
           /\ ToSet(ByHeading(cols)) = cols
<1> DEFINE H == {Heading(col) : col \in cols}
           at == InOrder(H)
           n == Cardinality(H)
           s == ByHeading(cols)
<1>1. H \in SUBSET Int /\ IsFiniteSet(H)
  <2>1. \A col \in Columns : Heading(col) \in Names
    BY HeadingFacts
  <2>2. Names \subseteq Int
    BY LineagesAssumption
  <2>3. IsFiniteSet(cols)
    BY HeadingFacts, FS_Subset
  <2>4. IsFiniteSet(H)
    <3> DEFINE f == [col \in cols |-> Heading(col)]
    <3>1. f \in [cols -> Names] /\ H = {f[col] : col \in cols}
      BY <2>1
    <3> HIDE DEF f, H
    <3> QED BY <2>3, <3>1, FiniteImage
  <2> QED BY <2>1, <2>2, <2>4
<1>2. /\ n \in Nat
      /\ at \in [1..n -> H]
      /\ \A i \in H : \E k \in 1..n : at[k] = i
  <2> HIDE DEF H
  <2> QED BY <1>1, InOrderFacts
<1>3. s = [k \in 1..n |-> CHOOSE col \in cols : Heading(col) = at[k]]
  BY <1>2 DEF ByHeading
<1> HIDE DEF at, n, s
<1>4. \A k \in 1..n : s[k] \in cols /\ Heading(s[k]) = at[k]
  <2> TAKE k \in 1..n
  <2>1. \E col \in cols : Heading(col) = at[k]
    BY <1>2
  <2> QED BY <1>3, <2>1
<1>5. s \in Seq(Columns) /\ DOMAIN s = 1..n
  BY <1>2, <1>3, <1>4, IsASeq
<1>6. \A col \in cols : \E k \in 1..n : s[k] = col
  <2> TAKE col \in cols
  <2>1. PICK k \in 1..n : at[k] = Heading(col)
    BY <1>2
  <2>2. s[k] = col
    BY <1>4, <2>1, HeadingFacts
  <2> QED BY <2>2
<1>7. ToSet(s) = cols
  BY <1>4, <1>5, <1>6 DEF ToSet
<1> QED BY <1>5, <1>7 DEF s

\* The columns with one of the names.
With(names) == {col \in Columns : NamesOf(col) \cap names # {}}

\* What is selected are columns, and has every column with a name that is asked for.
LEMMA SelectedFacts ==
    ASSUME KnitInv, NEW F, NEW asking \in Seq([as : F, names : SUBSET Names])
    PROVE  /\ Selected(asking) \in Seq(Columns)
           /\ \A k \in DOMAIN asking : With(asking[k].names) \subseteq ToSet(Selected(asking))
<1> DEFINE n == Len(asking)
           V == Seq(Columns)
           step == [p \in (1..n) \X V |-> p[2] \o Matched(asking[p[1]])]
<1>1. n \in Nat /\ DOMAIN asking = 1..n
  OBVIOUS
<1>2. \A k \in 1..n : /\ Matched(asking[k]) \in V
                      /\ ToSet(Matched(asking[k])) = With(asking[k].names)
  <2> TAKE k \in 1..n
  <2>1. With(asking[k].names) \in SUBSET Columns
    BY DEF With
  <2>2. Matched(asking[k]) = ByHeading(With(asking[k].names))
    BY DEF Matched, With
  <2> QED BY <2>1, <2>2, ByHeadingFacts
<1>3. CASE \E k \in DOMAIN asking : asking[k].as = "all-data"
  <2>1. Selected(asking) = ByHeading(Columns)
    BY <1>3 DEF Selected
  <2>2. Selected(asking) \in V /\ ToSet(Selected(asking)) = Columns
    BY <2>1, ByHeadingFacts
  <2> QED BY <2>2 DEF With
<1>4. CASE ~\E k \in DOMAIN asking : asking[k].as = "all-data"
  <2>1. Selected(asking) = Looped(n, <<>>, step)
    BY <1>4 DEF Selected
  <2>2. <<>> \in V /\ step \in [(1..n) \X V -> V]
    <3>1. \A p \in (1..n) \X V : p[1] \in 1..n /\ p[2] \in V
      OBVIOUS
    <3>2. \A p \in (1..n) \X V : p[2] \o Matched(asking[p[1]]) \in V
      BY <1>2, <3>1, ConcatSet
    <3> QED BY <3>2
  <2>3. PICK f : Turns(f, n, V, <<>>, step) /\ Looped(n, <<>>, step) = f[n]
    <3> HIDE DEF n, V, step
    <3> QED BY <1>1, <2>2, LoopFacts
  <2>4. /\ f \in [0..n -> V]
        /\ \A i \in 1..n : f[i] = f[i - 1] \o Matched(asking[i])
    <3>1. f \in [0..n -> V] /\ \A i \in 1..n : f[i] = step[<<i, f[i - 1]>>]
      BY <2>3 DEF Turns
    <3>2. \A i \in 1..n : <<i, f[i - 1]>> \in (1..n) \X V
      <4> TAKE i \in 1..n
      <4>1. i - 1 \in 0..n
        BY <1>1
      <4> HIDE DEF V, n
      <4> QED BY <3>1, <4>1
    <3> QED BY <3>1, <3>2
  <2>5. ASSUME NEW k \in 1..n PROVE With(asking[k].names) \subseteq ToSet(f[n])
    <3> DEFINE W == With(asking[k].names)
               S == {i \in k..n : ~(W \subseteq ToSet(f[i]))}
    <3>1. \A i \in 1..n : ToSet(f[i]) = ToSet(f[i - 1]) \cup With(asking[i].names)
      <4> TAKE i \in 1..n
      <4>1. i - 1 \in 0..n
        BY <1>1
      <4>2. f[i - 1] \in V
        BY <2>4, <4>1
      <4>3. Matched(asking[i]) \in V /\ f[i] = f[i - 1] \o Matched(asking[i])
        BY <1>2, <2>4
      <4>4. ToSet(f[i - 1] \o Matched(asking[i])) = ToSet(f[i - 1]) \cup ToSet(Matched(asking[i]))
        BY <4>2, <4>3, ConcatSet
      <4> QED BY <1>2, <4>3, <4>4
    <3>2. ASSUME S # {} PROVE FALSE
      <4>1. S \in SUBSET Nat
        BY <1>1
      <4>2. PICK i \in S : \A j \in S : i <= j
        <5> HIDE DEF S
        <5> QED BY <3>2, <4>1, Least
      <4>3. i \in 1..n /\ i \in k..n /\ ~(W \subseteq ToSet(f[i]))
        BY <1>1, <4>2
      <4>4. i # k
        BY <3>1, <4>3
      <4>5. i - 1 \in k..n /\ i - 1 \notin S
        BY <1>1, <4>2, <4>3, <4>4
      <4> QED BY <3>1, <4>3, <4>5
    <3>3. n \in k..n
      BY <1>1
    <3> QED BY <3>2, <3>3
  <2>6. f[n] \in V
    BY <1>1, <2>4
  <2> QED BY <1>1, <2>1, <2>3, <2>5, <2>6
<1> QED BY <1>3, <1>4

\* Columns and what is selected depend on the loop's variables only.
LEMMA SelectedStays ==
    ASSUME UNCHANGED knitVars
    PROVE  /\ Columns' = Columns
           /\ \A col : /\ Newest(col)' = Newest(col)
                       /\ Heading(col)' = Heading(col)
                       /\ NamesOf(col)' = NamesOf(col)
                       /\ Conflict(col)' <=> Conflict(col)
           /\ \A asking : Selected(asking)' = Selected(asking)
<1>1. rows' = rows /\ root' = root /\ taken' = taken
  BY DEF knitVars
<1>2. Columns' = Columns
  BY <1>1 DEF Columns, Scaled
<1>3. ASSUME NEW col PROVE Newest(col)' = Newest(col)
  BY <1>1 DEF Newest, NewerRow
<1>4. ASSUME NEW col PROVE Heading(col)' = Heading(col) /\ NamesOf(col)' = NamesOf(col)
  BY <1>1, <1>3 DEF Heading, NamesOf
<1>5. ASSUME NEW col PROVE Conflict(col)' <=> Conflict(col)
  BY <1>1, <1>3 DEF Conflict
<1>6. ASSUME NEW cols PROVE ByHeading(cols)' = ByHeading(cols)
  BY <1>1 DEF ByHeading, Heading, Newest, NewerRow
<1>7. ASSUME NEW item PROVE Matched(item)' = Matched(item)
  <2>1. Matched(item)' = ByHeading({col \in Columns : NamesOf(col) \cap item.names # {}})'
    BY DEF Matched
  <2> QED BY <1>2, <1>4, <1>6 DEF Matched
<1>8. ASSUME NEW asking PROVE Selected(asking)' = Selected(asking)
  BY <1>2, <1>6, <1>7 DEF Selected
<1> QED BY <1>2, <1>3, <1>4, <1>5, <1>8

-----------------------------------------------------------------------------
(* The readings csv: the columns of a request. *)

\* Two rows of a column that no conversion leads between, or a state nobody can look up.
Mixed(i, j) ==
    \/ rows[i].state # rows[j].state
    \/ rows[i].state /\ rows[i].unit # Unversioned /\ rows[i].unit \notin ToSet(Versions)
    \/ ~rows[i].state /\ ~rows[j].state /\ ~Convertible(rows[i].unit, rows[j].unit)

\* A row that does not convert into the newest row's unit is one of two that do not.
LEMMA ConflictFacts ==
    ASSUME KnitInv, NEW col \in Columns
    PROVE  Conflict(col) <=> \E i, j \in col : Mixed(i, j)
<1>1. Newest(col) \in col
  BY NewestFacts
<1>2. \A i \in col : rows[i].state \in BOOLEAN
  <2>1. col \subseteq 1..Len(rows)
    BY NewestFacts, RowTypes DEF KnitInv, TypeOK, Scaled
  <2> QED BY <2>1, RowTypes DEF KnitInv
<1>3. Last(Versions) \in ToSet(Versions)
  BY LineagesAssumption DEF Last, ToSet
<1>4. \A u, v, w : Convertible(u, w) /\ Convertible(v, w) => Convertible(u, v)
  BY DEF Convertible
<1>5. ASSUME Conflict(col) PROVE \E i, j \in col : Mixed(i, j)
  <2>1. CASE \E i, j \in col : rows[i].state /\ ~rows[j].state
    BY <2>1 DEF Mixed
  <2>2. CASE \E i \in col : rows[i].state /\ VersionOf(rows[i]) \notin ToSet(Versions)
    BY <2>2, <1>3 DEF Mixed, VersionOf
  <2>3. CASE \E i \in col : ~rows[i].state /\ ~Convertible(rows[i].unit, rows[Newest(col)].unit)
    BY <2>3, <1>1, <1>2 DEF Mixed
  <2> QED BY <1>5, <2>1, <2>2, <2>3 DEF Conflict
<1>6. ASSUME NEW i \in col, NEW j \in col, Mixed(i, j) PROVE Conflict(col)
  <2>1. CASE rows[i].state # rows[j].state
    BY <2>1, <1>2 DEF Conflict
  <2>2. CASE rows[i].state /\ rows[i].unit # Unversioned /\ rows[i].unit \notin ToSet(Versions)
    BY <2>2 DEF Conflict, VersionOf
  <2>3. CASE ~rows[i].state /\ ~rows[j].state /\ ~Convertible(rows[i].unit, rows[j].unit)
    BY <2>3, <1>4 DEF Conflict
  <2> QED BY <1>6, <2>1, <2>2, <2>3 DEF Mixed
<1> QED BY <1>5, <1>6

\* Of a request that has its columns: they are those selected, and it is refused for them.
Chosen ==
    phase # "knitting" =>
        /\ request \in Requests
        /\ columns = Selected(request)
        /\ phase = "refused" <=> \E col \in ToSet(columns) : Conflict(col)

CsvInv ==
    /\ KnitInv
    /\ phase \in {"knitting", "refused", "reading", "done"}
    /\ Chosen

\* No request has its columns at first.
LEMMA CsvInitInv == CsvInit => CsvInv
BY InitKnits DEF CsvInit, CsvInv, Chosen

\* An answer chooses the columns; nothing after it changes them or the rows.
LEMMA CsvNextInv == CsvInv /\ [CsvNext]_allCsvVars => CsvInv'
<1> SUFFICES ASSUME CsvInv, [CsvNext]_allCsvVars PROVE CsvInv'
  OBVIOUS
<1>1. KnitInv'
  <2>1. CASE KnitForCsv
    BY <2>1, TakeRowKnits DEF KnitForCsv, KnitRow, CsvInv
  <2>2. CASE UNCHANGED knitVars
    BY <2>2, StutterKnits DEF CsvInv
  <2> QED BY <2>1, <2>2 DEF CsvNext, Answer, TakeReading, CloseBucket, Finish, allCsvVars
<1>2. CASE KnitForCsv
  BY <1>1, <1>2 DEF KnitForCsv, KnitRow, CsvInv, Chosen
<1>3. CASE UNCHANGED <<knitVars, phase, request, columns>>
  BY <1>1, <1>3, SelectedStays DEF CsvInv, Chosen
<1>4. CASE Answer
  <2>1. UNCHANGED knitVars /\ request' \in Requests /\ columns' = Selected(request')
    BY <1>4 DEF Answer
  <2>2. (columns = Selected(request))'
    BY <2>1, SelectedStays
  <2>3. phase' = "refused" <=> \E col \in ToSet(columns') : Conflict(col)
    BY <1>4 DEF Answer
  <2>4. phase' \in {"refused", "reading", "done"}
    BY <1>4 DEF Answer
  <2> QED BY <1>1, <2>1, <2>2, <2>3, <2>4, SelectedStays DEF CsvInv, Chosen
<1>5. CASE Finish
  <2>1. phase = "reading" /\ phase' = "done" /\ UNCHANGED <<knitVars, request, columns>>
    BY <1>5 DEF Finish
  <2> QED BY <1>1, <2>1, SelectedStays DEF CsvInv, Chosen
<1> QED BY <1>2, <1>3, <1>4, <1>5 DEF CsvNext, TakeReading, CloseBucket, allCsvVars, csvVars

\* Of every request that has its columns: they are those selected, and it is refused for
\* one of them that has a conflict (readings_csv.py get_readings).
THEOREM CsvAlwaysInv == CsvSpec => []CsvInv
BY CsvInitInv, CsvNextInv, PTL DEF CsvSpec

\* The rows are of one column exactly when shared names and channel Ids lead from one to
\* the other (readings_units.py lineages, as readings_csv.py runs it).
THEOREM CsvLineagesExact == CsvSpec => []LineagesExact
<1>1. CsvInv => LineagesExact
  BY KnitExact DEF CsvInv
<1> QED BY <1>1, CsvAlwaysInv, PTL

\* No two columns have a name or a channel Id in common, so that csv_generator, which
\* collects readings by heading, keeps them apart.
THEOREM CsvColumnsApart == CsvSpec => []ColumnsApart
<1>1. CsvInv => ColumnsApart
  BY KnitApart DEF CsvInv
<1> QED BY <1>1, CsvAlwaysInv, PTL

\* The columns of a request are among all, and every name asked for has its own.
LEMMA ChosenFacts ==
    ASSUME CsvInv, phase # "knitting"
    PROVE  /\ columns \in Seq(Columns)
           /\ \A k \in DOMAIN request : With(request[k].names) \subseteq ToSet(columns)
<1>1. request \in Seq([as : {"name", "pattern", "all-data"}, names : SUBSET Names])
  BY RequestAssumption DEF CsvInv, Chosen
<1>2. KnitInv /\ columns = Selected(request)
  BY DEF CsvInv, Chosen
<1> QED BY <1>1, <1>2, SelectedFacts

\* A channel asked for by any of its names comes whole, as one column with every row that
\* a chain of renames and new Ids leads to, whatever the rows (readings_csv.py get_readings).
THEOREM ColumnsAlwaysWhole == CsvSpec => []AskedWhole
<1>1. CsvInv => AskedWhole
  <2> SUFFICES ASSUME CsvInv, phase # "knitting", NEW i \in Scaled, NEW k \in DOMAIN request,
                      rows[i].name \in request[k].names
               PROVE  \E m \in DOMAIN columns : columns[m] = {j \in Scaled : Connected(i, j)}
    BY DEF AskedWhole
  <2> DEFINE col == {j \in Scaled : root[j] = root[i]}
  <2>1. col \in Columns /\ i \in col
    BY DEF Columns
  <2>2. col \in ToSet(columns)
    BY <2>1, ChosenFacts DEF With, NamesOf
  <2>3. col = {j \in Scaled : Connected(i, j)}
    <3>1. LineagesExact
      BY KnitExact DEF CsvInv
    <3> QED BY <3>1 DEF LineagesExact
  <2> QED BY <2>2, <2>3 DEF ToSet
<1> QED BY <1>1, CsvAlwaysInv, PTL

\* A request is refused exactly for two rows of one lineage that no conversion leads
\* between, or a state nobody can look up (readings_units.py column_values).
THEOREM AlwaysRefusedExactly == CsvSpec => []RefusedExactly
<1>1. CsvInv => RefusedExactly
  <2> SUFFICES ASSUME CsvInv, phase # "knitting"
               PROVE  phase = "refused" <=>
                         \E k \in DOMAIN columns : \E i, j \in columns[k] : Mixed(i, j)
    BY DEF RefusedExactly, Mixed
  <2>1. columns \in Seq(Columns)
    BY ChosenFacts
  <2>2. \A k \in DOMAIN columns : columns[k] \in Columns
    BY <2>1
  <2>3. phase = "refused" <=> \E k \in DOMAIN columns : Conflict(columns[k])
    BY DEF CsvInv, Chosen, ToSet
  <2> QED BY <2>2, <2>3, ConflictFacts DEF CsvInv
<1> QED BY <1>1, CsvAlwaysInv, PTL

-----------------------------------------------------------------------------
(* The readings csv: a cell. *)

\* Rounding is of the quotient.
LEMMA RoundScaled ==
    ASSUME NEW x \in Int, NEW c \in Nat \ {0}, NEW F \in Nat \ {0}
    PROVE  Round(F * x, c * F) = Round(x, c)
<1> DEFINE q == x \div c
           r == x % c
           D == c * F
<1>1. q \in Int /\ r \in 0..(c - 1) /\ x = c * q + r
  BY DivFacts, ModFacts
<1> HIDE DEF q, r
<1>2. D \in Nat \ {0} /\ F * x \in Int
  OBVIOUS
<1>3. F * x = D * q + F * r
  <2>1. \A u, v \in Int : F * (u + v) = F * u + F * v
    OBVIOUS
  <2>2. F * (c * q) = D * q
    BY <1>1
  <2> QED BY <1>1, <2>1, <2>2
<1>4. 0 <= F * r /\ F * r < D /\ F * r \in Int
  BY <1>1, MulStrict, MulMonotone
<1>5. (F * x) \div D = q
  <2>1. D * q <= F * x /\ F * x < D * q + D
    <3>1. D * q \in Int
      BY <1>1
    <3> HIDE DEF D
    <3> QED BY <1>2, <1>3, <1>4, <3>1
  <2> HIDE DEF D
  <2> QED BY <1>1, <1>2, <2>1, DivUnique
<1>6. (F * x) % D = F * r
  <2>1. (F * x) % D = F * x - D * ((F * x) \div D)
    <3> HIDE DEF D
    <3> QED BY <1>2, ModFacts
  <2>2. D * q \in Int
    BY <1>1
  <2> HIDE DEF D
  <2> QED BY <1>2, <1>3, <1>4, <1>5, <2>1, <2>2
<1>7. (2 * (F * r) < D <=> 2 * r < c) /\ (2 * (F * r) = D <=> 2 * r = c)
  <2>1. 2 * (F * r) = (2 * r) * F /\ 2 * r \in Int
    BY <1>1
  <2>2. (2 * r < c => (2 * r) * F < c * F) /\ (c < 2 * r => c * F < (2 * r) * F)
    BY <2>1, MulStrict
  <2> QED BY <1>1, <2>1, <2>2
<1>8. Round(F * x, D) = IF 2 * (F * r) < D \/ (2 * (F * r) = D /\ q % 2 = 0) THEN q ELSE q + 1
  BY <1>5, <1>6 DEF Round
<1>9. Round(x, c) = IF 2 * r < c \/ (2 * r = c /\ q % 2 = 0) THEN q ELSE q + 1
  BY DEF Round, q, r
<1> QED BY <1>7, <1>8, <1>9

\* What is stored of the readings of a column that is not refused gives back what the
\* house meant, in the unit of the column's newest row.
LEMMA BucketCellFacts ==
    ASSUME KnitInv, NEW col \in Columns, ~Conflict(col),
           NEW ps, IsFiniteSet(ps), ps # {}, ps \in SUBSET Int,
           \A p \in ps : stream[p].row \in col /\ Truthful(rows[stream[p].row], stream[p].truth)
    PROVE  BucketCell(col, ps) = TrueCell(col, ps)
<1> DEFINE new == rows[Newest(col)]
           Row1(p) == rows[stream[p].row]
           unit == new.unit
           last == stream[Max(ps)]
<1>1. Newest(col) \in col /\ col \subseteq 1..Len(rows)
  BY NewestFacts, RowTypes DEF KnitInv, TypeOK, Scaled
<1>2. \A i \in col : rows[i].state \in BOOLEAN /\ rows[i].unit \in Units
  BY <1>1, RowTypes DEF KnitInv
<1>3. \A p \in ps : /\ Row1(p).state = new.state
                    /\ new.state => VersionOf(Row1(p)) \in ToSet(Versions)
                    /\ ~new.state => Convertible(Row1(p).unit, unit)
  BY <1>1, <1>2 DEF Conflict
<1>4. Max(ps) \in ps
  BY Extremes
<1>5. CASE new.state
  <2> DEFINE symbols == Symbols[VersionOf(rows[last.row])]
             k == CHOOSE k \in DOMAIN symbols : symbols[k] = last.truth
  <2>1. rows[last.row].state /\ VersionOf(rows[last.row]) \in ToSet(Versions)
    BY <1>3, <1>4, <1>5
  <2>2. last.truth \in ToSet(symbols) /\ symbols \in Seq(ToSet(symbols))
    BY <1>4, <2>1, LineagesAssumption DEF Truthful
  <2>3. k \in DOMAIN symbols /\ symbols[k] = last.truth
    BY <2>2 DEF ToSet
  <2>4. Stored(last) = k - 1
    BY <2>1 DEF Stored
  <2>5. k \in 1..Len(symbols) /\ Len(symbols) \in Nat
    <3>1. DOMAIN symbols = 1..Len(symbols) /\ Len(symbols) \in Nat
      <4> HIDE DEF symbols, k
      <4> QED BY <2>2
    <3> QED BY <2>3, <3>1
  <2>6. Symbol(rows[last.row], Stored(last)) = symbols[(k - 1) + 1]
    <3>1. k - 1 \in 0..(Len(symbols) - 1)
      <4> HIDE DEF k, symbols
      <4> QED BY <2>5
    <3> QED BY <2>4, <3>1 DEF Symbol
  <2>7. (k - 1) + 1 = k
    <3> HIDE DEF k
    <3> QED BY <2>5
  <2>8. Symbol(rows[last.row], Stored(last)) = last.truth
    BY <2>3, <2>6, <2>7
  <2>9. BucketCell(col, ps) = Symbol(rows[last.row], Stored(last))
    BY <2>1 DEF BucketCell
  <2>10. TrueCell(col, ps) = last.truth
    BY <1>5 DEF TrueCell
  <2> QED BY <2>8, <2>9, <2>10
<1>6. CASE ~new.state
  <2> DEFINE Part(p) == Converted(Stored(stream[p]), Row1(p).unit, unit)
             c == Cardinality(ps)
             f == [p \in ps |-> stream[p].truth]
             h == [p \in ps |-> Part(p)]
  <2>1. ~rows[last.row].state
    BY <1>3, <1>4, <1>6
  <2>2. BucketCell(col, ps) = Round(SumOf(h, ps), c * Fine)
    BY <2>1 DEF BucketCell
  <2>3. c \in Nat \ {0}
    BY FS_CardinalityType, FS_EmptySet
  <2>4. f \in [ps -> Int]
    <3>1. \A p \in ps : stream[p].truth \in Int
      BY <1>3, <1>6 DEF Truthful
    <3> QED BY <3>1
  <2>5. \A u \in DOMAIN Scales : Scales[u].per \in Nat \ {0} /\ Scales[u].offset \in Int
    BY LineagesAssumption
  <2>6. /\ Fine \in Nat \ {0}
        /\ \A u \in DOMAIN Scales : \E m \in Nat \ {0} : Fine = Scales[u].per * m
    <3> DEFINE P == {Scales[u].per : u \in DOMAIN Scales}
               e == [u \in DOMAIN Scales |-> Scales[u].per]
    <3>1. e \in [DOMAIN Scales -> Nat] /\ P = {e[u] : u \in DOMAIN Scales}
      BY <2>5
    <3>2. IsFiniteSet(DOMAIN Scales)
      BY LineagesAssumption
    <3>3. IsFiniteSet(P)
      <4> HIDE DEF e, P
      <4> QED BY <3>1, <3>2, FiniteImage
    <3>4. P \in SUBSET (Nat \ {0})
      BY <2>5
    <3>5. /\ ProductSet(P) \in Nat \ {0}
          /\ \A x \in P : \E m \in Nat \ {0} : ProductSet(P) = x * m
      <4> HIDE DEF P
      <4> QED BY <3>3, <3>4, ProductFacts
    <3> QED BY <3>5 DEF Fine
  <2>7. CASE unit \in DOMAIN Scales
    <3> DEFINE a == Scales[unit].per
               b == Scales[unit].offset
    <3>1. a \in Int /\ b \in Int
      BY <2>5, <2>7
    <3>2. ASSUME NEW p \in ps PROVE Part(p) = Fine * (a * f[p] + b)
      <4> DEFINE u == Row1(p).unit
                 x == stream[p].truth
      <4>1. u \in DOMAIN Scales /\ x \in Int /\ f[p] = x
        BY <1>3, <1>6, <2>4, <2>7 DEF Convertible
      <4>2. Stored(stream[p]) = Scales[u].per * x + Scales[u].offset
        BY <1>3, <1>6, <4>1 DEF Stored
      <4>3. CASE u = unit
        <5>1. Part(p) = (a * x + b) * Fine
          BY <4>2, <4>3 DEF Converted
        <5>2. a * x + b \in Int /\ Fine \in Int
          BY <2>6, <3>1, <4>1
        <5> HIDE DEF a, b, u, x, Part
        <5> QED BY <4>1, <5>1, <5>2
      <4>4. CASE u # unit
        <5> DEFINE per == Scales[u].per
                   off == Scales[u].offset
                   d == Fine \div per
        <5>1. Part(p) = (a * ((per * x + off) - off) + b * per) * d
          BY <4>2, <4>4 DEF Converted
        <5>2. per \in Nat \ {0} /\ off \in Int
          BY <2>5, <4>1
        <5>3. PICK m \in Nat \ {0} : Fine = per * m
          BY <2>6, <4>1
        <5> HIDE DEF per, off, a, b, x, Part
        <5>4. d = m
          <6>1. per * m <= Fine /\ Fine < per * m + per /\ Fine \in Int
            BY <2>6, <5>2, <5>3
          <6> QED BY <5>2, <6>1, DivUnique
        <5>5. (per * x + off) - off = per * x
          <6>1. per * x \in Int
            BY <4>1, <5>2
          <6> QED BY <5>2, <6>1
        <5>6. a * (per * x) + b * per = per * (a * x + b)
          <6>1. a * (per * x) = per * (a * x) /\ b * per = per * b /\ a * x \in Int
            BY <3>1, <4>1, <5>2
          <6>2. \A v, w \in Int : per * (v + w) = per * v + per * w
            BY <5>2
          <6> QED BY <3>1, <6>1, <6>2
        <5>7. (per * (a * x + b)) * m = (per * m) * (a * x + b)
          <6>1. a * x + b \in Int
            BY <3>1, <4>1
          <6>2. \A v \in Int : (per * v) * m = (per * m) * v
            BY <5>2
          <6> QED BY <6>1, <6>2
        <5> HIDE DEF d
        <5>8. Part(p) = Fine * (a * x + b)
          BY <5>1, <5>3, <5>4, <5>5, <5>6, <5>7
        <5> QED BY <4>1, <5>8
      <4> QED BY <4>3, <4>4
    <3>3. h \in [ps -> Int] /\ LinearIn(h, f, ps, Fine, a, b)
      <4>1. \A p \in ps : Fine * (a * f[p] + b) \in Int
        <5>1. \A p \in ps : f[p] \in Int
          BY <2>4
        <5>2. Fine \in Int
          BY <2>6
        <5> HIDE DEF a, b, f
        <5> QED BY <3>1, <5>1, <5>2
      <4> HIDE DEF a, b, f
      <4> QED BY <3>2, <4>1 DEF LinearIn
    <3>4. /\ SumOf(f, ps) \in Int
          /\ SumOf(h, ps) = Fine * (a * SumOf(f, ps) + c * b)
      <4>1. Fine \in Int
        BY <2>6
      <4>2. SumOf(f, ps) \in Int /\ LinearSum(h, f, ps, Fine, a, b)
        <5> HIDE DEF a, b, f, h, c
        <5> QED BY <2>4, <3>1, <3>3, <4>1, SumScaled
      <4> QED BY <4>2 DEF LinearSum
    <3>5. TrueCell(col, ps) = Round(a * SumOf(f, ps) + c * b, c)
      BY <1>6, <2>7 DEF TrueCell
    <3>6. a * SumOf(f, ps) + c * b \in Int
      <4> HIDE DEF a, b, f, c
      <4> QED BY <2>3, <3>1, <3>4
    <3> HIDE DEF a, b, f, h, c
    <3> QED BY <2>2, <2>3, <2>6, <3>4, <3>5, <3>6, RoundScaled
  <2>8. CASE unit \notin DOMAIN Scales
    <3>1. ASSUME NEW p \in ps PROVE Part(p) = Fine * (1 * f[p] + 0)
      <4>1. Row1(p).unit = unit /\ f[p] = stream[p].truth /\ f[p] \in Int
        BY <1>3, <1>6, <2>4, <2>8 DEF Convertible
      <4>2. Part(p) = f[p] * Fine
        BY <1>3, <1>6, <2>8, <4>1 DEF Converted, Stored
      <4>3. \A v, w \in Int : v * w = w * (1 * v + 0)
        OBVIOUS
      <4> QED BY <2>6, <4>1, <4>2, <4>3
    <3>2. h \in [ps -> Int] /\ LinearIn(h, f, ps, Fine, 1, 0)
      <4>1. \A p \in ps : Fine * (1 * f[p] + 0) \in Int
        <5>1. \A p \in ps : f[p] \in Int
          BY <2>4
        <5>2. Fine \in Int /\ \A v, w \in Int : w * (1 * v + 0) \in Int
          BY <2>6
        <5> HIDE DEF f
        <5> QED BY <5>1, <5>2
      <4> HIDE DEF f
      <4> QED BY <3>1, <4>1 DEF LinearIn
    <3>3. /\ SumOf(f, ps) \in Int
          /\ SumOf(h, ps) = Fine * (1 * SumOf(f, ps) + c * 0)
      <4>1. Fine \in Int /\ 1 \in Int /\ 0 \in Int
        BY <2>6
      <4>2. SumOf(f, ps) \in Int /\ LinearSum(h, f, ps, Fine, 1, 0)
        <5> HIDE DEF f, h, c
        <5> QED BY <2>4, <3>2, <4>1, SumScaled
      <4> QED BY <4>2 DEF LinearSum
    <3>4. TrueCell(col, ps) = Round(SumOf(f, ps), c)
      BY <1>6, <2>8 DEF TrueCell
    <3>5. 1 * SumOf(f, ps) + c * 0 = SumOf(f, ps)
      <4> HIDE DEF f, c
      <4> QED BY <2>3, <3>3
    <3> HIDE DEF f, h, c
    <3> QED BY SMTT(30), <2>2, <2>3, <2>6, <3>3, <3>4, <3>5, RoundScaled
  <2> QED BY <2>7, <2>8
<1> QED BY <1>5, <1>6

-----------------------------------------------------------------------------
(* The readings csv: the table. *)

\* How many steps before t there is a reading of the column.
Behind(col, t) == {b \in Nat : ReadingsIn(col, t - Step * b) # {}}

\* The cell of the column in the line of t.
CellAt(col, t) ==
    IF Behind(col, t) = {}
    THEN None
    ELSE TrueCell(col, ReadingsIn(col, t - Step * Min(Behind(col, t))))

\* What a reading of the stream is, and their order.
Streamed ==
    /\ Len(stream) \in Nat /\ DOMAIN stream = 1..Len(stream)
    /\ \A p \in 1..Len(stream) :
          /\ stream[p].row \in UNION ToSet(columns)
          /\ stream[p].at \in Int /\ DbStart <= stream[p].at
          /\ Truthful(rows[stream[p].row], stream[p].truth)
    /\ \A p, q \in 1..Len(stream) : p <= q => stream[p].at <= stream[q].at

\* The cursor is where the bucket's readings end or are still read, and the bucket's
\* readings before it are collected by heading.
Gathered ==
    /\ next \in 1..(Len(stream) + 1)
    /\ \A p \in 1..Len(stream) : /\ p < next => stream[p].at < bucket + Step
                                 /\ next <= p => bucket <= stream[p].at
    /\ collected \in [Names -> SUBSET Int]
    /\ \A k \in DOMAIN columns :
          collected[Heading(columns[k])] =
             {p \in 1..(next - 1) : stream[p].row \in columns[k] /\ bucket <= stream[p].at}

\* The cells carried forward are those of the bucket before, of which the first has none.
Carried ==
    IF cells = <<>>
    THEN \A p \in 1..Len(stream) : bucket <= stream[p].at
    ELSE \A k \in DOMAIN columns : cells[k] = CellAt(columns[k], bucket - Step)

\* The bucket is some steps from the start, with a line for each of them.
Placed == \E q \in Int : bucket = Start + Step * q /\ Len(lines) = IF q >= 0 THEN q ELSE 0

Lined ==
    /\ lines \in Seq(ToSet(lines))
    /\ \A n \in 1..Len(lines) :
          /\ lines[n].at = Start + Step * (n - 1) /\ lines[n].at <= End
          /\ \A k \in DOMAIN columns : lines[n].cells[k] = CellAt(columns[k], lines[n].at)

Unread == next = 1 /\ collected = NoneCollected /\ cells = <<>> /\ lines = <<>>

Whole == Len(lines) = IF stream = <<>> THEN 0 ELSE (End - Start) \div Step + 1

CollectInv ==
    /\ CsvInv
    /\ phase \in {"knitting", "refused"} => Unread
    /\ phase \in {"reading", "done"} => Streamed /\ Lined
    /\ phase = "reading" => Gathered /\ Carried /\ Placed /\ stream # <<>>
    /\ phase = "done" => Whole

\* Nothing is read at first.
LEMMA ReadInit == CsvInit => CollectInv
BY CsvInitInv DEF CsvInit, CollectInv, Unread

\* A stream that is not refused.
LEMMA ReadingFacts ==
    ASSUME CollectInv, phase = "reading"
    PROVE  /\ KnitInv /\ Streamed /\ Lined /\ Gathered /\ Carried /\ Placed /\ stream # <<>>
           /\ columns \in Seq(Columns)
           /\ \A col \in ToSet(columns) : col \in Columns /\ ~Conflict(col)
           /\ Start \in Nat /\ End \in Nat /\ Start < End /\ Step \in Nat \ {0}
           /\ bucket \in Int /\ Len(lines) \in Nat
<1>1. columns \in Seq(Columns)
  BY ChosenFacts DEF CollectInv
<1>2. \A col \in ToSet(columns) : col \in Columns
  BY <1>1 DEF ToSet
<1>3. Start \in Nat /\ End \in Nat /\ Start < End /\ Step \in Nat \ {0}
  BY RequestAssumption, CsvAssumption
<1>4. bucket \in Int /\ Len(lines) \in Nat
  <2>1. \E q \in Int : bucket = Start + Step * q /\ Len(lines) = IF q >= 0 THEN q ELSE 0
    BY DEF CollectInv, Placed
  <2> QED BY <1>3, <2>1
<1> QED BY <1>1, <1>2, <1>3, <1>4 DEF CollectInv, CsvInv, Chosen

\* A cell depends on the readings and the columns only.
LEMMA CellStays ==
    ASSUME UNCHANGED <<knitVars, stream>>
    PROVE  \A col, t : CellAt(col, t)' = CellAt(col, t)
<1>1. rows' = rows /\ stream' = stream
  BY DEF knitVars
<1>2. ASSUME NEW col, NEW t PROVE ReadingsIn(col, t)' = ReadingsIn(col, t)
  BY <1>1 DEF ReadingsIn
<1>3. ASSUME NEW col, NEW t PROVE Behind(col, t)' = Behind(col, t)
  BY <1>2 DEF Behind
<1>4. ASSUME NEW col, NEW ps PROVE TrueCell(col, ps)' = TrueCell(col, ps)
  <2>1. Newest(col)' = Newest(col)
    BY SelectedStays
  <2> QED BY <1>1, <2>1 DEF TrueCell
<1>5. ASSUME NEW col, NEW t PROVE CellAt(col, t)' = CellAt(col, t)
  BY <1>2, <1>3, <1>4 DEF CellAt
<1> QED BY <1>5

\* Before the first bucket with a reading of the column a cell is None; where there is
\* none in the bucket it is that of the bucket before; and otherwise the bucket's own.
LEMMA CellFacts ==
    ASSUME Step \in Nat \ {0}, NEW col, NEW t \in Int
    PROVE  /\ (\A p \in DOMAIN stream : stream[p].at \in Int /\ t + Step <= stream[p].at)
                 => CellAt(col, t) = None
           /\ ReadingsIn(col, t) = {} => CellAt(col, t) = CellAt(col, t - Step)
           /\ ReadingsIn(col, t) # {} => CellAt(col, t) = TrueCell(col, ReadingsIn(col, t))
<1>1. ASSUME \A p \in DOMAIN stream : stream[p].at \in Int /\ t + Step <= stream[p].at
      PROVE  CellAt(col, t) = None
  <2>1. ASSUME NEW b \in Nat PROVE ReadingsIn(col, t - Step * b) = {}
    <3>1. Step * b \in Nat
      OBVIOUS
    <3>2. \A p \in DOMAIN stream : ~(stream[p].at < t - Step * b + Step)
      BY <1>1, <3>1
    <3> QED BY <3>2 DEF ReadingsIn
  <2> QED BY <2>1 DEF CellAt, Behind
<1>2. Step * 0 = 0 /\ t - 0 = t
  OBVIOUS
<1>3. ASSUME ReadingsIn(col, t) # {} PROVE CellAt(col, t) = TrueCell(col, ReadingsIn(col, t))
  <2>1. 0 \in Behind(col, t)
    BY <1>2, <1>3 DEF Behind
  <2>2. Behind(col, t) \in SUBSET Nat
    BY DEF Behind
  <2>3. Min(Behind(col, t)) \in Nat /\ Min(Behind(col, t)) <= 0
    BY <2>1, <2>2, LeastIsMin
  <2>4. Min(Behind(col, t)) = 0
    BY <2>3
  <2> QED BY <1>2, <2>1, <2>4 DEF CellAt
<1>4. ASSUME ReadingsIn(col, t) = {} PROVE CellAt(col, t) = CellAt(col, t - Step)
  <2> DEFINE B == Behind(col, t)
             C == Behind(col, t - Step)
  <2>1. \A b \in Nat : (t - Step) - Step * b = t - Step * (b + 1)
    <3>1. \A b \in Nat : Step * (b + 1) = Step * b + Step /\ Step * b \in Nat
      OBVIOUS
    <3> QED BY <3>1
  <2>2. \A b \in Nat : b \in C <=> b + 1 \in B
    BY <2>1 DEF Behind
  <2>3. 0 \notin B
    BY <1>2, <1>4 DEF Behind
  <2>4. B \in SUBSET Nat /\ C \in SUBSET Nat
    BY DEF Behind
  <2>5. CASE C = {}
    <3>1. B = {}
      <4> SUFFICES ASSUME NEW b \in B PROVE FALSE
        OBVIOUS
      <4>1. b \in Nat /\ b # 0
        BY <2>3, <2>4
      <4>2. b - 1 \in Nat /\ (b - 1) + 1 = b
        BY <4>1
      <4>3. b - 1 \in C
        BY <2>2, <4>2
      <4> QED BY <2>5, <4>3
    <3> QED BY <2>5, <3>1 DEF CellAt
  <2>6. CASE C # {}
    <3> DEFINE m == Min(C)
    <3>1. m \in C /\ m \in Nat /\ \A b \in C : m <= b
      <4> HIDE DEF C
      <4> QED BY <2>4, <2>6, LeastIsMin
    <3>2. m + 1 \in B
      BY <2>2, <3>1
    <3>3. \A b \in B : m + 1 <= b
      <4> TAKE b \in B
      <4>1. b \in Nat /\ b # 0
        BY <2>3, <2>4
      <4>2. b - 1 \in Nat /\ (b - 1) + 1 = b
        BY <4>1
      <4>3. b - 1 \in C
        BY <2>2, <4>2
      <4> HIDE DEF m, B, C
      <4> QED BY <3>1, <4>1, <4>3
    <3>4. Min(B) = m + 1
      <4>1. B \in SUBSET Int
        BY <2>4
      <4> HIDE DEF m, B, C
      <4> QED BY <3>2, <3>3, <4>1, ExtremeUnique
    <3>5. (t - Step) - Step * m = t - Step * Min(B)
      <4> HIDE DEF m, B, C
      <4> QED BY <2>1, <3>1, <3>4
    <3>6. CellAt(col, t) = TrueCell(col, ReadingsIn(col, t - Step * Min(B)))
      BY <3>2 DEF CellAt
    <3>7. CellAt(col, t - Step) = TrueCell(col, ReadingsIn(col, (t - Step) - Step * m))
      BY <2>6 DEF CellAt
    <3> QED BY <3>5, <3>6, <3>7
  <2> QED BY <2>5, <2>6
<1> QED BY <1>1, <1>3, <1>4

\* The invariant's parts that a step leaves alone.
LEMMA ReadStays ==
    ASSUME UNCHANGED <<knitVars, columns, stream>>
    PROVE  /\ Streamed => Streamed'
           /\ Lined /\ lines' = lines => Lined'
           /\ Carried /\ UNCHANGED <<bucket, cells>> => Carried'
           /\ Placed /\ UNCHANGED <<bucket, lines>> => Placed'
           /\ Gathered /\ UNCHANGED <<next, bucket, collected>> => Gathered'
<1>1. rows' = rows /\ columns' = columns /\ stream' = stream
  BY DEF knitVars
<1>2. Streamed => Streamed'
  BY <1>1 DEF Streamed
<1>3. Lined /\ lines' = lines => Lined'
  BY <1>1, CellStays DEF Lined
<1>4. Carried /\ UNCHANGED <<bucket, cells>> => Carried'
  BY <1>1, CellStays DEF Carried
<1>5. Placed /\ UNCHANGED <<bucket, lines>> => Placed'
  BY DEF Placed
<1>6. Gathered /\ UNCHANGED <<next, bucket, collected>> => Gathered'
  BY <1>1, SelectedStays DEF Gathered
<1> QED BY <1>2, <1>3, <1>4, <1>5, <1>6

\* The rows are knit.
LEMMA KnitReads == CollectInv /\ CsvInv' /\ KnitForCsv => CollectInv'
BY DEF KnitForCsv, KnitRow, csvVars, CollectInv, Unread

\* Nothing happens.
LEMMA StutterReads == CollectInv /\ CsvInv' /\ UNCHANGED allCsvVars => CollectInv'
<1> SUFFICES ASSUME CollectInv, CsvInv', UNCHANGED allCsvVars PROVE CollectInv'
  OBVIOUS
<1>1. UNCHANGED <<knitVars, phase, request, columns, stream, next, bucket, collected, cells, lines>>
  BY DEF allCsvVars, csvVars
<1> QED BY <1>1, ReadStays DEF CollectInv, Unread, Whole

\* The stream starts, or there is nothing to read.
LEMMA AnswerReads == CollectInv /\ CsvInv' /\ Answer => CollectInv'
<1> SUFFICES ASSUME CollectInv, CsvInv', Answer PROVE CollectInv'
  OBVIOUS
<1>1. /\ Unread /\ UNCHANGED <<knitVars, next, collected, cells, lines>>
      /\ phase = "knitting" /\ phase' # "knitting" /\ rows \in Tables /\ rows' = rows
  BY DEF Answer, CollectInv, CsvInv, KnitInv, TypeOK, knitVars
<1>2. CASE phase' = "refused"
  BY <1>1, <1>2 DEF CollectInv, Unread
<1>3. CASE phase' # "refused"
  <2>1. PICK s \in Streams[rows] :
           stream' = Filtered(s, {r \in ToSet(s) : InWindow(r) /\ r.row \in UNION ToSet(columns')})
    BY <1>3 DEF Answer
  <2>2. /\ phase' = IF stream' = <<>> THEN "done" ELSE "reading"
        /\ bucket' = FirstBucket(stream')
    BY <1>3 DEF Answer
  <2> DEFINE Good == {r \in ToSet(s) : InWindow(r) /\ r.row \in UNION ToSet(columns')}
             e == Places(s, Good)
  <2>3. /\ s \in Seq(ToSet(s))
        /\ \A i \in 1..Len(s) : s[i].at \in Int /\ Truthful(rows[s[i].row], s[i].truth)
        /\ \A i \in 2..Len(s) : s[i - 1].at <= s[i].at
    BY <1>1, CsvAssumption
  <2>4. stream' \in Seq(ToSet(s)) /\ Keeps(stream', e, s, Good)
    <3>1. stream' = Filtered(s, Good) /\ s \in Seq(ToSet(s))
      BY <2>1, <2>3
    <3> HIDE DEF Good
    <3> QED BY <3>1, FilteredFacts
  <2>5. \A i, j \in 1..Len(s) : i <= j => s[i].at <= s[j].at
    <3> DEFINE at == [i \in 1..Len(s) |-> s[i].at]
    <3>1. Len(s) \in Nat /\ at \in [1..Len(s) -> Int]
      BY <2>3
    <3>2. \A i \in 2..Len(s) : at[i - 1] <= at[i]
      <4>1. \A i \in 2..Len(s) : i - 1 \in 1..Len(s) /\ i \in 1..Len(s)
        BY <3>1
      <4> QED BY <2>3, <4>1
    <3>3. \A i, j \in 1..Len(s) : i <= j => at[i] <= at[j]
      <4> HIDE DEF at
      <4> QED BY <3>1, <3>2, SortedFacts
    <3> QED BY <3>3
  <2>6. Len(stream') \in Nat /\ DOMAIN stream' = 1..Len(stream')
    BY <2>4
  <2>7. \A p \in 1..Len(stream') : /\ e[p] \in 1..Len(s)
                                   /\ stream'[p] = s[e[p]] /\ stream'[p] \in Good
    <3> HIDE DEF Good, e
    <3> QED BY <2>4 DEF Keeps
  <2>8. \A p \in 1..Len(stream') :
          /\ stream'[p].row \in UNION ToSet(columns')
          /\ stream'[p].at \in Int /\ DbStart <= stream'[p].at
          /\ Truthful(rows'[stream'[p].row], stream'[p].truth)
    <3> TAKE p \in 1..Len(stream')
    <3>1. InWindow(stream'[p]) /\ stream'[p].row \in UNION ToSet(columns')
      BY <2>7
    <3>2. stream'[p].at \in Int /\ Truthful(rows'[stream'[p].row], stream'[p].truth)
      BY <1>1, <2>3, <2>7
    <3> QED BY <3>1, <3>2 DEF InWindow
  <2>9. \A p, q \in 1..Len(stream') : p <= q => stream'[p].at <= stream'[q].at
    <3> TAKE p, q \in 1..Len(stream')
    <3>1. p <= q => e[p] <= e[q]
      <4>1. p < q => e[p] < e[q]
        <5> HIDE DEF Good, e
        <5> QED BY <2>4 DEF Keeps
      <4>2. e[p] \in Int /\ e[q] \in Int
        BY <2>7
      <4> HIDE DEF e
      <4> QED BY <4>1, <4>2
    <3> QED BY <2>5, <2>7, <3>1
  <2>10. Streamed'
    BY <2>6, <2>8, <2>9 DEF Streamed
  <2>11. Lined'
    BY <1>1 DEF Unread, Lined
  <2>12. CASE stream' = <<>>
    BY <1>1, <2>2, <2>10, <2>11, <2>12 DEF CollectInv, Whole, Unread
  <2>13. CASE stream' # <<>>
    <3>0. Start \in Int /\ Step \in Nat \ {0}
      BY CsvAssumption, RequestAssumption
    <3>1. 1 \in 1..Len(stream')
      BY <2>4, <2>6, <2>13
    <3> DEFINE first == stream'[1].at
               q == IF first > Start THEN 0 ELSE (first - Start) \div Step
    <3>2. first \in Int
      BY <2>8, <3>1
    <3>3. q \in Int /\ bucket' = Start + Step * q /\ q <= 0 /\ bucket' <= first
      <4>1. CASE first > Start
        BY <2>2, <2>13, <3>0, <3>2, <4>1 DEF FirstBucket
      <4>2. CASE ~(first > Start)
        <5> DEFINE d == (first - Start) \div Step
        <5>1. first - Start \in Int /\ first - Start <= 0
          BY <3>0, <3>2, <4>2
        <5>2. d \in Int /\ Step * d <= first - Start
          <6> HIDE DEF first
          <6> QED BY <3>0, <5>1, DivFacts
        <5>3. d <= 0
          <6>1. 0 \div Step = 0
            BY <3>0, DivUnique
          <6>2. 0 \in Int
            OBVIOUS
          <6> HIDE DEF first
          <6> QED BY <3>0, <5>1, <6>1, <6>2, DivMonotone
        <5>4. bucket' = Start + Step * d /\ q = d
          BY <2>2, <2>13, <4>2 DEF FirstBucket
        <5>5. Step * d \in Int
          <6> HIDE DEF d
          <6> QED BY <3>0, <5>2
        <5> HIDE DEF d, first, q
        <5> QED BY <3>0, <3>2, <5>2, <5>3, <5>4, <5>5
      <4> QED BY <4>1, <4>2
    <3>4. \A p \in 1..Len(stream') : bucket' <= stream'[p].at /\ 1 <= p
      <4> TAKE p \in 1..Len(stream')
      <4>1. first <= stream'[p].at /\ stream'[p].at \in Int /\ 1 <= p
        BY <2>8, <2>9, <3>1
      <4>2. bucket' \in Int
        <5> HIDE DEF q
        <5> QED BY <3>0, <3>3
      <4> HIDE DEF first, q
      <4> QED BY <3>2, <3>3, <4>1, <4>2
    <3>5. Gathered'
      <4>1. next' = 1 /\ collected' = NoneCollected
        BY <1>1 DEF Unread
      <4>2. \A k \in DOMAIN columns' : Heading(columns[k])' \in Names
        <5>1. columns' \in Seq(Columns)
          <6>1. Columns' = Columns /\ \A r : Selected(r)' = Selected(r)
            BY <1>1, SelectedStays
          <6>2. columns' = Selected(request') /\ request' \in Requests
            BY DEF Answer
          <6>3. Selected(request') \in Seq(Columns)
            BY <6>2, RequestAssumption, SelectedFacts DEF CollectInv, CsvInv
          <6> QED BY <6>2, <6>3
        <5>2. \A k \in DOMAIN columns' : columns'[k] \in Columns
          BY <5>1
        <5> QED BY <1>1, <5>2, SelectedStays, HeadingFacts DEF CollectInv, CsvInv
      <4> QED BY <2>6, <3>4, <4>1, <4>2 DEF Gathered, NoneCollected
    <3>6. Carried'
      BY <1>1, <3>4 DEF Carried, Unread
    <3>7. Placed'
      <4>1. Len(lines') = 0
        BY <1>1 DEF Unread
      <4> HIDE DEF q
      <4> QED BY <3>3, <4>1 DEF Placed
    <3> QED BY <2>2, <2>10, <2>11, <2>13, <3>5, <3>6, <3>7 DEF CollectInv
  <2> QED BY <2>12, <2>13
<1> QED BY <1>2, <1>3

\* The columns are apart, so a reading is collected under the heading of its own.
LEMMA TakeReads == CollectInv /\ CsvInv' /\ TakeReading => CollectInv'
<1> SUFFICES ASSUME CollectInv, CsvInv', TakeReading PROVE CollectInv'
  OBVIOUS
<1>1. /\ phase = "reading" /\ phase' = "reading" /\ Within /\ next' = next + 1
      /\ collected' = [collected EXCEPT ![RuleColumn(stream[next].row)] = @ \cup {next}]
      /\ UNCHANGED <<knitVars, columns, stream, bucket, cells, lines>>
  BY DEF TakeReading
<1>2. /\ KnitInv /\ Streamed /\ Lined /\ Gathered /\ Carried /\ Placed /\ stream # <<>>
      /\ \A col \in ToSet(columns) : col \in Columns
      /\ columns \in Seq(Columns) /\ bucket \in Int
  BY <1>1, ReadingFacts
<1>3. next \in 1..Len(stream) /\ Len(stream) \in Nat /\ stream[next].at < bucket + Step
  BY <1>1, <1>2 DEF Within, Gathered, Streamed
<1> DEFINE i == stream[next].row
           mine == CHOOSE col \in ToSet(columns) : i \in col
<1>4. mine \in ToSet(columns) /\ i \in mine /\ RuleColumn(i) = Heading(mine)
  BY <1>2, <1>3 DEF Streamed, RuleColumn
<1>5. \A k \in DOMAIN columns : /\ columns[k] \in Columns
                                /\ i \in columns[k] <=> Heading(columns[k]) = Heading(mine)
  <2> TAKE k \in DOMAIN columns
  <2>1. columns[k] \in Columns /\ mine \in Columns
    BY <1>2, <1>4
  <2>2. i \in columns[k] => columns[k] = mine
    BY <1>2, <1>4, <2>1, KnitApart DEF ColumnsApart
  <2>3. Heading(columns[k]) = Heading(mine) => columns[k] = mine
    BY <1>2, <2>1, HeadingFacts
  <2> QED BY <1>4, <2>1, <2>2, <2>3
<1>6. Heading(mine) \in Names
  BY <1>2, <1>4, HeadingFacts
<1>7. Gathered'
  <2>1. next' \in 1..(Len(stream') + 1)
    BY <1>1, <1>3
  <2>2. \A p \in 1..Len(stream) : /\ p < next + 1 => stream[p].at < bucket + Step
                                  /\ next + 1 <= p => bucket <= stream[p].at
    BY <1>2, <1>3 DEF Gathered
  <2>3. collected' \in [Names -> SUBSET Int]
    <3>1. collected \in [Names -> SUBSET Int]
      BY <1>2 DEF Gathered
    <3>2. collected' = [collected EXCEPT ![Heading(mine)] = @ \cup {next}]
      BY <1>1, <1>4
    <3>3. next \in Int
      BY <1>3
    <3> HIDE DEF mine, i
    <3> QED BY <1>6, <3>1, <3>2, <3>3
  <2>4. ASSUME NEW k \in DOMAIN columns
        PROVE  collected'[Heading(columns[k])] =
                  {p \in 1..next : stream[p].row \in columns[k] /\ bucket <= stream[p].at}
    <3>1. /\ collected[Heading(columns[k])] =
                {p \in 1..(next - 1) : stream[p].row \in columns[k] /\ bucket <= stream[p].at}
          /\ bucket <= stream[next].at /\ collected \in [Names -> SUBSET Int]
      BY <1>2, <1>3 DEF Gathered
    <3>2. Heading(columns[k]) \in Names
      BY <1>2, <1>5, HeadingFacts
    <3>3. 1..next = (1..(next - 1)) \cup {next}
      BY <1>3
    <3>4. CASE i \in columns[k]
      BY <1>1, <1>4, <1>5, <3>1, <3>2, <3>3, <3>4
    <3>5. CASE i \notin columns[k]
      BY <1>1, <1>4, <1>5, <1>6, <3>1, <3>2, <3>3, <3>5
    <3> QED BY <3>4, <3>5
  <2>5. Heading(columns[1])' = Heading(columns[1]) /\ \A col : Heading(col)' = Heading(col)
    BY <1>1, SelectedStays
  <2>6. (next + 1) - 1 = next
    BY <1>3
  <2> QED BY <1>1, <2>1, <2>2, <2>3, <2>4, <2>5, <2>6 DEF Gathered
<1> QED BY <1>1, <1>2, <1>7, ReadStays DEF CollectInv

\* A bucket is closed with the cell that each column has at it.
LEMMA RowValueFacts ==
    ASSUME CollectInv, phase = "reading", ~Within, NEW k \in DOMAIN columns
    PROVE  RowValue(k) = CellAt(columns[k], bucket)
<1> DEFINE col == columns[k]
           ps == collected[Heading(col)]
<1>1. /\ KnitInv /\ Streamed /\ Gathered /\ Carried
      /\ col \in Columns /\ ~Conflict(col)
      /\ Step \in Nat \ {0} /\ bucket \in Int
  <2>1. col \in ToSet(columns)
    BY DEF ToSet
  <2> QED BY <2>1, ReadingFacts
<1>2. /\ next \in 1..(Len(stream) + 1) /\ Len(stream) \in Nat /\ DOMAIN stream = 1..Len(stream)
      /\ ps = {p \in 1..(next - 1) : stream[p].row \in col /\ bucket <= stream[p].at}
      /\ \A p \in 1..Len(stream) :
            /\ stream[p].at \in Int
            /\ Truthful(rows[stream[p].row], stream[p].truth)
            /\ p < next => stream[p].at < bucket + Step
  BY <1>1 DEF Gathered, Streamed
<1>3. \A p \in 1..Len(stream) : next <= p => bucket + Step <= stream[p].at
  <2> TAKE p \in 1..Len(stream)
  <2> SUFFICES ASSUME next <= p PROVE bucket + Step <= stream[p].at
    OBVIOUS
  <2>1. next \in 1..Len(stream)
    BY <1>2
  <2>2. stream[next].at <= stream[p].at
    BY <1>1, <2>1 DEF Streamed
  <2>3. ~(stream[next].at < bucket + Step)
    BY <2>1 DEF Within
  <2> QED BY <1>1, <1>2, <2>1, <2>2, <2>3
<1>4. ps = ReadingsIn(col, bucket)
  <2>1. \A p \in 1..Len(stream) : stream[p].at < bucket + Step <=> p \in 1..(next - 1)
    <3> TAKE p \in 1..Len(stream)
    <3>1. stream[p].at \in Int /\ next \in Int
      BY <1>2
    <3> QED BY <1>1, <1>2, <1>3, <3>1
  <2>2. 1..(next - 1) \subseteq 1..Len(stream)
    BY <1>2
  <2> HIDE DEF col, ps
  <2> QED BY <1>2, <2>1, <2>2 DEF ReadingsIn
<1>5. CASE ps # {}
  <2>1. ps \in SUBSET Int /\ IsFiniteSet(ps)
    <3>1. ps \in SUBSET (1..Len(stream)) /\ 1 \in Int /\ Len(stream) \in Int
      BY <1>2
    <3> HIDE DEF ps
    <3> QED BY <3>1, BoundedFinite
  <2>2. \A p \in ps : stream[p].row \in col /\ Truthful(rows[stream[p].row], stream[p].truth)
    BY <1>2
  <2>3. BucketCell(col, ps) = TrueCell(col, ps)
    <3> HIDE DEF col, ps
    <3> QED BY <1>1, <1>5, <2>1, <2>2, BucketCellFacts
  <2>4. RowValue(k) = BucketCell(col, ps)
    BY <1>5 DEF RowValue
  <2>5. CellAt(col, bucket) = TrueCell(col, ps)
    <3> HIDE DEF col, ps
    <3> QED BY <1>1, <1>4, <1>5, CellFacts
  <2> QED BY <2>3, <2>4, <2>5
<1>6. CASE ps = {}
  <2>1. RowValue(k) = IF cells # <<>> THEN cells[k] ELSE None
    BY <1>6 DEF RowValue
  <2>2. CellAt(col, bucket) = CellAt(col, bucket - Step)
    <3> HIDE DEF col, ps
    <3> QED BY <1>1, <1>4, <1>6, CellFacts
  <2>3. CASE cells # <<>>
    BY <1>1, <2>1, <2>2, <2>3 DEF Carried
  <2>4. CASE cells = <<>>
    <3>1. bucket - Step \in Int /\ (bucket - Step) + Step = bucket
      BY <1>1
    <3>2. \A p \in DOMAIN stream : stream[p].at \in Int /\ bucket <= stream[p].at
      BY <1>1, <1>2, <2>4 DEF Carried
    <3>3. CellAt(col, bucket - Step) = None
      <4> HIDE DEF col
      <4> QED BY <1>1, <3>1, <3>2, CellFacts
    <3> QED BY <2>1, <2>2, <2>4, <3>3
  <2> QED BY <2>3, <2>4
<1> QED BY <1>5, <1>6

\* A closed bucket has a cell for each column, and a line if it is in the window.
LEMMA CloseReads == CollectInv /\ CsvInv' /\ CloseBucket => CollectInv'
<1> SUFFICES ASSUME CollectInv, CsvInv', CloseBucket PROVE CollectInv'
  OBVIOUS
<1> DEFINE line == [at |-> bucket, cells |-> cells']
<1>1. /\ phase = "reading" /\ phase' = "reading" /\ ~Within /\ bucket <= End
      /\ cells' = [k \in DOMAIN columns |-> RowValue(k)]
      /\ lines' = IF bucket >= Start THEN Append(lines, line) ELSE lines
      /\ bucket' = bucket + Step /\ collected' = NoneCollected
      /\ UNCHANGED <<knitVars, columns, stream, next>>
  BY DEF CloseBucket, Written
<1>2. /\ KnitInv /\ Streamed /\ Lined /\ Gathered /\ Carried /\ Placed /\ stream # <<>>
      /\ columns \in Seq(Columns)
      /\ Step \in Nat \ {0} /\ bucket \in Int /\ Start \in Int /\ Len(lines) \in Nat
  BY <1>1, ReadingFacts
<1>3. \A k \in DOMAIN columns : cells'[k] = CellAt(columns[k], bucket)
  BY <1>1, RowValueFacts
<1>4. \A col, t : CellAt(col, t)' = CellAt(col, t)
  BY <1>1, CellStays
<1>5. cells' # <<>>
  <2>1. Len(stream) \in Nat /\ DOMAIN stream = 1..Len(stream)
    BY <1>2 DEF Streamed
  <2>2. CASE Len(stream) = 0
    <3>1. next = 1
      BY <1>2, <2>2 DEF Gathered
    <3>2. \A p \in 1..Len(stream) : FALSE
      BY <2>2
    <3> QED BY SMTT(30), <1>2, <2>1, <2>2
  <2>3. CASE Len(stream) # 0
    <3>1. stream[1].row \in UNION ToSet(columns)
      BY <1>2, <2>1, <2>3 DEF Streamed
    <3>2. PICK k \in DOMAIN columns : TRUE
      BY <3>1 DEF ToSet
    <3>3. DOMAIN cells' # {}
      BY <1>1, <3>2
    <3> QED BY <3>3
  <2> QED BY <2>2, <2>3
<1>6. bucket' - Step = bucket
  BY <1>1, <1>2
<1>7. Carried'
  BY <1>1, <1>3, <1>4, <1>5, <1>6 DEF Carried
<1>8. PICK q \in Int : bucket = Start + Step * q /\ Len(lines) = IF q >= 0 THEN q ELSE 0
  BY <1>2 DEF Placed
<1>9. bucket >= Start <=> q >= 0
  <2>1. (q >= 0 => 0 * Step <= q * Step) /\ (q < 0 => q * Step < 0 * Step)
    BY <1>2, <1>8, MulMonotone, MulStrict
  <2> QED BY <1>2, <1>8, <2>1
<1>10. /\ lines' \in Seq(ToSet(lines'))
       /\ Len(lines') = IF q >= 0 THEN q + 1 ELSE 0
       /\ q >= 0 => lines'[q + 1] = line
       /\ \A n \in 1..Len(lines) : lines'[n] = lines[n]
  <2>1. lines \in Seq(ToSet(lines))
    BY <1>2 DEF Lined
  <2>2. CASE q >= 0
    <3>1. lines' = Append(lines, line) /\ Len(lines) = q
      BY <1>1, <1>8, <1>9, <2>2
    <3> HIDE DEF line
    <3> QED BY <2>1, <2>2, <3>1, GrownFacts
  <2>3. CASE ~(q >= 0)
    BY <1>1, <1>8, <1>9, <2>1, <2>3
  <2> QED BY <2>2, <2>3
<1>11. Placed'
  <2>1. bucket' = Start + Step * (q + 1) /\ q + 1 \in Int
    <3>1. Step * (q + 1) = Step * q + Step /\ Step * q \in Int
      BY <1>2, <1>8
    <3> QED BY <1>1, <1>2, <1>8, <3>1
  <2>2. Len(lines') = IF q + 1 >= 0 THEN q + 1 ELSE 0
    BY <1>8, <1>10
  <2> QED BY <2>1, <2>2 DEF Placed
<1>12. Lined'
  <2> SUFFICES ASSUME NEW n \in 1..Len(lines')
               PROVE  /\ lines'[n].at = Start + Step * (n - 1) /\ lines'[n].at <= End
                      /\ \A k \in DOMAIN columns : lines'[n].cells[k] = CellAt(columns[k], lines'[n].at)
    BY <1>1, <1>4, <1>10 DEF Lined
  <2>1. CASE n \in 1..Len(lines)
    BY <1>2, <1>10, <2>1 DEF Lined
  <2>2. CASE n \notin 1..Len(lines)
    <3>1. n = q + 1 /\ q >= 0 /\ n - 1 = q
      BY <1>8, <1>10, <2>2
    <3>2. lines'[n].at = bucket /\ lines'[n].cells = cells'
      BY <1>10, <3>1
    <3> QED BY <1>1, <1>3, <1>8, <3>1, <3>2
  <2> QED BY <2>1, <2>2
<1>13. Gathered'
  <2>1. /\ next \in 1..(Len(stream) + 1) /\ Len(stream) \in Nat
        /\ \A p \in 1..Len(stream) : /\ stream[p].at \in Int
                                     /\ p < next => stream[p].at < bucket + Step
    BY <1>2 DEF Gathered, Streamed
  <2>2. \A p \in 1..Len(stream) : next <= p => bucket + Step <= stream[p].at
    <3> TAKE p \in 1..Len(stream)
    <3> SUFFICES ASSUME next <= p PROVE bucket + Step <= stream[p].at
      OBVIOUS
    <3>1. next \in 1..Len(stream)
      BY <2>1
    <3>2. stream[next].at <= stream[p].at
      BY <1>2, <3>1 DEF Streamed
    <3>3. ~(stream[next].at < bucket + Step)
      BY <1>1, <3>1 DEF Within
    <3> QED BY <1>2, <2>1, <3>1, <3>2, <3>3
  <2>3. \A p \in 1..Len(stream) : p < next => stream[p].at < bucket + Step + Step
    <3> TAKE p \in 1..Len(stream)
    <3> QED BY <1>2, <2>1
  <2>4. collected' \in [Names -> SUBSET Int] /\ \A n \in Names : collected'[n] = {}
    BY <1>1 DEF NoneCollected
  <2>5. \A k \in DOMAIN columns : Heading(columns[k]) \in Names
    BY <1>2, HeadingFacts
  <2>6. \A p \in 1..(next - 1) : ~(bucket + Step <= stream[p].at)
    <3> TAKE p \in 1..(next - 1)
    <3>1. p \in 1..Len(stream) /\ p < next
      BY <2>1
    <3> QED BY <1>2, <2>1, <3>1
  <2>7. \A col : Heading(col)' = Heading(col)
    BY <1>1, SelectedStays
  <2>8. \A k \in DOMAIN columns :
           {p \in 1..(next - 1) : stream[p].row \in columns[k] /\ bucket + Step <= stream[p].at} = {}
    BY <2>6
  <2> QED BY <1>1, <2>1, <2>2, <2>3, <2>4, <2>5, <2>7, <2>8 DEF Gathered
<1>14. Streamed'
  BY <1>1, <1>2, ReadStays
<1> QED BY <1>1, <1>2, <1>7, <1>11, <1>12, <1>13, <1>14 DEF CollectInv

\* The last bucket is closed.
LEMMA FinishReads == CollectInv /\ CsvInv' /\ Finish => CollectInv'
<1> SUFFICES ASSUME CollectInv, CsvInv', Finish PROVE CollectInv'
  OBVIOUS
<1>1. /\ phase = "reading" /\ phase' = "done" /\ bucket > End
      /\ UNCHANGED <<knitVars, request, columns, stream, next, bucket, collected, cells, lines>>
  BY DEF Finish
<1>2. /\ Streamed /\ Lined /\ Placed /\ stream # <<>> /\ Step \in Nat \ {0} /\ bucket \in Int
      /\ Start \in Int /\ End \in Int /\ Start < End
  BY <1>1, ReadingFacts
<1>3. PICK q \in Int : bucket = Start + Step * q /\ Len(lines) = IF q >= 0 THEN q ELSE 0
  BY <1>2 DEF Placed
<1>4. q >= 1 /\ Len(lines) = q
  <2>1. q * Step > 0 * Step
    BY <1>1, <1>2, <1>3
  <2>2. q > 0
    BY <1>2, <1>3, <2>1, MulCancel
  <2> QED BY <1>3, <2>2
<1>5. Start + Step * (q - 1) <= End
  BY <1>2, <1>4 DEF Lined
<1>6. (End - Start) \div Step = q - 1
  <2>1. Step * (q - 1) + Step = Step * q /\ Step * q \in Int /\ Step * (q - 1) \in Int
    BY <1>2, <1>3
  <2>2. Step * (q - 1) <= End - Start /\ End - Start < Step * (q - 1) + Step
    BY <1>1, <1>2, <1>3, <1>5, <2>1
  <2>3. End - Start \in Int /\ q - 1 \in Int
    BY <1>2, <1>3
  <2> QED BY <1>2, <2>2, <2>3, DivUnique
<1>7. Whole'
  BY <1>1, <1>2, <1>3, <1>4, <1>6 DEF Whole
<1> QED BY <1>1, <1>2, <1>7, ReadStays DEF CollectInv

\* Every step keeps what is collected, carried and written.
LEMMA ReadNext == CollectInv /\ [CsvNext]_allCsvVars => CollectInv'
<1>1. CollectInv /\ [CsvNext]_allCsvVars => CsvInv'
  BY CsvNextInv DEF CollectInv
<1> QED BY <1>1, KnitReads, StutterReads, AnswerReads, TakeReads, CloseReads, FinishReads DEF CsvNext

\* What is collected are the readings of the bucket at hand, what is carried and written
\* the cells of those before it (csv_generator).
THEOREM CsvAlwaysReads == CsvSpec => []CollectInv
BY ReadInit, ReadNext, PTL DEF CsvSpec

\* The table has a line for each time step from the start to the end, in order, and is
\* complete unless there was nothing to read (csv_generator).
THEOREM LinesAlwaysExact == CsvSpec => []LinesExact
<1>1. CollectInv => LinesExact
  <2> SUFFICES ASSUME CollectInv PROVE LinesExact
    OBVIOUS
  <2>1. CASE phase \in {"knitting", "refused"}
    BY <2>1 DEF CollectInv, Unread, LinesExact
  <2>2. CASE phase \in {"reading", "done"}
    BY <2>2 DEF CollectInv, Lined, Whole, LinesExact
  <2> QED BY <2>1, <2>2 DEF CollectInv, CsvInv
<1> QED BY <1>1, CsvAlwaysReads, PTL

\* Every cell is what the house meant, in the unit of the newest row (csv_generator).
THEOREM CellsAlwaysRight == CsvSpec => []CellsRight
<1>1. CollectInv => CellsRight
  <2> SUFFICES ASSUME CollectInv, NEW n \in DOMAIN lines, NEW k \in DOMAIN columns
               PROVE  LET col == columns[k]
                          heard == {b \in 0..(LookBack + lines[n].at) :
                                       ReadingsIn(col, lines[n].at - Step * b) # {}}
                      IN lines[n].cells[k] =
                            IF heard = {} THEN None
                            ELSE TrueCell(col, ReadingsIn(col, lines[n].at - Step * Min(heard)))
    BY DEF CellsRight
  <2> DEFINE col == columns[k]
             t == lines[n].at
             heard == {b \in 0..(LookBack + t) : ReadingsIn(col, t - Step * b) # {}}
  <2>1. phase \in {"reading", "done"}
    BY DEF CollectInv, CsvInv, Unread
  <2>2. Streamed /\ Lined
    BY <2>1 DEF CollectInv
  <2>3. /\ Start \in Nat /\ Step \in Nat \ {0} /\ LookBack \in Nat
    BY CsvAssumption, RequestAssumption
  <2>4. n \in 1..Len(lines) /\ n - 1 \in Nat
    BY <2>2 DEF Lined
  <2>5. t = Start + Step * (n - 1) /\ lines[n].cells[k] = CellAt(col, t)
    BY <2>2, <2>4 DEF Lined
  <2>6. t \in Nat
    <3>1. Step * (n - 1) \in Nat
      BY <2>3, <2>4
    <3> QED BY <2>3, <2>5, <3>1
  <2>7. -LookBack <= DbStart /\ DbStart \in Int
    <3> DEFINE d == LookBack \div Step
    <3>1. d \in Int /\ Step * d <= LookBack
      BY <2>3, DivFacts
    <3>2. Step * d \in Int
      BY <2>3, <3>1
    <3> HIDE DEF d
    <3> QED BY <2>3, <3>1, <3>2 DEF DbStart, d
  <2>8. ASSUME NEW b \in Nat, ReadingsIn(col, t - Step * b) # {} PROVE b <= LookBack + t
    <3>1. PICK p \in DOMAIN stream : stream[p].at < t - Step * b + Step
      BY <2>8 DEF ReadingsIn
    <3>2. stream[p].at \in Int /\ DbStart <= stream[p].at
      BY <2>2, <3>1 DEF Streamed
    <3>3. Step * b = b * Step /\ b * Step \in Int /\ (b - 1) * Step = b * Step - Step
      BY <2>3
    <3>4. (b - 1) * Step < LookBack + t
      <4> HIDE DEF t
      <4> QED BY <2>3, <2>6, <2>7, <3>1, <3>2, <3>3
    <3>5. LookBack + t <= (LookBack + t) * Step
      <4>1. \A v \in Nat : v * 1 <= v * Step
        BY <2>3
      <4> HIDE DEF t
      <4> QED BY <2>3, <2>6, <4>1
    <3>6. (b - 1) * Step < (LookBack + t) * Step
      <4>1. (LookBack + t) * Step \in Int /\ (b - 1) * Step \in Int
        <5> HIDE DEF t
        <5> QED BY <2>3, <2>6
      <4> HIDE DEF t
      <4> QED BY <2>3, <2>6, <3>4, <3>5, <4>1
    <3>7. b - 1 < LookBack + t
      <4> HIDE DEF t
      <4> QED BY <2>3, <2>6, <3>6, MulCancel
    <3> HIDE DEF t
    <3> QED BY <2>3, <2>6, <3>7
  <2>9. heard = Behind(col, t)
    <3>1. \A b \in Nat : b <= LookBack + t => b \in 0..(LookBack + t)
      <4> HIDE DEF t
      <4> QED BY <2>3, <2>6
    <3> HIDE DEF t, col
    <3> QED BY <2>8, <3>1 DEF Behind
  <2> HIDE DEF t, col
  <2> QED BY <2>5, <2>9 DEF CellAt, t, col
<1> QED BY <1>1, CsvAlwaysReads, PTL

-----------------------------------------------------------------------------
(* The readings bundle: the periods of late persistence. *)

\* The seconds of the window, and the reports and clock they are told in.
Report == [at : Start..end, delayed : BOOLEAN]

Seconds == SecondOf(Start)..SecondOf(end)

\* The seconds are in the order of the times, and begin at their multiples.
LEMMA SecondFacts ==
    ASSUME end \in Ends
    PROVE  /\ Start \in Nat /\ end \in Nat /\ Start <= end
           /\ \A t \in Int : SecondOf(t) \in Int
           /\ \A t \in Start..end : t \in Int /\ SecondOf(t) \in Seconds
           /\ \A t, u \in Int : t <= u => SecondOf(t) <= SecondOf(u)
           /\ \A t \in Int, s \in Int : s <= SecondOf(t) <=> s * PerSecond <= t
           /\ \A s \in Int : s * PerSecond \in Int /\ SecondOf(s * PerSecond) = s
<1>1. PerSecond \in Nat \ {0} /\ Start \in Nat /\ end \in Nat /\ Start < end
  BY BundleAssumption, RequestAssumption
<1>2. \A t \in Int : /\ SecondOf(t) \in Int
                     /\ SecondOf(t) * PerSecond <= t
                     /\ t < SecondOf(t) * PerSecond + PerSecond
  <2> TAKE t \in Int
  <2>1. /\ t \div PerSecond \in Int
        /\ PerSecond * (t \div PerSecond) <= t
        /\ t < PerSecond * (t \div PerSecond) + PerSecond
    BY <1>1, DivFacts
  <2>2. \A q \in Int : PerSecond * q = q * PerSecond
    BY <1>1
  <2> QED BY <2>1, <2>2 DEF SecondOf
<1>3. \A t, u \in Int : t <= u => SecondOf(t) <= SecondOf(u)
  BY <1>1, DivMonotone DEF SecondOf
<1>4. Start <= end
  BY <1>1
<1>5. ASSUME NEW t \in Int, NEW s \in Int PROVE s <= SecondOf(t) <=> s * PerSecond <= t
  <2> DEFINE q == SecondOf(t)
  <2>1. q \in Int /\ q * PerSecond \in Int /\ s * PerSecond \in Int /\ q + 1 \in Int
        /\ (q + 1) * PerSecond = q * PerSecond + PerSecond
    BY <1>1, <1>2
  <2>2. s <= q => s * PerSecond <= q * PerSecond
    BY <1>1, <2>1, MulMonotone
  <2>3. q + 1 <= s => (q + 1) * PerSecond <= s * PerSecond
    BY <1>1, <2>1, MulMonotone
  <2>4. q * PerSecond <= t /\ t < q * PerSecond + PerSecond /\ PerSecond \in Int
    BY <1>1, <1>2
  <2> HIDE DEF q
  <2>5. ASSUME NEW a \in Int, NEW b \in Int, NEW c \in Int,
               s <= q => b <= a, q + 1 <= s => c <= b, c = a + PerSecond, a <= t, t < a + PerSecond
        PROVE  s <= q <=> b <= t
    BY <2>1, <2>4, <2>5
  <2>6. s <= q <=> s * PerSecond <= t
    BY <2>1, <2>2, <2>3, <2>4, <2>5
  <2> QED BY <2>6 DEF q
<1>6. ASSUME NEW s \in Int PROVE s * PerSecond \in Int /\ SecondOf(s * PerSecond) = s
  <2>1. /\ s * PerSecond \in Int /\ PerSecond * s = s * PerSecond
        /\ s * PerSecond < s * PerSecond + PerSecond
    BY <1>1
  <2>2. (s * PerSecond) \div PerSecond = s
    <3>1. \A a \in Int : a = PerSecond * s => a \div PerSecond = s
      BY <1>1, DivUnique
    <3> QED BY <2>1, <3>1
  <2> QED BY <2>1, <2>2 DEF SecondOf
<1>7. \A t \in Start..end : t \in Int /\ SecondOf(t) \in Seconds
  <2> TAKE t \in Start..end
  <2>1. t \in Int /\ Start <= t /\ t <= end /\ Start \in Int /\ end \in Int
    BY <1>1
  <2>2. /\ SecondOf(t) \in Int /\ SecondOf(Start) \in Int /\ SecondOf(end) \in Int
        /\ SecondOf(Start) <= SecondOf(t) /\ SecondOf(t) <= SecondOf(end)
    BY <1>2, <1>3, <2>1
  <2> QED BY <2>1, <2>2 DEF Seconds
<1> QED BY <1>1, <1>2, <1>3, <1>4, <1>5, <1>6, <1>7

\* A list of what has a time is in the order of the times.
ByTime(s) == \A i, j \in 1..Len(s) : i <= j => s[i].at <= s[j].at

\* A list over a set is one over a wider set.
LEMMA WiderSeq ==
    ASSUME NEW S, NEW T, S \subseteq T, NEW s \in Seq(S)
    PROVE  s \in Seq(T)
<1>1. Len(s) \in Nat /\ s = [i \in 1..Len(s) |-> s[i]] /\ \A i \in 1..Len(s) : s[i] \in T
  OBVIOUS
<1>2. [i \in 1..Len(s) |-> s[i]] \in Seq(T)
  BY <1>1, IsASeq
<1> QED BY <1>1, <1>2

\* A list of which no entry comes before the one ahead of it is by time.
LEMMA ByTimeFacts ==
    ASSUME NEW E, \A e \in E : e.at \in Int, NEW s \in Seq(E),
           \A i \in 2..Len(s) : s[i - 1].at <= s[i].at
    PROVE  ByTime(s)
<1> DEFINE f == [i \in 1..Len(s) |-> s[i].at]
<1>1. Len(s) \in Nat /\ \A i \in 1..Len(s) : s[i] \in E
  OBVIOUS
<1>2. f \in [1..Len(s) -> Int] /\ \A i \in 2..Len(s) : f[i - 1] <= f[i]
  BY <1>1
<1> HIDE DEF f
<1>3. \A i, j \in 1..Len(s) : i <= j => f[i] <= f[j]
  BY <1>1, <1>2, SortedFacts
<1> QED BY <1>3 DEF f, ByTime

\* What a filter leaves of a list by time is by time.
LEMMA FilteredByTime ==
    ASSUME NEW E, NEW s \in Seq(E), ByTime(s), NEW Good
    PROVE  /\ Filtered(s, Good) \in Seq(E)
           /\ \A i \in 1..Len(Filtered(s, Good)) : Filtered(s, Good)[i] \in Good
           /\ ByTime(Filtered(s, Good))
<1> DEFINE F == Filtered(s, Good)
           e == Places(s, Good)
<1>1. F \in Seq(E) /\ Keeps(F, e, s, Good)
  BY FilteredFacts
<1> HIDE DEF F, e
<1>2. /\ Len(F) \in Nat /\ Len(s) \in Nat
      /\ e \in [1..Len(F) -> 1..Len(s)]
      /\ \A k \in 1..Len(F) : F[k] = s[e[k]] /\ F[k] \in Good
      /\ \A k, l \in 1..Len(F) : k < l => e[k] < e[l]
  BY <1>1 DEF Keeps
<1>3. ASSUME NEW i \in 1..Len(F), NEW j \in 1..Len(F), i <= j PROVE F[i].at <= F[j].at
  <2>1. i = j \/ i < j
    BY <1>2, <1>3
  <2>2. e[i] \in 1..Len(s) /\ e[j] \in 1..Len(s) /\ (i < j => e[i] < e[j])
    BY <1>2
  <2>3. e[i] <= e[j]
    BY <1>2, <2>1, <2>2
  <2> QED BY <1>2, <2>2, <2>3 DEF ByTime
<1> QED BY <1>1, <1>2, <1>3 DEF F, ByTime

\* What the WHERE of a query leaves of a list by time: those of the window.
LEMMA InRangeFacts ==
    ASSUME NEW E, NEW s \in Seq(E), ByTime(s)
    PROVE  InRange(s) \in Seq({r \in E : r.at \in Start..end}) /\ ByTime(InRange(s))
<1> DEFINE Good == {r \in ToSet(s) : r.at \in Start..end}
           F == Filtered(s, Good)
<1>1. F \in Seq(E) /\ ByTime(F) /\ \A i \in 1..Len(F) : F[i] \in Good
  <2> HIDE DEF Good
  <2> QED BY FilteredByTime
<1>2. \A i \in 1..Len(F) : F[i] \in {r \in E : r.at \in Start..end}
  <2> HIDE DEF F
  <2>1. \A i \in 1..Len(F) : F[i] \in E
    BY <1>1
  <2> QED BY <1>1, <2>1
<1> HIDE DEF F
<1>3. F \in Seq({r \in E : r.at \in Start..end})
  <2>1. Len(F) \in Nat /\ F = [i \in 1..Len(F) |-> F[i]]
    BY <1>1
  <2>2. [i \in 1..Len(F) |-> F[i]] \in Seq({r \in E : r.at \in Start..end})
    BY <1>2, <2>1, IsASeq
  <2> QED BY <2>1, <2>2
<1> QED BY <1>1, <1>3 DEF InRange, F

\* The reports the query of delays saw.
Reported == reports \in Seq(Report) /\ ByTime(reports)

\* The reports whose delay changes.
ChangeAt == InOrder({i \in DOMAIN reports : i = 1 \/ reports[i].delayed # reports[i - 1].delayed})

\* Report i is one of those from the k-th change to the next.
From(k, i) == /\ ChangeAt[k] <= i
              /\ k < Len(Changes) => i < ChangeAt[k + 1]

\* Every report is delayed as the change it comes from, and the changes take turns.
LEMMA ChangeFacts ==
    ASSUME reports \in Seq(Report)
    PROVE  /\ Len(Changes) \in Nat /\ Len(Changes) <= Len(reports) /\ Len(reports) \in Nat
           /\ Changes \in Seq(Report)
           /\ ChangeAt \in [1..Len(Changes) -> 1..Len(reports)]
           /\ \A k \in 1..Len(Changes) : Changes[k] = reports[ChangeAt[k]]
           /\ \A k, l \in 1..Len(Changes) : k < l => ChangeAt[k] < ChangeAt[l]
           /\ \A i \in 1..Len(reports) : \E k \in 1..Len(Changes) :
                 From(k, i) /\ reports[i].delayed = Changes[k].delayed
           /\ \A k \in 2..Len(Changes) : Changes[k].delayed # Changes[k - 1].delayed
<1> DEFINE changed == {i \in DOMAIN reports : i = 1 \/ reports[i].delayed # reports[i - 1].delayed}
           N == Len(reports)
           n == Cardinality(changed)
<1>1. N \in Nat /\ DOMAIN reports = 1..N /\ changed \in SUBSET (1..N)
  OBVIOUS
<1>2. changed \in SUBSET Int /\ IsFiniteSet(changed) /\ n <= N
  <2> HIDE DEF changed, N
  <2>1. 1 \in Int /\ N \in Int
    BY <1>1
  <2>2. IsFiniteSet(changed) /\ changed \in SUBSET Int
    BY <1>1, <2>1, BoundedFinite
  <2>3. IsFiniteSet(1..N) /\ Cardinality(1..N) = N
    BY <1>1, FS_Interval
  <2>4. Cardinality(changed) <= Cardinality(1..N)
    BY <1>1, <2>3, FS_Subset
  <2> QED BY <2>2, <2>3, <2>4
<1>3. /\ n \in Nat
      /\ ChangeAt \in [1..n -> changed]
      /\ \A k, l \in 1..n : k < l => ChangeAt[k] < ChangeAt[l]
      /\ \A i \in changed : \E k \in 1..n : ChangeAt[k] = i
  <2> HIDE DEF changed
  <2>1. ChangeAt = InOrder(changed)
    BY DEF ChangeAt, changed
  <2> QED BY <1>2, <2>1, InOrderFacts
<1>4. Changes = [k \in 1..n |-> reports[ChangeAt[k]]]
  BY <1>3 DEF Changes, ChangeAt
<1>5. Changes \in Seq(Report) /\ Len(Changes) = n
  <2> HIDE DEF changed, n
  <2>1. \A k \in 1..n : ChangeAt[k] \in 1..N
    BY <1>1, <1>3
  <2>2. \A k \in 1..n : reports[ChangeAt[k]] \in Report
    BY <1>1, <2>1
  <2> QED BY <1>3, <1>4, <2>2, IsASeq
<1>6. \A k \in 1..n : Changes[k] = reports[ChangeAt[k]]
  BY <1>4
<1> DEFINE Fits(i) == \E k \in 1..n : From(k, i) /\ reports[i].delayed = Changes[k].delayed
<1>7. ASSUME NEW i \in 1..N, i \notin changed => Fits(i - 1) PROVE Fits(i)
  <2>1. CASE i \in changed
    <3>1. PICK k \in 1..n : ChangeAt[k] = i
      BY <1>3, <2>1
    <3>2. k < n => k + 1 \in 1..n /\ i < ChangeAt[k + 1]
      BY <1>3, <3>1
    <3> HIDE DEF n
    <3>3. From(k, i)
      BY <1>5, <3>1, <3>2, <1>1 DEF From
    <3> QED BY <1>6, <3>1, <3>3
  <2>2. CASE i \notin changed
    <3>1. i \in 2..N /\ reports[i].delayed = reports[i - 1].delayed
      BY <1>1, <2>2
    <3>2. PICK k \in 1..n : From(k, i - 1) /\ reports[i - 1].delayed = Changes[k].delayed
      BY <1>7, <2>2
    <3>3. k < n => k + 1 \in 1..n /\ ChangeAt[k + 1] # i /\ ChangeAt[k + 1] \in 1..N
      <4> SUFFICES ASSUME k < n
                   PROVE  k + 1 \in 1..n /\ ChangeAt[k + 1] # i /\ ChangeAt[k + 1] \in 1..N
        OBVIOUS
      <4> HIDE DEF n, changed, N
      <4>1. k + 1 \in 1..n
        BY <1>3
      <4> QED BY <1>1, <1>3, <2>2, <4>1
    <3>4. ChangeAt[k] \in 1..N
      BY <1>1, <1>3
    <3> HIDE DEF n, changed, N
    <3>5. From(k, i)
      BY <1>1, <1>5, <3>1, <3>2, <3>3, <3>4 DEF From
    <3> QED BY <3>1, <3>2, <3>5
  <2> QED BY <2>1, <2>2
<1>8. \A i \in 1..N : Fits(i)
  <2> DEFINE B == {i \in 1..N : ~Fits(i)}
  <2> SUFFICES ASSUME B # {} PROVE FALSE
    OBVIOUS
  <2> HIDE DEF Fits
  <2>1. B \in SUBSET Nat
    OBVIOUS
  <2>2. PICK i \in B : \A j \in B : i <= j
    <3> HIDE DEF B
    <3> QED BY <2>1, Least
  <2>3. i \in 1..N /\ ~Fits(i) /\ i - 1 \notin B
    BY <2>2
  <2>4. i \notin changed
    BY <1>7, <2>3
  <2>5. i - 1 \in 1..N
    BY <1>1, <2>3, <2>4
  <2> QED BY <1>7, <2>3, <2>5
<1>9. \A k \in 2..n : Changes[k].delayed # Changes[k - 1].delayed
  <2> TAKE k \in 2..n
  <2>0. n \in Nat /\ k \in 1..n /\ k - 1 \in 1..n /\ k \in Int
    BY <1>3
  <2> DEFINE i == ChangeAt[k]
             j == ChangeAt[k - 1]
  <2>1. i \in changed /\ j \in changed /\ j < i
    BY <1>3, <2>0
  <2>2. i \in 2..N /\ i - 1 \in 1..N /\ reports[i].delayed # reports[i - 1].delayed
    BY <1>1, <2>1
  <2>3. PICK l \in 1..n : From(l, i - 1) /\ reports[i - 1].delayed = Changes[l].delayed
    BY <1>8, <2>2
  <2>4. l = k - 1
    <3>1. ChangeAt[l] < i /\ ChangeAt[l] \in 1..N
      BY <1>1, <1>3, <2>2, <2>3 DEF From
    <3>2. ~(k <= l)
      <4>1. k < l => i < ChangeAt[l]
        BY <1>3, <2>0
      <4> QED BY <2>0, <2>2, <3>1, <4>1
    <3>3. ~(l < k - 1)
      <4> SUFFICES ASSUME l < k - 1 PROVE FALSE
        OBVIOUS
      <4>1. l + 1 \in 1..n /\ l < n /\ l + 1 < k
        BY <2>0
      <4>2. ChangeAt[l + 1] < i
        BY <1>3, <2>0, <4>1
      <4>3. i - 1 < ChangeAt[l + 1] /\ ChangeAt[l + 1] \in 1..N
        BY <1>1, <1>3, <1>5, <2>3, <4>1 DEF From
      <4> QED BY <2>2, <4>2, <4>3
    <3> QED BY <2>0, <3>2, <3>3
  <2> QED BY <1>6, <2>0, <2>2, <2>3, <2>4
<1> HIDE DEF changed, n
<1>10. ChangeAt \in [1..n -> 1..N]
  BY <1>1, <1>3
<1> QED BY <1>1, <1>2, <1>3, <1>5, <1>6, <1>8, <1>9, <1>10

\* The reports, and the changes among them, are in the order of their times.
LEMMA TimeFacts ==
    ASSUME end \in Ends, Reported
    PROVE  /\ reports \in Seq(Report)
           /\ \A i \in 1..Len(reports) : reports[i].at \in Start..end
           /\ \A i, j \in 1..Len(reports) : i <= j => reports[i].at <= reports[j].at
           /\ \A k \in 1..Len(Changes) : Changes[k].at \in Start..end /\ Changes[k].delayed \in BOOLEAN
           /\ \A k, l \in 1..Len(Changes) : k <= l => Changes[k].at <= Changes[l].at
<1>1. reports \in Seq(Report)
  BY DEF Reported
<1>3. Len(reports) \in Nat /\ \A i \in 1..Len(reports) : reports[i] \in Report
  BY <1>1
<1>4. \A i \in 1..Len(reports) : reports[i].at \in Start..end
  BY <1>3 DEF Report
<1>5. \A i, j \in 1..Len(reports) : i <= j => reports[i].at <= reports[j].at
  BY DEF Reported, ByTime
<1>6. \A k \in 1..Len(Changes) : Changes[k].at \in Start..end /\ Changes[k].delayed \in BOOLEAN
  <2>1. \A k \in 1..Len(Changes) : Changes[k] \in Report
    BY <1>1, ChangeFacts
  <2> QED BY <2>1 DEF Report
<1>7. ASSUME NEW k \in 1..Len(Changes), NEW l \in 1..Len(Changes), k <= l
      PROVE  Changes[k].at <= Changes[l].at
  <2>1. /\ Len(Changes) \in Nat
        /\ ChangeAt[k] \in 1..Len(reports) /\ ChangeAt[l] \in 1..Len(reports)
        /\ k < l => ChangeAt[k] < ChangeAt[l]
        /\ Changes[k] = reports[ChangeAt[k]] /\ Changes[l] = reports[ChangeAt[l]]
    BY <1>1, ChangeFacts
  <2>2. ChangeAt[k] <= ChangeAt[l]
    BY <1>3, <1>7, <2>1
  <2> QED BY <1>5, <2>1, <2>2
<1> QED BY <1>1, <1>4, <1>5, <1>6, <1>7

\* The last report of a time.
LEMMA LatestFacts ==
    ASSUME end \in Ends, Reported, NEW t \in Int
    PROVE  /\ Latest(t) \in 0..Len(reports)
           /\ \A i \in 1..Len(reports) : reports[i].at <= t <=> i <= Latest(t)
<1> DEFINE S == {0} \cup {i \in DOMAIN reports : reports[i].at <= t}
           N == Len(reports)
<1>1. N \in Nat /\ DOMAIN reports = 1..N /\ S \in SUBSET (0..N) /\ 0 \in S
  BY TimeFacts
<1>2. Max(S) \in S /\ \A y \in S : y <= Max(S)
  <2> HIDE DEF S, N
  <2>1. 0 \in Int /\ N \in Int
    BY <1>1
  <2>2. IsFiniteSet(S) /\ S \in SUBSET Int /\ S # {}
    BY <1>1, <2>1, BoundedFinite
  <2> QED BY <2>2, Extremes
<1>3. Latest(t) = Max(S)
  BY DEF Latest
<1>4. ASSUME NEW i \in 1..N PROVE reports[i].at <= t <=> i <= Latest(t)
  <2>1. reports[i].at <= t => i <= Latest(t)
    BY <1>1, <1>2, <1>3
  <2>2. ASSUME i <= Latest(t) PROVE reports[i].at <= t
    <3>1. Latest(t) \in 1..N /\ reports[Latest(t)].at <= t
      BY <1>1, <1>2, <1>3, <2>2
    <3>2. /\ reports[i].at <= reports[Latest(t)].at
          /\ reports[i].at \in Start..end /\ reports[Latest(t)].at \in Start..end
      BY <2>2, <3>1, TimeFacts
    <3> HIDE DEF S, N
    <3> QED BY SMTT(30), <3>1, <3>2, SecondFacts
  <2> QED BY <2>1, <2>2
<1> QED BY <1>1, <1>2, <1>3, <1>4

\* The time t is between the k-th change and the next.
Between(k, t) == /\ Changes[k].at <= t
                 /\ k < Len(Changes) => t < Changes[k + 1].at

\* The delay at a time is that of the change it is after.
LEMMA DelayedFacts ==
    ASSUME end \in Ends, Reported, NEW t \in Int
    PROVE  /\ DelayedAt(t) => \E k \in 1..Len(Changes) : Changes[k].delayed /\ Between(k, t)
           /\ \A k \in 1..Len(Changes) : Between(k, t) => (DelayedAt(t) <=> Changes[k].delayed)
<1> DEFINE n == Len(Changes)
           N == Len(reports)
           i == Latest(t)
<1>1. /\ n \in Nat /\ N \in Nat
      /\ \A k \in 1..n : ChangeAt[k] \in 1..N /\ Changes[k] = reports[ChangeAt[k]]
      /\ \A k, l \in 1..n : k < l => ChangeAt[k] < ChangeAt[l]
      /\ \A j \in 1..N : \E k \in 1..n : From(k, j) /\ reports[j].delayed = Changes[k].delayed
      /\ \A k \in 1..n : Changes[k].at \in Start..end
  BY TimeFacts, ChangeFacts
<1>2. i \in 0..N /\ \A j \in 1..N : reports[j].at <= t <=> j <= i
  BY LatestFacts
<1>4. DelayedAt(t) <=> i # 0 /\ reports[i].delayed
  BY DEF DelayedAt
<1>5. \A k \in 1..n : Changes[k].at <= t <=> ChangeAt[k] <= i
  BY <1>1, <1>2
<1>6. \A k \in 1..n : k < n => k + 1 \in 1..n
  BY <1>1
<1>7. \A a \in Start..end : a \in Int
  BY SecondFacts
<1> HIDE DEF i, N
<1>8. ASSUME NEW k \in 1..n PROVE Between(k, t) <=> i # 0 /\ From(k, i)
  <2>1. k < n => (t < Changes[k + 1].at <=> i < ChangeAt[k + 1])
    <3> SUFFICES ASSUME k < n PROVE t < Changes[k + 1].at <=> i < ChangeAt[k + 1]
      OBVIOUS
    <3>1. Changes[k + 1].at \in Int /\ ChangeAt[k + 1] \in Int /\ i \in Int
      BY <1>1, <1>2, <1>6, <1>7
    <3>2. Changes[k + 1].at <= t <=> ChangeAt[k + 1] <= i
      BY <1>5, <1>6
    <3> QED BY <3>1, <3>2
  <2>2. ChangeAt[k] <= i => i # 0
    BY <1>1, <1>2
  <2> QED BY <1>5, <2>1, <2>2 DEF Between, From
<1>9. ASSUME NEW k \in 1..n, NEW l \in 1..n, From(k, i), From(l, i), k < l PROVE FALSE
  <2>1. k < n /\ k + 1 \in 1..n /\ (k + 1 = l \/ k + 1 < l)
    BY <1>1, <1>9
  <2>2. ChangeAt[k + 1] <= ChangeAt[l] /\ ChangeAt[k + 1] \in Int /\ ChangeAt[l] \in Int
    BY <1>1, <2>1
  <2>3. i < ChangeAt[k + 1] /\ ChangeAt[l] <= i /\ i \in Int
    BY <1>2, <1>9, <2>1 DEF From
  <2> QED BY <2>2, <2>3
<1>10. ASSUME DelayedAt(t) PROVE \E k \in 1..n : Changes[k].delayed /\ Between(k, t)
  <2>1. i \in 1..N
    BY <1>1, <1>2, <1>4, <1>10
  <2>2. PICK k \in 1..n : From(k, i) /\ reports[i].delayed = Changes[k].delayed
    BY <1>1, <2>1
  <2> QED BY <1>4, <1>8, <1>10, <2>2
<1>11. ASSUME NEW k \in 1..n, Between(k, t) PROVE DelayedAt(t) <=> Changes[k].delayed
  <2>1. i # 0 /\ From(k, i) /\ i \in 1..N
    BY <1>1, <1>2, <1>8, <1>11
  <2>2. PICK l \in 1..n : From(l, i) /\ reports[i].delayed = Changes[l].delayed
    BY <1>1, <2>1
  <2>3. k = l
    BY <1>1, <1>9, <2>1, <2>2
  <2> QED BY <1>4, <2>1, <2>2, <2>3
<1> QED BY <1>10, <1>11

\* The period of the k-th change, if it is one to delayed.
PeriodOf(k) == Period(Changes[k].at, IF k = Len(Changes) THEN end ELSE Changes[k + 1].at)

\* ps are the periods of the changes before the m-th, in order.
InPeriods(ps, m) ==
    /\ ps \in Seq(Seconds \X Seconds)
    /\ \A p \in 1..Len(ps) : ps[p][1] <= ps[p][2]
    /\ \A p \in 2..Len(ps) : ps[p - 1][2] <= ps[p][1]
    /\ \A p \in 1..Len(ps) : \E k \in 1..Len(Changes) :
          k < m /\ Changes[k].delayed /\ ps[p] = PeriodOf(k)
    /\ \A k \in 1..Len(Changes) :
          k < m /\ Changes[k].delayed => \E p \in 1..Len(ps) : ps[p] = PeriodOf(k)

\* A period begins at its change, ends by every later one, and lies in the window.
LEMMA PeriodFacts ==
    ASSUME end \in Ends, Reported, NEW k \in 1..Len(Changes)
    PROVE  /\ PeriodOf(k) \in Seconds \X Seconds
           /\ PeriodOf(k)[1] = SecondOf(Changes[k].at)
           /\ PeriodOf(k)[1] <= PeriodOf(k)[2]
           /\ \A l \in 1..Len(Changes) : k < l => PeriodOf(k)[2] <= SecondOf(Changes[l].at)
<1> DEFINE n == Len(Changes)
           to == IF k = n THEN end ELSE Changes[k + 1].at
<1>1. n \in Nat /\ k \in Int
  BY TimeFacts, ChangeFacts
<1>2. /\ Changes[k].at \in Start..end /\ to \in Start..end /\ Changes[k].at <= to
      /\ \A l \in 1..n : k < l => to <= Changes[l].at /\ Changes[l].at \in Start..end
  <2>1. Changes[k].at \in Start..end
    BY TimeFacts
  <2>2. CASE k = n
    <3>1. end \in Start..end /\ \A t \in Start..end : t <= end
      BY SecondFacts
    <3> QED BY <1>1, <2>1, <2>2, <3>1
  <2>3. CASE k # n
    <3>1. k + 1 \in 1..n /\ k <= k + 1 /\ to = Changes[k + 1].at
      BY <1>1, <2>3
    <3>2. \A l \in 1..n : k < l => k + 1 <= l
      BY <1>1
    <3> HIDE DEF to
    <3> QED BY <2>1, <3>1, <3>2, TimeFacts
  <2> QED BY <2>2, <2>3
<1>3. PeriodOf(k) = <<SecondOf(Changes[k].at), SecondOf(to)>>
  BY DEF PeriodOf, Period
<1> HIDE DEF to
<1>4. \A t \in Start..end : t \in Int /\ SecondOf(t) \in Seconds
  BY SecondFacts
<1>5. SecondOf(Changes[k].at) <= SecondOf(to)
  BY <1>2, <1>4, SecondFacts
<1>6. \A l \in 1..n : k < l => SecondOf(to) <= SecondOf(Changes[l].at)
  BY <1>2, <1>4, SecondFacts
<1>7. SecondOf(Changes[k].at) \in Seconds /\ SecondOf(to) \in Seconds
  BY <1>2, <1>4
<1> QED BY <1>3, <1>5, <1>6, <1>7

\* The period of the next change comes after those before it.
LEMMA PeriodAppended ==
    ASSUME end \in Ends, Reported, NEW m \in 1..Len(Changes), NEW ps,
           InPeriods(ps, m), Changes[m].delayed
    PROVE  InPeriods(Append(ps, PeriodOf(m)), m + 1)
<1> DEFINE q == Append(ps, PeriodOf(m))
           N == Len(ps)
           n == Len(Changes)
<1>1. n \in Nat /\ m \in Int /\ \A k \in 1..n : k < m + 1 <=> k < m \/ k = m
  BY TimeFacts, ChangeFacts
<1>2. /\ PeriodOf(m) \in Seconds \X Seconds
      /\ PeriodOf(m)[1] = SecondOf(Changes[m].at)
      /\ PeriodOf(m)[1] <= PeriodOf(m)[2]
  BY PeriodFacts
<1>3. ps \in Seq(Seconds \X Seconds) /\ N \in Nat
  BY DEF InPeriods
<1>4. q \in Seq(Seconds \X Seconds) /\ Len(q) = N + 1 /\ q[N + 1] = PeriodOf(m)
      /\ \A p \in 1..N : q[p] = ps[p]
  BY <1>2, <1>3
<1> HIDE DEF q
<1>5. \A p \in 1..Len(q) : p \in 1..N \/ p = N + 1
  BY <1>3, <1>4
<1>6. \A p \in 1..N : ps[p][2] <= PeriodOf(m)[1]
  <2> TAKE p \in 1..N
  <2>1. PICK k \in 1..n : k < m /\ ps[p] = PeriodOf(k)
    BY DEF InPeriods
  <2> QED BY <1>2, <2>1, PeriodFacts
<1>7. \A p \in 1..Len(q) : q[p][1] <= q[p][2]
  BY <1>2, <1>4, <1>5 DEF InPeriods
<1>8. \A p \in 2..Len(q) : q[p - 1][2] <= q[p][1]
  <2> TAKE p \in 2..Len(q)
  <2>1. p - 1 \in 1..N /\ (p \in 2..N \/ p = N + 1)
    BY <1>3, <1>4
  <2>2. CASE p \in 2..N
    <3> HIDE DEF N
    <3>0. p \in 1..N
      BY <1>3, <2>2
    <3>1. q[p - 1] = ps[p - 1] /\ q[p] = ps[p]
      BY <1>4, <2>1, <3>0
    <3>2. ps[p - 1][2] <= ps[p][1]
      BY <2>2 DEF InPeriods, N
    <3> QED BY <3>1, <3>2
  <2>3. CASE p = N + 1
    BY <1>4, <1>6, <2>1, <2>3
  <2> QED BY <2>1, <2>2, <2>3
<1>9. \A p \in 1..Len(q) : \E k \in 1..n : k < m + 1 /\ Changes[k].delayed /\ q[p] = PeriodOf(k)
  <2> TAKE p \in 1..Len(q)
  <2>1. CASE p \in 1..N
    <3>1. PICK k \in 1..n : k < m /\ Changes[k].delayed /\ ps[p] = PeriodOf(k)
      BY <2>1 DEF InPeriods
    <3> QED BY <1>1, <1>4, <2>1, <3>1
  <2>2. CASE p = N + 1
    BY <1>1, <1>4, <2>2
  <2> QED BY <1>5, <2>1, <2>2
<1>10. \A k \in 1..n : k < m + 1 /\ Changes[k].delayed => \E p \in 1..Len(q) : q[p] = PeriodOf(k)
  <2> SUFFICES ASSUME NEW k \in 1..n, k < m + 1, Changes[k].delayed
               PROVE  \E p \in 1..Len(q) : q[p] = PeriodOf(k)
    OBVIOUS
  <2>1. CASE k < m
    <3>1. PICK p \in 1..N : ps[p] = PeriodOf(k)
      BY <2>1 DEF InPeriods
    <3>2. p \in 1..Len(q)
      BY <1>3, <1>4
    <3> QED BY <1>4, <3>1, <3>2
  <2>2. CASE k = m
    <3>1. N + 1 \in 1..Len(q)
      BY <1>3, <1>4
    <3> QED BY <1>4, <2>2, <3>1
  <2> QED BY <1>1, <2>1, <2>2
<1>11. InPeriods(q, m + 1)
  BY <1>4, <1>7, <1>8, <1>9, <1>10 DEF InPeriods
<1> QED BY <1>11 DEF q

\* A change to no delay has no period.
LEMMA PeriodSkipped ==
    ASSUME end \in Ends, Reported, NEW m \in 0..Len(Changes), NEW ps, InPeriods(ps, m),
           m # 0 => ~Changes[m].delayed
    PROVE  InPeriods(ps, m + 1)
<1>1. /\ Len(Changes) \in Nat
      /\ \A k \in 1..Len(Changes) :
            k < m + 1 /\ Changes[k].delayed <=> k < m /\ Changes[k].delayed
  BY TimeFacts, ChangeFacts
<1> QED BY <1>1 DEF InPeriods

\* All the periods tell what LateExact says.
LEMMA PeriodsExact ==
    ASSUME end \in Ends, Reported, NEW ps, InPeriods(ps, Len(Changes) + 1)
    PROVE  /\ \A p \in 2..Len(ps) : ps[p - 1][2] <= ps[p][1]
           /\ \A t \in Start..(end - 1) :
                 DelayedAt(t) => \E p \in ToSet(ps) : p[1] <= SecondOf(t) /\ SecondOf(t) <= p[2]
           /\ \A p \in ToSet(ps) : \A s \in p[1]..(p[2] - 1) :
                 \E t \in Start..end : SecondOf(t) = s /\ DelayedAt(t)
<1> DEFINE n == Len(Changes)
           To(k) == IF k = n THEN end ELSE Changes[k + 1].at
<1>1. n \in Nat /\ \A k \in 1..n : k < n + 1
  BY TimeFacts, ChangeFacts
<1>2. \A k \in 1..n : /\ Changes[k].at \in Start..end /\ To(k) \in Start..end
                      /\ PeriodOf(k) = <<SecondOf(Changes[k].at), SecondOf(To(k))>>
  <2> TAKE k \in 1..n
  <2>1. Changes[k].at \in Start..end
    BY TimeFacts
  <2>2. To(k) \in Start..end
    <3>1. end \in Start..end
      BY SecondFacts
    <3>2. k # n => k + 1 \in 1..n
      BY <1>1
    <3> QED BY <3>1, <3>2, TimeFacts
  <2> QED BY <2>1, <2>2 DEF PeriodOf, Period
<1>3. \A t \in Start..end : t \in Int /\ SecondOf(t) \in Int
  BY SecondFacts
<1>4. ASSUME NEW k \in 1..n, NEW t \in Int, t < end
      PROVE  Between(k, t) <=> Changes[k].at <= t /\ t < To(k)
  <2>1. k = n \/ k < n
    BY <1>1
  <2> QED BY <1>4, <2>1 DEF Between
<1> HIDE DEF To
<1>5. ASSUME NEW t \in Start..(end - 1), DelayedAt(t)
      PROVE  \E p \in ToSet(ps) : p[1] <= SecondOf(t) /\ SecondOf(t) <= p[2]
  <2>1. t \in Int /\ t < end
    BY SecondFacts
  <2>2. PICK k \in 1..n : Changes[k].delayed /\ Between(k, t)
    BY <1>5, <2>1, DelayedFacts
  <2>3. PICK p \in 1..Len(ps) : ps[p] = PeriodOf(k)
    BY <1>1, <2>2 DEF InPeriods
  <2>4. ps[p] \in ToSet(ps)
    BY DEF ToSet, InPeriods
  <2>5. Changes[k].at <= t /\ t < To(k)
    BY <1>4, <2>1, <2>2
  <2>6. /\ Changes[k].at \in Int /\ To(k) \in Int
        /\ t <= To(k)
    BY <1>2, <1>3, <2>1, <2>5
  <2>7. SecondOf(Changes[k].at) <= SecondOf(t) /\ SecondOf(t) <= SecondOf(To(k))
    BY <2>1, <2>5, <2>6, SecondFacts
  <2> QED BY <1>2, <2>3, <2>4, <2>7
<1>6. ASSUME NEW p \in ToSet(ps), NEW s \in p[1]..(p[2] - 1)
      PROVE  \E t \in Start..end : SecondOf(t) = s /\ DelayedAt(t)
  <2>1. PICK j \in 1..Len(ps) : ps[j] = p
    BY DEF ToSet, InPeriods
  <2>2. PICK k \in 1..n : Changes[k].delayed /\ p = PeriodOf(k)
    BY <2>1 DEF InPeriods
  <2> DEFINE from == Changes[k].at
             to == To(k)
             at == s * PerSecond
             t == IF at <= from THEN from ELSE at
  <2>3. /\ from \in Int /\ to \in Int /\ from \in Start..end /\ to \in Start..end
        /\ p[1] = SecondOf(from) /\ p[2] = SecondOf(to)
        /\ SecondOf(from) \in Int /\ SecondOf(to) \in Int
    BY <1>2, <1>3, <2>2
  <2>4. s \in Int /\ SecondOf(from) <= s /\ s < SecondOf(to)
    <3> HIDE DEF from, to
    <3> QED BY <2>3
  <2>5. at \in Int /\ SecondOf(at) = s
    BY <2>4, SecondFacts
  <2> HIDE DEF from, to, at
  <2>6. t \in Int /\ from <= t /\ SecondOf(t) = s
    <3>1. CASE at <= from
      <4>1. s <= SecondOf(from)
        BY <2>3, <2>5, <3>1, SecondFacts
      <4> QED BY <2>3, <2>4, <3>1, <4>1
    <3>2. CASE ~(at <= from)
      BY <2>3, <2>5, <3>2
    <3> QED BY <3>1, <3>2
  <2> HIDE DEF t
  <2>7. t < to
    <3> SUFFICES ASSUME to <= t PROVE FALSE
      BY <2>3, <2>6
    <3>1. SecondOf(to) <= SecondOf(t)
      BY <2>3, <2>6, SecondFacts
    <3> QED BY <2>3, <2>4, <2>6, <3>1
  <2>8. t \in Start..end /\ t < end
    <3>1. Start \in Int /\ end \in Int
      BY SecondFacts
    <3> QED BY <2>3, <2>6, <2>7, <3>1
  <2>9. Between(k, t)
    BY <1>4, <2>6, <2>7, <2>8 DEF from, to
  <2>10. DelayedAt(t)
    BY <2>2, <2>6, <2>9, DelayedFacts
  <2> QED BY <2>6, <2>8, <2>10
<1> QED BY <1>5, <1>6 DEF InPeriods

-----------------------------------------------------------------------------
(* The readings bundle: the sequences of the state machines. *)

\* What one reading makes of a sequence: r is q, its last symbol, or one entry more.
Extends(r, q, M, x) ==
    /\ Len(r) = Len(q) \/ Len(r) = Len(q) + 1
    /\ Len(r) # 0 /\ r[Len(r)].symbol = x
    /\ \A k \in 1..Len(q) : r[k].at = q[k].at /\ (k < Len(r) => r[k] = q[k])
    /\ Len(r) = Len(q) + 1 => r[Len(r)].at = M /\ (Len(q) # 0 => q[Len(q)].at # M)
    /\ Len(r) = Len(q) => q[Len(q)].at = M \/ r = q

\* Extended changes the last symbol, nothing, or adds an entry.
LEMMA ExtendedFacts ==
    ASSUME NEW A, NEW X, NEW q \in Seq([at : A, symbol : X]), NEW M \in A, NEW x \in X
    PROVE  /\ Extended(q, M, x) \in Seq([at : A, symbol : X])
           /\ Extends(Extended(q, M, x), q, M, x)
<1> DEFINE E == [at : A, symbol : X]
           n == Len(q)
           r == Extended(q, M, x)
<1>1. n \in Nat /\ n = Len(q) /\ DOMAIN q = 1..n /\ q \in [1..n -> E]
  <2> HIDE DEF E
  <2>1. q \in Seq(E)
    BY DEF E
  <2> QED BY <2>1, LenProperties
<1>5. n # n + 1 /\ n + 1 # 0
  <2>1. n \in Nat
    BY <1>1
  <2> HIDE DEF n
  <2> QED BY <2>1
<1>0. (q # <<>> <=> n # 0) /\ Last(q) = q[n]
  <2>1. q # <<>> <=> n # 0
    BY EmptySeq
  <2> QED BY <2>1 DEF Last
<1> HIDE DEF n
<1>2. CASE n # 0 /\ q[n].at = M
  <2>1. r = [q EXCEPT ![n] = [@ EXCEPT !.symbol = x]]
    BY <1>0, <1>1, <1>2 DEF Extended
  <2>2. n \in 1..n /\ q[n] \in E
    BY <1>1, <1>2
  <2>3. [q[n] EXCEPT !.symbol = x] \in E /\ [q[n] EXCEPT !.symbol = x].at = q[n].at
        /\ [q[n] EXCEPT !.symbol = x].symbol = x
    BY <2>2
  <2> HIDE DEF E
  <2>4. r \in [1..n -> E] /\ r[n] = [q[n] EXCEPT !.symbol = x] /\ \A k \in 1..n : k # n => r[k] = q[k]
    <3> DEFINE e == [q[n] EXCEPT !.symbol = x]
    <3>1. r = [q EXCEPT ![n] = e] /\ e \in E
      BY <2>1, <2>3
    <3> HIDE DEF e, r
    <3>2. r \in [1..n -> E] /\ r[n] = e /\ \A k \in 1..n : k # n => r[k] = q[k]
      BY <1>1, <2>2, <3>1
    <3> QED BY <3>2 DEF e
  <2> HIDE DEF r
  <2>5. r \in Seq(E) /\ Len(r) = n
    <3>1. r = [k \in 1..n |-> r[k]] /\ \A k \in 1..n : r[k] \in E
      BY <2>4
    <3>2. [k \in 1..n |-> r[k]] \in Seq(E) /\ Len([k \in 1..n |-> r[k]]) = n
      BY <1>1, <3>1, IsASeq
    <3> QED BY <3>1, <3>2
  <2>6. Extends(r, q, M, x)
    <3>1. \A k \in 1..n : r[k].at = q[k].at /\ (k < n => r[k] = q[k])
      <4> TAKE k \in 1..n
      <4>1. n \in Int /\ k \in Int
        BY <1>1
      <4>2. k = n => r[k].at = q[k].at
        BY <2>3, <2>4
      <4>3. k < n => k # n
        BY <4>1
      <4> QED BY <2>4, <4>2, <4>3
    <3> QED BY <1>1, <1>2, <1>5, <2>3, <2>4, <2>5, <3>1 DEF Extends
  <2> QED BY <2>5, <2>6 DEF r, E
<1>3. CASE n # 0 /\ q[n].at # M /\ q[n].symbol = x
  <2>1. r = q
    BY <1>0, <1>1, <1>3 DEF Extended
  <2> HIDE DEF r
  <2>2. Extends(r, q, M, x)
    BY <1>1, <1>3, <1>5, <2>1 DEF Extends
  <2> QED BY <2>1, <2>2 DEF r
<1>4. CASE n = 0 \/ (q[n].at # M /\ q[n].symbol # x)
  <2>1. r = Append(q, [at |-> M, symbol |-> x])
    BY <1>0, <1>1, <1>4 DEF Extended
  <2>2. [at |-> M, symbol |-> x] \in E
    OBVIOUS
  <2> HIDE DEF r, E
  <2>3. r \in Seq(E) /\ Len(r) = n + 1 /\ r[n + 1] = [at |-> M, symbol |-> x]
        /\ \A k \in 1..n : r[k] = q[k]
    BY <1>1, <2>1, <2>2 DEF E
  <2>4. Extends(r, q, M, x)
    <3>1. /\ r[n + 1].at = M /\ r[n + 1].symbol = x
          /\ n # 0 => q[n].at # M
      BY <1>4, <2>3
    <3> QED BY <1>1, <1>5, <2>3, <3>1 DEF Extends
  <2> QED BY <2>3, <2>4 DEF r, E
<1> QED BY <1>2, <1>3, <1>4

\* The last entry of q up to t, and the last of the readings D, which are at the times f.
Entry(q, t) == Max({0} \cup {k \in DOMAIN q : q[k].at <= t})

Heard(f, D, t) == Max({0} \cup {i \in D : f[i] <= t})

\* q tells at every time the symbol g of the last of the readings D.
Telling(q, f, g, D) ==
    /\ \A k \in 2..Len(q) : q[k - 1].at < q[k].at
    /\ \A k \in 1..Len(q) : \E i \in D : q[k].at = f[i]
    /\ \A t \in Int : /\ Entry(q, t) = 0 <=> Heard(f, D, t) = 0
                      /\ Entry(q, t) # 0 => q[Entry(q, t)].symbol = g[Heard(f, D, t)]

\* The last entry up to a time is one of q, and is the last of all from its own time on.
LEMMA EntryFacts ==
    ASSUME NEW X, NEW q \in Seq([at : Int, symbol : X]), NEW t \in Int
    PROVE  /\ Entry(q, t) \in 0..Len(q)
           /\ Entry(q, t) # 0 => q[Entry(q, t)].at <= t
           /\ Len(q) # 0 /\ q[Len(q)].at <= t => Entry(q, t) = Len(q)
<1> DEFINE n == Len(q)
           S == {0} \cup {k \in DOMAIN q : q[k].at <= t}
<1>1. n \in Nat /\ DOMAIN q = 1..n /\ S \in SUBSET (0..n) /\ 0 \in S /\ Entry(q, t) = Max(S)
  BY DEF Entry
<1>2. S \in SUBSET Int /\ IsFiniteSet(S)
  <2> HIDE DEF S, n
  <2>1. 0 \in Int /\ n \in Int
    BY <1>1
  <2> QED BY <1>1, <2>1, BoundedFinite
<1>3. Max(S) \in S
  <2> HIDE DEF S
  <2> QED BY <1>1, <1>2, Extremes
<1>4. ASSUME n # 0, q[n].at <= t PROVE Max(S) = n
  <2>1. n \in S /\ \A y \in S : y <= n
    BY <1>1, <1>4
  <2> HIDE DEF S
  <2> QED BY <1>2, <2>1, ExtremeUnique
<1>5. Max(S) # 0 => q[Max(S)].at <= t
  BY <1>3
<1> HIDE DEF S
<1> QED BY <1>1, <1>3, <1>4, <1>5

\* The times f of i readings are numbers.
Timed(f, i) == \A j \in 1..i : f[j] \in Int

\* A reading after all others is the last from its own time on.
LEMMA HeardFacts ==
    ASSUME NEW i \in Nat \ {0}, NEW f, Timed(f, i),
           NEW D \in SUBSET (1..(i - 1)), NEW t \in Int
    PROVE  /\ t < f[i] => Heard(f, D \cup {i}, t) = Heard(f, D, t)
           /\ f[i] <= t => Heard(f, D \cup {i}, t) = i
<1>1. f[i] \in Int /\ \A j \in D : f[j] \in Int
  BY DEF Timed
<1>2. ASSUME t < f[i] PROVE Heard(f, D \cup {i}, t) = Heard(f, D, t)
  <2>1. {j \in D \cup {i} : f[j] <= t} = {j \in D : f[j] <= t}
    BY <1>1, <1>2
  <2> QED BY <2>1 DEF Heard
<1>3. ASSUME f[i] <= t PROVE Heard(f, D \cup {i}, t) = i
  <2> DEFINE S == {0} \cup {j \in D \cup {i} : f[j] <= t}
  <2>1. \A y \in D : y \in Int /\ y <= i
    OBVIOUS
  <2>2. S \in SUBSET Int /\ i \in S /\ \A y \in S : y <= i
    <3>1. 0 \in Int /\ i \in Int /\ 0 <= i /\ i <= i
      OBVIOUS
    <3>2. i \in S
      BY <1>3
    <3>3. \A y \in S : y = 0 \/ y \in D \/ y = i
      OBVIOUS
    <3> HIDE DEF S
    <3> QED BY <2>1, <3>1, <3>2, <3>3
  <2>3. Max(S) = i
    <3> HIDE DEF S
    <3> QED BY <2>2, ExtremeUnique
  <2> QED BY <2>3 DEF Heard
<1> QED BY <1>2, <1>3

\* A reading later than those so far is told too.
LEMMA ExtendedTells ==
    ASSUME NEW X, NEW q \in Seq([at : Int, symbol : X]), NEW r \in Seq([at : Int, symbol : X]),
           NEW i \in Nat \ {0}, NEW f, \A j \in 1..i : f[j] \in Int /\ f[j] <= f[i], NEW g,
           NEW D \in SUBSET (1..(i - 1)), Telling(q, f, g, D), Extends(r, q, f[i], g[i])
    PROVE  Telling(r, f, g, D \cup {i})
<1> DEFINE n == Len(q)
           m == Len(r)
           M == f[i]
<1>1. /\ n \in Nat /\ m \in Nat /\ n = Len(q) /\ m = Len(r) /\ DOMAIN q = 1..n /\ DOMAIN r = 1..m
      /\ \A k \in 1..n : q[k].at \in Int
      /\ \A k \in 1..m : r[k].at \in Int
      /\ M \in Int
  <2> DEFINE E == [at : Int, symbol : X]
  <2>1. \A e \in E : e.at \in Int
    OBVIOUS
  <2> HIDE DEF E
  <2>2. q \in Seq(E) /\ r \in Seq(E)
    BY DEF E
  <2>3. /\ n \in Nat /\ m \in Nat /\ DOMAIN q = 1..n /\ DOMAIN r = 1..m
        /\ \A k \in 1..n : q[k] \in E
        /\ \A k \in 1..m : r[k] \in E
    BY <2>2, ElementOfSeq, LenProperties
  <2>4. i \in 1..i
    OBVIOUS
  <2> QED BY <2>1, <2>3, <2>4
<1>2. /\ m = n \/ m = n + 1
      /\ m # 0 /\ r[m].symbol = g[i]
      /\ \A k \in 1..n : r[k].at = q[k].at /\ (k < m => r[k] = q[k])
      /\ m = n + 1 => r[m].at = M /\ (n # 0 => q[n].at # M)
      /\ m = n => q[n].at = M \/ r = q
  BY <1>1 DEF Extends
<1>3. \A k \in 1..n : q[k].at <= M
  <2> TAKE k \in 1..n
  <2>1. PICK j \in D : q[k].at = f[j]
    BY <1>1 DEF Telling
  <2>2. j \in 1..i
    OBVIOUS
  <2> QED BY <2>1, <2>2
<1>4. \A t \in Int :
         /\ t < M => Heard(f, D \cup {i}, t) = Heard(f, D, t)
         /\ M <= t => Heard(f, D \cup {i}, t) = i
  <2>1. Timed(f, i)
    BY DEF Timed
  <2> QED BY <2>1, HeardFacts
<1> HIDE DEF M, n, m
<1>5. n \in Int /\ m \in Int /\ M \in Int /\ (m = n \/ m = n + 1)
  BY SMTT(30), <1>1, <1>2
<1>6. \A k \in 2..m : r[k - 1].at < r[k].at
  <2> TAKE k \in 2..m
  <2>1. CASE k \in 2..n
    <3>1. k \in 1..n /\ k - 1 \in 1..n
      BY SMTT(30), <1>1, <2>1
    <3>2. q[k - 1].at < q[k].at
      BY <1>1, <2>1 DEF Telling
    <3> QED BY <1>2, <3>1, <3>2
  <2>2. CASE k = n + 1
    <3>1. n \in 1..n /\ k - 1 = n /\ m = n + 1 /\ m = k /\ n # 0
      BY <1>5, <2>2
    <3>2. r[n].at = q[n].at /\ q[n].at # M /\ q[n].at <= M /\ r[m].at = M /\ q[n].at \in Int
      BY <1>1, <1>2, <1>3, <3>1
    <3>3. r[k - 1] = r[n] /\ r[k] = r[m]
      BY <3>1
    <3>4. q[n].at < M
      BY <1>5, <3>2
    <3> QED BY <3>2, <3>3, <3>4
  <2>3. k \in 2..n \/ k = n + 1
    BY <1>5
  <2> QED BY <2>1, <2>2, <2>3
<1>7. \A k \in 1..m : \E j \in D \cup {i} : r[k].at = f[j]
  <2> TAKE k \in 1..m
  <2>1. CASE k \in 1..n
    <3>1. PICK j \in D : q[k].at = f[j]
      BY <1>1, <2>1 DEF Telling
    <3> QED BY <1>2, <2>1, <3>1
  <2>2. CASE k = n + 1
    BY <1>1, <1>2, <2>2 DEF M
  <2>3. k \in 1..n \/ k = n + 1
    BY <1>5
  <2> QED BY <2>1, <2>2, <2>3
<1>8. ASSUME NEW t \in Int
      PROVE  /\ Entry(r, t) = 0 <=> Heard(f, D \cup {i}, t) = 0
             /\ Entry(r, t) # 0 => r[Entry(r, t)].symbol = g[Heard(f, D \cup {i}, t)]
  <2>1. CASE M <= t
    <3>1. Heard(f, D \cup {i}, t) = i
      BY <1>4, <2>1
    <3>2. r[m].at <= t
      <4>1. r[m].at <= M
        <5>1. CASE m = n
          <6>1. n \in 1..n
            BY <1>1, <1>2, <5>1
          <6> QED BY <1>2, <1>3, <5>1, <6>1
        <5>2. CASE m = n + 1
          BY <1>1, <1>2, <5>2
        <5> QED BY <1>2, <5>1, <5>2
      <4>2. m \in 1..m
        BY <1>1, <1>2
      <4> QED BY <1>1, <2>1, <4>1, <4>2
    <3>3. Entry(r, t) = m
      BY <1>1, <1>2, <3>2, EntryFacts
    <3> QED BY <1>2, <3>1, <3>3
  <2>2. CASE t < M
    <3>1. Heard(f, D \cup {i}, t) = Heard(f, D, t)
      BY <1>4, <2>2
    <3>2. \A k : k \in DOMAIN r /\ r[k].at <= t <=> k \in DOMAIN q /\ q[k].at <= t
      <4>1. \A k \in 1..m : k \in 1..n \/ (k = m /\ m = n + 1)
        BY <1>1, <1>2
      <4>2. m = n + 1 => ~(r[m].at <= t)
        BY <1>1, <1>2, <2>2
      <4>3. \A k \in 1..n : k \in 1..m
        BY <1>1, <1>2
      <4> QED BY <1>1, <1>2, <4>1, <4>2, <4>3
    <3>3. Entry(r, t) = Entry(q, t)
      <4>1. {k \in DOMAIN r : r[k].at <= t} = {k \in DOMAIN q : q[k].at <= t}
        BY <3>2
      <4> QED BY <4>1 DEF Entry
    <3>4. ASSUME Entry(q, t) # 0 PROVE r[Entry(q, t)] = q[Entry(q, t)]
      <4> DEFINE e == Entry(q, t)
      <4>1. e \in 1..n /\ q[e].at <= t
        <5>1. e \in 0..Len(q) /\ (e # 0 => q[e].at <= t)
          BY EntryFacts
        <5> HIDE DEF e
        <5> QED BY <1>1, <3>4, <5>1 DEF e
      <4> HIDE DEF e
      <4>2. CASE e < m
        BY <1>2, <4>1, <4>2 DEF e
      <4>3. CASE ~(e < m)
        <5>1. e = m /\ m = n
          BY <1>1, <1>2, <4>1, <4>3
        <5>2. q[n].at # M
          BY <1>1, <2>2, <4>1, <5>1
        <5> QED BY <1>2, <5>1, <5>2
      <4> QED BY <4>2, <4>3
    <3>5. /\ Entry(q, t) = 0 <=> Heard(f, D, t) = 0
          /\ Entry(q, t) # 0 => q[Entry(q, t)].symbol = g[Heard(f, D, t)]
      BY DEF Telling
    <3> QED BY <3>1, <3>3, <3>4, <3>5
  <2> QED BY <1>1, <2>1, <2>2
<1> QED BY <1>1, <1>6, <1>7, <1>8 DEF Telling

\* Nothing is told of no readings.
LEMMA NothingTold == \A f, g : Telling(<<>>, f, g, {})
<1> SUFFICES ASSUME NEW f, NEW g PROVE Telling(<<>>, f, g, {})
  OBVIOUS
<1>1. Len(<<>>) = 0 /\ DOMAIN <<>> = {}
  OBVIOUS
<1>2. Max({0}) = 0
  <2>1. {0} \in SUBSET Int /\ 0 \in {0} /\ \A y \in {0} : y <= 0
    OBVIOUS
  <2> QED BY <2>1, ExtremeUnique
<1>3. \A t \in Int : Entry(<<>>, t) = 0 /\ Heard(f, {}, t) = 0
  <2> TAKE t \in Int
  <2>1. {0} \cup {k \in DOMAIN <<>> : <<>>[k].at <= t} = {0} /\ {0} \cup {i \in {} : f[i] <= t} = {0}
    OBVIOUS
  <2> QED BY <1>2, <2>1 DEF Entry, Heard
<1> QED BY <1>1, <1>3 DEF Telling

-----------------------------------------------------------------------------
(* The readings bundle: its points. *)

\* How many multiples of a step there are up to r.
LEMMA PointsCounted ==
    ASSUME NEW r \in Nat, NEW step \in Nat \ {0}
    PROVE  /\ r \div step \in Nat
           /\ Cardinality({t \in 0..r : t % step = 0}) = r \div step + 1
<1> DEFINE k == r \div step
           S == {t \in 0..r : t % step = 0}
           f == [j \in 1..(k + 1) |-> (j - 1) * step]
<1>1. k \in Int /\ step * k <= r /\ r < step * k + step
  BY DivFacts
<1>2. k \in Nat
  <2>1. 0 \div step <= r \div step /\ 0 \div step = 0
    BY DivMonotone, DivUnique
  <2> HIDE DEF k
  <2> QED BY <1>1, <2>1 DEF k
<1> HIDE DEF k
<1>3. ASSUME NEW q \in Nat
      PROVE  /\ q * step \in Nat /\ (q * step) % step = 0
             /\ q * step <= r <=> q <= k
  <2>1. q * step \in Nat /\ q * step = step * q /\ step * q < step * q + step
    OBVIOUS
  <2>2. \A a \in Int : a = step * q => a % step = 0
    <3> SUFFICES ASSUME NEW a \in Int, a = step * q PROVE a % step = 0
      OBVIOUS
    <3>1. a \div step = q
      BY <2>1, DivUnique
    <3>2. a % step = a - step * (a \div step)
      BY ModFacts
    <3> QED BY <3>1, <3>2
  <2>4. (q * step) % step = 0
    BY <2>1, <2>2
  <2>5. q <= k => q * step <= k * step
    BY <1>2, MulMonotone
  <2>6. k + 1 <= q => (k + 1) * step <= q * step
    BY <1>2, MulMonotone
  <2>7. k * step = step * k /\ (k + 1) * step = step * k + step /\ k * step \in Int
    BY <1>2
  <2> HIDE DEF k
  <2>8. ASSUME NEW a \in Int, NEW b \in Int, q <= k => a <= b, k + 1 <= q => b + step <= a,
               b <= r, r < b + step
        PROVE  a <= r <=> q <= k
    BY <1>2, <2>8
  <2> QED BY <1>1, <2>1, <2>4, <2>5, <2>6, <2>7, <2>8
<1>4. f \in [1..(k + 1) -> S]
  <2> SUFFICES ASSUME NEW j \in 1..(k + 1) PROVE (j - 1) * step \in S
    OBVIOUS
  <2>1. j - 1 \in Nat /\ j - 1 <= k
    BY <1>2
  <2>2. (j - 1) * step \in Nat /\ (j - 1) * step <= r /\ ((j - 1) * step) % step = 0
    BY <1>3, <2>1
  <2> QED BY <2>2
<1>5. \A i, j \in 1..(k + 1) : f[i] = f[j] => i = j
  <2> SUFFICES ASSUME NEW i \in 1..(k + 1), NEW j \in 1..(k + 1), f[i] = f[j] PROVE i = j
    OBVIOUS
  <2>1. i - 1 \in Int /\ j - 1 \in Int /\ f[i] = (i - 1) * step /\ f[j] = (j - 1) * step
    BY <1>2
  <2>2. /\ i - 1 < j - 1 => (i - 1) * step < (j - 1) * step
        /\ j - 1 < i - 1 => (j - 1) * step < (i - 1) * step
    BY <2>1, MulStrict
  <2>3. (i - 1) * step \in Int /\ (i - 1) * step = (j - 1) * step
    BY <2>1
  <2>4. ~(i - 1 < j - 1) /\ ~(j - 1 < i - 1)
    BY <2>2, <2>3
  <2> QED BY <1>2, <2>4
<1>6. \A t \in S : \E j \in 1..(k + 1) : f[j] = t
  <2> TAKE t \in S
  <2> DEFINE q == t \div step
  <2>1. t \in Nat /\ t <= r /\ t % step = 0
    OBVIOUS
  <2>2. q \in Int /\ t = step * q
    <3>1. t % step = t - step * q /\ q \in Int
      BY <2>1, ModFacts, DivFacts
    <3> QED BY <2>1, <3>1
  <2>3. q \in Nat
    <3>1. 0 \div step <= t \div step /\ 0 \div step = 0
      BY <2>1, DivMonotone, DivUnique
    <3> QED BY <2>2, <3>1
  <2> HIDE DEF q
  <2>4. q * step = t
    BY <2>2
  <2>5. q <= k
    BY <1>3, <2>1, <2>3, <2>4
  <2>6. q + 1 \in 1..(k + 1) /\ (q + 1) - 1 = q
    BY <1>2, <2>3, <2>5
  <2> QED BY <2>4, <2>6
<1>7. f \in Bijection(1..(k + 1), S)
  <2> HIDE DEF f, S
  <2> QED BY <1>4, <1>5, <1>6 DEF Bijection, Injection, Surjection, IsInjective
<1>8. Cardinality(S) = k + 1
  <2> HIDE DEF f, S
  <2>1. k + 1 \in Nat
    BY <1>2
  <2> QED BY <1>7, <2>1, FS_CountingElements DEF ExistsBijection
<1> QED BY <1>2, <1>8 DEF k

-----------------------------------------------------------------------------
(* The readings bundle: its inductive invariant. *)

\* What no bundle can be made of.
Unmade ==
    \/ \E j, k \in DOMAIN series : j < k /\ series[j] = series[k]
    \/ \E k \in DOMAIN series : rows[Newest(series[k])].unit \notin UnitsTaken
    \/ SecondOf(Start) = SecondOf(end)
    \/ \E k \in DOMAIN periods : periods[k][1] = periods[k][2]

\* Of the points and of what a request fails for.
Pointed ==
    /\ phase = "too_many" => Stepped /\ StepOf > 0 /\ Points(end - Start, StepOf) > MaxPoints
    /\ phase \notin {"asked", "too_many", "failed"} =>
          Stepped /\ (StepOf < 0 \/ Points(end - Start, StepOf) <= MaxPoints)
    /\ phase = "failed" => ~Stepped \/ (Stepped /\ StepOf < 0) \/ Unmade
    /\ phase = "answered" => ~Unmade

\* Of what is not there before its loop.
Empty ==
    /\ phase \in {"asked", "knitting"} =>
          series = <<>> /\ turn = 0 /\ delayStart = NoDelay /\ periods = <<>>
    /\ phase \in {"asked", "knitting", "delays"} => sequences = [n \in Names |-> <<>>]

\* Of the loop over the changes: a delay has begun when the last change taken is to
\* delayed, and the periods are those of the changes before it.
Late ==
    phase = "delays" =>
        /\ Reported
        /\ turn \in 0..Len(Changes)
        /\ delayStart = IF turn # 0 /\ Changes[turn].delayed THEN Changes[turn].at ELSE NoDelay
        /\ InPeriods(periods, turn)

\* The readings of states, by time, with the symbols of those that have one.
StateReading == [row : {i \in DOMAIN rows : rows[i].state}, at : Start..end, position : Nat]

FoundIn(found) ==
    /\ found \in Seq(StateReading)
    /\ ByTime(found)
    /\ \A i \in 1..Len(found) : VersionOf(rows[found[i].row]) \in ToSet(Versions)

Found == FoundIn(states)

Times == [i \in 1..Len(states) |-> MilliOf(states[i].at)]

Told(i) == Symbol(rows[states[i].row], states[i].position)

ToldSymbols == [i \in 1..Len(states) |-> Told(i)]

\* Of the loop over the states: each sequence tells the readings taken of its machine.
Sequenced ==
    phase = "states" =>
        /\ turn \in 0..Len(states)
        /\ Found
        /\ \A n \in Names : Telling(sequences[n], Times, ToldSymbols, StatesOf(n))

Listed ==
    /\ reports \in Seq(Report)
    /\ Len(states) \in Nat
    /\ \A k \in 1..Len(periods) : periods[k][1] <= periods[k][2]

BundleInv ==
    /\ KnitInv
    /\ BundleTypeOK
    /\ Listed
    /\ Pointed
    /\ Empty
    /\ Late
    /\ Sequenced

\* Nothing is chosen or read at first.
LEMMA BundleInitKeeps == BundleInit => BundleInv
<1> SUFFICES ASSUME BundleInit PROVE BundleInv
  OBVIOUS
<1>1. /\ Init /\ phase = "asked" /\ end \in Ends /\ asked \in StepsAsked /\ series = <<>>
      /\ reports = <<>> /\ turn = 0 /\ delayStart = NoDelay /\ periods = <<>> /\ states = <<>>
      /\ sequences = [n \in Names |-> <<>>]
  BY DEF BundleInit
<1>2. KnitInv
  BY <1>1, InitKnits
<1>3. Len(reports) = 0 /\ Len(states) = 0 /\ Len(periods) = 0
  BY <1>1
<1>4. BundleTypeOK
  <2>1. \A S : <<>> \in Seq(S)
    OBVIOUS
  <2> QED BY <1>1, <1>2, <1>3, <2>1 DEF BundleTypeOK, KnitInv
<1>5. Listed
  <2>1. <<>> \in Seq(Report) /\ 1..0 = {}
    OBVIOUS
  <2> QED BY <1>1, <1>3, <2>1 DEF Listed
<1> QED BY <1>1, <1>2, <1>4, <1>5 DEF BundleInv, Pointed, Empty, Late, Sequenced

\* Where the loops stand, and what is in them, outlasts a step that leaves it alone.
LEMMA LoopStays ==
    /\ UNCHANGED <<reports, end>> => Changes' = Changes /\ (\A k : PeriodOf(k)' = PeriodOf(k))
    /\ UNCHANGED <<rows, states, end>> =>
          Times' = Times /\ ToldSymbols' = ToldSymbols /\ (Found' <=> Found)
<1>1. ASSUME UNCHANGED <<reports, end>>
      PROVE  Changes' = Changes /\ \A k : PeriodOf(k)' = PeriodOf(k)
  <2>1. Changes' = Changes /\ end' = end
    BY <1>1 DEF Changes
  <2> QED BY <2>1 DEF PeriodOf, Period, SecondOf
<1>2. ASSUME UNCHANGED <<rows, states, end>>
      PROVE  Times' = Times /\ ToldSymbols' = ToldSymbols /\ (Found' <=> Found)
  <2>1. rows' = rows /\ states' = states /\ end' = end
    BY <1>2
  <2>2. ToldSymbols' = ToldSymbols
    BY <2>1 DEF ToldSymbols, Told
  <2>3. Times' = Times /\ (Found' <=> Found)
    BY <2>1 DEF Times, MilliOf, Found, FoundIn, StateReading, ByTime
  <2> QED BY <2>2, <2>3
<1> QED BY <1>1, <1>2

\* Of a step that leaves the lists alone.
LEMMA ListsStay ==
    UNCHANGED <<reports, states, periods, end>> /\ Listed => Listed'
BY DEF Listed, Report

\* What is chosen and selected outlasts a step that leaves it alone.
LEMMA ChosenStays ==
    ASSUME UNCHANGED <<knitVars, end, asked, series>>
    PROVE  /\ StepOf' = StepOf /\ (Stepped' <=> Stepped)
           /\ Points(end - Start, StepOf)' = Points(end - Start, StepOf)
           /\ Columns' = Columns
           /\ UNCHANGED periods => (Unmade' <=> Unmade)
<1>1. end' = end /\ asked' = asked /\ series' = series /\ rows' = rows
  BY DEF knitVars
<1>2. StepOf' = StepOf /\ (Stepped' <=> Stepped)
  BY <1>1 DEF StepOf, Stepped, Fitting
<1>3. Points(end - Start, StepOf)' = Points(end - Start, StepOf)
  BY <1>1, <1>2 DEF Points
<1>4. Columns' = Columns /\ \A col : Newest(col)' = Newest(col)
  BY SelectedStays
<1>5. ASSUME UNCHANGED periods PROVE Unmade' <=> Unmade
  BY <1>1, <1>4, <1>5 DEF Unmade, SecondOf
<1> QED BY <1>2, <1>3, <1>4, <1>5

\* A step that is chosen is none of no length, and a positive one makes points.
LEMMA StepFacts ==
    ASSUME BundleInv, Stepped
    PROVE  /\ end - Start \in Nat /\ StepOf \in Int \ {0}
           /\ MaxPoints \in Nat \ {0} /\ PerSecond \in Nat \ {0}
           /\ asked = 0 => StepOf > 0 /\ end - Start <= StepOf * PerSecond * MaxPoints
           /\ StepOf > 0 => /\ StepOf * PerSecond \in Nat \ {0}
                            /\ Points(end - Start, StepOf) \in Nat
<1>1. /\ end - Start \in Nat /\ asked \in Int
      /\ MaxPoints \in Nat \ {0} /\ PerSecond \in Nat \ {0}
      /\ DefaultSteps \subseteq Nat \ {0}
  <2>1. end \in Ends /\ asked \in StepsAsked
    BY DEF BundleInv, BundleTypeOK
  <2>2. end \in Nat /\ Start < end /\ Start \in Nat /\ StepsAsked \subseteq Int
    BY <2>1, BundleAssumption, RequestAssumption
  <2> QED BY <2>1, <2>2, BundleAssumption
<1>2. StepOf \in Int \ {0} /\ (asked = 0 => StepOf > 0 /\ end - Start <= StepOf * PerSecond * MaxPoints)
  <2>1. CASE asked # 0
    BY <1>1, <2>1 DEF StepOf
  <2>2. CASE asked = 0
    <3> DEFINE S == Fitting(end - Start)
    <3>1. S \in SUBSET Nat /\ S # {} /\ StepOf = Min(S)
      BY <1>1, <2>2 DEF Fitting, StepOf, Stepped
    <3>2. Min(S) \in S
      <4> HIDE DEF S
      <4> QED BY <3>1, LeastIsMin
    <3>3. StepOf \in DefaultSteps /\ StepOf * PerSecond * MaxPoints >= end - Start
      BY <3>1, <3>2 DEF Fitting
    <3>4. StepOf \in Nat \ {0}
      BY <1>1, <3>3
    <3>5. StepOf * PerSecond * MaxPoints \in Int
      BY <1>1, <3>4
    <3>6. ASSUME NEW v \in Int, v >= end - Start PROVE end - Start <= v
      BY <1>1, <3>6
    <3>7. end - Start <= StepOf * PerSecond * MaxPoints
      BY <3>3, <3>5, <3>6
    <3> QED BY <3>4, <3>7
  <2> QED BY <2>1, <2>2
<1>3. ASSUME StepOf > 0
      PROVE  StepOf * PerSecond \in Nat \ {0} /\ Points(end - Start, StepOf) \in Nat
  <2>1. StepOf \in Nat \ {0}
    BY <1>2, <1>3
  <2>2. StepOf * PerSecond \in Nat \ {0}
    BY <1>1, <2>1
  <2>3. (end - Start) \div (StepOf * PerSecond) \in Nat
    <3> DEFINE n == StepOf * PerSecond
    <3> HIDE DEF n
    <3>1. n \in Nat \ {0} => (end - Start) \div n \in Nat
      BY <1>1, PointsCounted
    <3> QED BY <2>2, <3>1 DEF n
  <2> QED BY <2>2, <2>3 DEF Points
<1> QED BY <1>1, <1>2, <1>3

\* The points decide whether a request goes on.
LEMMA ChooseKeeps == BundleInv /\ ChooseStep => BundleInv'
<1> SUFFICES ASSUME BundleInv, ChooseStep PROVE BundleInv'
  OBVIOUS
<1>1. /\ phase = "asked" /\ phase' \in {"failed", "too_many", "knitting"}
      /\ UNCHANGED <<knitVars, end, asked, series, reports, turn, delayStart, periods, states, sequences>>
  BY DEF ChooseStep
<1>2. KnitInv'
  BY <1>1, StutterKnits DEF BundleInv
<1>3. BundleTypeOK'
  BY <1>1, <1>2, ChosenStays DEF BundleInv, BundleTypeOK, KnitInv, SecondOf, MilliOf
<1>4. /\ StepOf' = StepOf /\ (Stepped' <=> Stepped)
      /\ Points(end - Start, StepOf)' = Points(end - Start, StepOf)
  BY <1>1, ChosenStays
<1>5. /\ phase' = "failed" <=> ~Stepped
      /\ phase' = "too_many" <=> Stepped /\ StepOf > 0 /\ Points(end - Start, StepOf) > MaxPoints
  BY DEF ChooseStep
<1>6. Pointed'
  <2>1. Stepped => StepOf \in Int \ {0} /\ MaxPoints \in Int
    BY StepFacts
  <2>2. Stepped /\ StepOf > 0 => Points(end - Start, StepOf) \in Int
    BY StepFacts
  <2>3. Stepped =>
           \/ StepOf < 0
           \/ StepOf > 0 /\ (\/ Points(end - Start, StepOf) > MaxPoints
                             \/ Points(end - Start, StepOf) <= MaxPoints)
    BY <2>1, <2>2
  <2> QED BY <1>1, <1>4, <1>5, <2>3 DEF Pointed
<1>7. Empty' /\ Late' /\ Sequenced'
  BY <1>1 DEF BundleInv, Empty, Late, Sequenced
<1>9. Listed'
  BY <1>1, ListsStay DEF BundleInv
<1> QED BY <1>1, <1>9, <1>2, <1>3, <1>6, <1>7 DEF BundleInv

\* Knitting touches nothing of the bundle.
LEMMA KnitKeeps == BundleInv /\ KnitForBundle => BundleInv'
<1> SUFFICES ASSUME BundleInv, KnitForBundle PROVE BundleInv'
  OBVIOUS
<1>1. /\ phase = "knitting" /\ UNCHANGED phase /\ TakeRow
      /\ UNCHANGED <<end, asked, series, reports, turn, delayStart, periods, states, sequences>>
  BY DEF KnitForBundle, KnitRow, bundleVars
<1>2. KnitInv'
  BY <1>1, TakeRowKnits DEF BundleInv
<1>3. BundleTypeOK'
  <2>1. series' \in Seq(Columns')
    BY <1>1 DEF BundleInv, Empty
  <2> QED BY <1>1, <1>2, <2>1 DEF BundleInv, BundleTypeOK, KnitInv, SecondOf, MilliOf
<1>4. Pointed'
  <2>1. StepOf' = StepOf /\ (Stepped' <=> Stepped)
    BY <1>1 DEF StepOf, Stepped, Fitting
  <2>2. Points(end - Start, StepOf)' = Points(end - Start, StepOf)
    BY <1>1, <2>1 DEF Points
  <2> QED BY <1>1, <2>1, <2>2 DEF BundleInv, Pointed
<1>5. Empty' /\ Late' /\ Sequenced'
  BY <1>1 DEF BundleInv, Empty, Late, Sequenced
<1>9. Listed'
  BY <1>1, ListsStay DEF BundleInv
<1> QED BY <1>1, <1>9, <1>2, <1>3, <1>4, <1>5 DEF BundleInv

\* Nor does a step of nothing.
LEMMA StutterKeeps == BundleInv /\ UNCHANGED allBundleVars => BundleInv'
<1> SUFFICES ASSUME BundleInv, UNCHANGED allBundleVars PROVE BundleInv'
  OBVIOUS
<1>1. UNCHANGED <<knitVars, phase, rows, end, asked, series, reports, turn, delayStart, periods, states, sequences>>
  BY DEF allBundleVars, bundleVars, knitVars
<1>2. KnitInv'
  BY <1>1, StutterKnits DEF BundleInv
<1>3. BundleTypeOK'
  BY <1>1, <1>2, ChosenStays DEF BundleInv, BundleTypeOK, KnitInv, SecondOf, MilliOf
<1>4. Pointed'
  BY <1>1, ChosenStays DEF BundleInv, Pointed
<1>5. Empty'
  BY <1>1 DEF BundleInv, Empty
<1>6. Late'
  <2>1. Changes' = Changes /\ \A k : PeriodOf(k)' = PeriodOf(k)
    BY <1>1, LoopStays
  <2>2. InPeriods(periods, turn) => InPeriods(periods, turn)'
    BY <1>1, <2>1 DEF InPeriods, Seconds, SecondOf
  <2>3. Reported => Reported'
    BY <1>1 DEF Reported, Report, ByTime
  <2> QED BY <1>1, <2>1, <2>2, <2>3 DEF BundleInv, Late
<1>7. Sequenced'
  <2>1. Times' = Times /\ ToldSymbols' = ToldSymbols /\ (Found' <=> Found)
    BY <1>1, LoopStays
  <2>2. \A n : StatesOf(n)' = StatesOf(n)
    BY <1>1 DEF StatesOf, Named
  <2> QED BY <1>1, <2>1, <2>2 DEF BundleInv, Sequenced
<1>9. Listed'
  BY <1>1, ListsStay DEF BundleInv
<1> QED BY <1>1, <1>9, <1>2, <1>3, <1>4, <1>5, <1>6, <1>7 DEF BundleInv

\* The axioms hold exactly when nothing stands against the bundle.
LEMMA AxiomFacts ==
    ASSUME BundleInv
    PROVE  NamesUnique /\ SpanProper /\ UnitsKnown /\ PeriodsWellFormed <=> ~Unmade
<1>1. /\ KnitInv /\ end \in Ends /\ series \in Seq(Columns)
      /\ periods \in Seq(Seconds \X Seconds)
      /\ \A k \in 1..Len(periods) : periods[k][1] <= periods[k][2]
  BY DEF BundleInv, BundleTypeOK, Listed, Seconds
<1>2. NamesUnique <=> ~\E j, k \in DOMAIN series : j < k /\ series[j] = series[k]
  <2>1. \A k \in DOMAIN series : k \in Int /\ series[k] \in Columns
    BY <1>1
  <2>2. \A j, k \in DOMAIN series : Heading(series[j]) = Heading(series[k]) => series[j] = series[k]
    BY <1>1, <2>1, HeadingFacts
  <2>3. NamesUnique <=>
           \A j, k \in DOMAIN series : Heading(series[j]) = Heading(series[k]) => j = k
    BY DEF NamesUnique, IsInjective
  <2>4. ASSUME NamesUnique, NEW j \in DOMAIN series, NEW k \in DOMAIN series,
               j < k, series[j] = series[k]
        PROVE  FALSE
    BY <2>1, <2>3, <2>4
  <2>5. ASSUME ~\E j, k \in DOMAIN series : j < k /\ series[j] = series[k],
               NEW j \in DOMAIN series, NEW k \in DOMAIN series,
               Heading(series[j]) = Heading(series[k])
        PROVE  j = k
    <3>1. series[j] = series[k] /\ ~(j < k) /\ ~(k < j)
      BY <2>2, <2>5
    <3> QED BY <2>1, <3>1
  <2> QED BY <2>3, <2>4, <2>5
<1>3. SpanProper <=> SecondOf(Start) # SecondOf(end)
  <2>1. /\ SecondOf(Start) \in Int /\ SecondOf(end) \in Int
        /\ SecondOf(Start) <= SecondOf(end)
    BY <1>1, SecondFacts
  <2> QED BY <2>1 DEF SpanProper
<1>4. UnitsKnown <=> ~\E k \in DOMAIN series : rows[Newest(series[k])].unit \notin UnitsTaken
  BY DEF UnitsKnown, ToSet
<1>5. PeriodsWellFormed <=> ~\E k \in DOMAIN periods : periods[k][1] = periods[k][2]
  <2>1. \A k \in DOMAIN periods : /\ periods[k][1] \in Seconds /\ periods[k][2] \in Seconds
                                  /\ k \in 1..Len(periods)
    <3> HIDE DEF Seconds
    <3> QED BY <1>1
  <2>2. \A s \in Seconds : s \in Int /\ SecondOf(Start) <= s /\ s <= SecondOf(end)
    BY <1>1, SecondFacts DEF Seconds
  <2>3. \A k \in DOMAIN periods :
           /\ periods[k][1] \in Int /\ periods[k][2] \in Int /\ periods[k][1] <= periods[k][2]
           /\ SecondOf(Start) <= periods[k][1] /\ periods[k][2] <= SecondOf(end)
    BY <1>1, <2>1, <2>2
  <2>4. \A k \in DOMAIN periods : periods[k][1] < periods[k][2] <=> periods[k][1] # periods[k][2]
    BY <2>3
  <2> QED BY <2>3, <2>4 DEF PeriodsWellFormed
<1> QED BY <1>2, <1>3, <1>4, <1>5 DEF Unmade

\* A bundle is made exactly when its axioms hold.
LEMMA MakeKeeps == BundleInv /\ MakeBundle => BundleInv'
<1> SUFFICES ASSUME BundleInv, MakeBundle PROVE BundleInv'
  OBVIOUS
<1>1. /\ phase = "states" /\ phase' \in {"answered", "failed"}
      /\ phase' = "answered" <=> NamesUnique /\ SpanProper /\ UnitsKnown /\ PeriodsWellFormed
      /\ UNCHANGED <<knitVars, end, asked, series, reports, turn, delayStart, periods, states, sequences>>
  BY DEF MakeBundle
<1>2. KnitInv'
  BY <1>1, StutterKnits DEF BundleInv
<1>3. BundleTypeOK'
  BY <1>1, <1>2, ChosenStays DEF BundleInv, BundleTypeOK, KnitInv, SecondOf, MilliOf
<1>6. Pointed'
  BY <1>1, AxiomFacts, ChosenStays DEF BundleInv, Pointed
<1>7. Empty' /\ Late' /\ Sequenced'
  BY <1>1 DEF Empty, Late, Sequenced
<1>9. Listed'
  BY <1>1, ListsStay DEF BundleInv
<1> QED BY <1>1, <1>9, <1>2, <1>3, <1>6, <1>7 DEF BundleInv

\* The series are columns; no change is taken yet.
LEMMA ReadKeeps == BundleInv /\ Read => BundleInv'
<1> SUFFICES ASSUME BundleInv, Read PROVE BundleInv'
  OBVIOUS
<1>1. /\ phase = "knitting"
      /\ UNCHANGED <<knitVars, end, asked, turn, delayStart, periods, states, sequences>>
      /\ phase' \in {"conflict", "failed", "downloaded", "delays"}
      /\ phase' = "failed" => StepOf < 0
      /\ phase' = "delays" => \E s \in ReportLists : reports' = InRange(s)
      /\ phase' # "delays" => UNCHANGED reports
      /\ \/ UNCHANGED series
         \/ \E asking \in Requests : \E heard :
               series' = Filtered(Numeric(Selected(asking)), heard)
  BY DEF Read
<1>2. KnitInv /\ KnitInv' /\ Columns' = Columns
  BY <1>1, StutterKnits, SelectedStays DEF BundleInv
<1>3. /\ turn = 0 /\ delayStart = NoDelay /\ periods = <<>> /\ sequences = [n \in Names |-> <<>>]
      /\ end' = end /\ end \in Ends
  BY <1>1 DEF BundleInv, BundleTypeOK, Empty
<1>4. series' \in Seq(Columns)
  <2>1. CASE UNCHANGED series
    BY <2>1 DEF BundleInv, BundleTypeOK
  <2>2. CASE ~UNCHANGED series
    <3>1. PICK asking \in Requests : \E heard :
             series' = Filtered(Numeric(Selected(asking)), heard)
      BY <1>1, <2>2
    <3>2. Selected(asking) \in Seq(Columns)
      BY <1>2, RequestAssumption, SelectedFacts
    <3>3. Numeric(Selected(asking)) \in Seq(Columns)
      BY <3>2, FilteredFacts DEF Numeric
    <3> QED BY <3>1, <3>3, FilteredFacts
  <2> QED BY <2>1, <2>2
<1>11. ASSUME phase' = "delays" PROVE Reported'
  <2> DEFINE E == [at : Nat, delayed : BOOLEAN]
  <2>1. PICK s \in ReportLists : reports' = InRange(s)
    BY <1>1, <1>11
  <2>2. s \in Seq(E) /\ \A i \in 2..Len(s) : s[i - 1].at <= s[i].at
    BY BundleAssumption
  <2>3. \A e \in E : e.at \in Int
    OBVIOUS
  <2>4. {r \in E : r.at \in Start..end} \subseteq Report
    BY DEF Report
  <2> HIDE DEF E
  <2>5. ByTime(s)
    BY <2>2, <2>3, ByTimeFacts
  <2>6. InRange(s) \in Seq({r \in E : r.at \in Start..end}) /\ ByTime(InRange(s))
    BY <2>2, <2>5, InRangeFacts
  <2>7. InRange(s) \in Seq(Report)
    BY <2>4, <2>6, WiderSeq
  <2> QED BY <1>3, <2>1, <2>6, <2>7 DEF Reported, Report, ByTime
<1>5. Listed' /\ turn' \in 0..(Len(reports') + Len(states'))
  <2>1. reports' \in Seq(Report)
    BY <1>1, <1>3, <1>11 DEF BundleInv, Listed, Reported, Report
  <2>2. Listed'
    BY <1>1, <1>3, <2>1 DEF BundleInv, Listed, Report
  <2>3. Len(reports') \in Nat /\ Len(states') \in Nat /\ turn' = 0
    BY <1>1, <1>3, <2>1 DEF BundleInv, Listed
  <2> QED BY <2>2, <2>3
<1>6. BundleTypeOK'
  BY <1>1, <1>2, <1>4, <1>5 DEF BundleInv, BundleTypeOK, KnitInv, SecondOf, MilliOf
<1>7. Pointed'
  <2>1. StepOf' = StepOf /\ (Stepped' <=> Stepped)
    BY <1>1 DEF StepOf, Stepped, Fitting
  <2>2. Points(end - Start, StepOf)' = Points(end - Start, StepOf)
    BY <1>1, <2>1 DEF Points
  <2> QED BY <1>1, <2>1, <2>2 DEF BundleInv, Pointed
<1>8. Empty'
  BY <1>1 DEF BundleInv, Empty
<1>9. Late'
  <2> SUFFICES ASSUME phase' = "delays" PROVE Late'
    BY DEF Late
  <2>1. Reported' /\ turn' = 0 /\ delayStart' = NoDelay /\ periods' = <<>>
    BY <1>1, <1>3, <1>11
  <2>2. Len(Changes)' \in Nat
    BY <1>5, ChangeFacts DEF Listed
  <2>3. InPeriods(<<>>, 0)'
    <3>1. <<>> \in Seq(Seconds \X Seconds)' /\ Len(<<>>) = 0
      OBVIOUS
    <3>2. \A k \in 1..Len(Changes)' : ~(k < 0)
      BY <2>2
    <3> QED BY <3>1, <3>2 DEF InPeriods
  <2> QED BY <2>1, <2>2, <2>3 DEF Late
<1>10. Sequenced'
  BY <1>1 DEF Sequenced
<1> QED BY <1>2, <1>5, <1>6, <1>7, <1>8, <1>9, <1>10 DEF BundleInv

\* A change taken begins a delay, or ends the one begun.
LEMMA TakeChangeKeeps == BundleInv /\ TakeChange => BundleInv'
<1> SUFFICES ASSUME BundleInv, TakeChange PROVE BundleInv'
  OBVIOUS
<1> DEFINE n == Len(Changes)
           m == turn
           change == Changes[m + 1]
<1>1. /\ phase = "delays" /\ phase' = "delays" /\ m < n /\ turn' = m + 1
      /\ UNCHANGED <<knitVars, end, asked, series, reports, states, sequences>>
      /\ IF change.delayed
         THEN delayStart' = change.at /\ UNCHANGED periods
         ELSE IF delayStart # NoDelay
              THEN /\ periods' = Append(periods, Period(delayStart, change.at))
                   /\ delayStart' = NoDelay
              ELSE UNCHANGED <<delayStart, periods>>
  BY DEF TakeChange
<1>2. KnitInv /\ KnitInv'
  BY <1>1, StutterKnits DEF BundleInv
<1>3. /\ end \in Ends /\ Reported /\ m \in 0..n
      /\ delayStart = IF m # 0 /\ Changes[m].delayed THEN Changes[m].at ELSE NoDelay
      /\ InPeriods(periods, m)
  BY <1>1 DEF BundleInv, BundleTypeOK, Late
<1>4. n \in Nat /\ n <= Len(reports) /\ m + 1 \in 1..n /\ reports \in Seq(Report) /\ Len(reports) \in Nat
  BY <1>1, <1>3, ChangeFacts, TimeFacts
<1>5. \A k \in 1..n : /\ Changes[k].at \in Start..end /\ Changes[k].at # NoDelay
                      /\ Changes[k].delayed \in BOOLEAN
  <2>1. \A t \in Start..end : t # NoDelay
    BY <1>3, SecondFacts DEF NoDelay
  <2> QED BY <1>3, <2>1, TimeFacts
<1>6. m # 0 => m \in 1..n /\ change.delayed # Changes[m].delayed
  <2> SUFFICES ASSUME m # 0 PROVE m \in 1..n /\ change.delayed # Changes[m].delayed
    OBVIOUS
  <2>1. m \in 1..n /\ m + 1 \in 2..n /\ (m + 1) - 1 = m
    BY <1>3, <1>4
  <2> QED BY <1>4, <2>1, ChangeFacts
<1>7. /\ InPeriods(periods', m + 1)
      /\ delayStart' = IF change.delayed THEN change.at ELSE NoDelay
  <2>1. CASE change.delayed
    <3>1. m # 0 => ~Changes[m].delayed
      BY <1>4, <1>5, <1>6, <2>1
    <3> QED BY <1>1, <1>3, <2>1, <3>1, PeriodSkipped
  <2>2. CASE ~change.delayed /\ delayStart # NoDelay
    <3>1. m # 0 /\ m \in 1..n /\ Changes[m].delayed /\ delayStart = Changes[m].at
      BY <1>3, <1>6, <2>2
    <3>2. PeriodOf(m) = Period(delayStart, change.at)
      <4>1. m # n
        BY <1>1, <1>3, <1>4
      <4> QED BY <3>1, <4>1 DEF PeriodOf
    <3> QED BY <1>1, <1>3, <2>2, <3>1, <3>2, PeriodAppended
  <2>3. CASE ~change.delayed /\ delayStart = NoDelay
    <3>1. m # 0 => ~Changes[m].delayed
      BY <1>3, <1>5, <1>6, <2>3
    <3> QED BY <1>1, <1>3, <2>3, <3>1, PeriodSkipped
  <2> QED BY <2>1, <2>2, <2>3
<1>8. Changes' = Changes /\ \A k : PeriodOf(k)' = PeriodOf(k)
  BY <1>1, LoopStays
<1> HIDE DEF n
<1>9. Late'
  <2>1. turn' \in 0..n /\ turn' # 0
    BY <1>1, <1>3, <1>4
  <2>2. InPeriods(periods', turn')
    BY <1>1, <1>7
  <2>3. InPeriods(periods, turn)'
    <3>1. Seconds' = Seconds
      BY <1>1 DEF Seconds, SecondOf
    <3> QED BY <1>8, <2>2, <3>1 DEF InPeriods
  <2>4. Reported'
    BY <1>1, <1>3 DEF Reported, Report, ByTime
  <2> QED BY <1>1, <1>3, <1>7, <1>8, <2>1, <2>3, <2>4 DEF Late, n
<1>10. periods' \in Seq(Seconds \X Seconds) /\ \A p \in 1..Len(periods') : periods'[p][1] <= periods'[p][2]
  BY <1>7 DEF InPeriods
<1>11. Listed'
  BY <1>1, <1>4, <1>10 DEF BundleInv, Listed, Report
<1>12. BundleTypeOK'
  <2>1. turn' \in 0..(Len(reports') + Len(states'))
    <3>1. Len(states) \in Nat
      BY DEF BundleInv, Listed
    <3> QED BY <1>1, <1>4, <3>1
  <2>2. delayStart' \in {NoDelay} \cup Start..end
    BY <1>4, <1>5, <1>7
  <2>3. Columns' = Columns
    BY <1>1, ChosenStays
  <2> QED BY <1>1, <1>2, <1>10, <2>1, <2>2, <2>3
      DEF BundleInv, BundleTypeOK, KnitInv, Seconds, SecondOf, MilliOf
<1>13. Pointed'
  BY <1>1, ChosenStays DEF BundleInv, Pointed
<1>14. Empty'
  BY <1>1 DEF BundleInv, Empty
<1>15. Sequenced'
  BY <1>1 DEF Sequenced
<1> QED BY <1>2, <1>9, <1>11, <1>12, <1>13, <1>14, <1>15 DEF BundleInv

\* When all changes are taken, LastPeriods are the periods of all of them.
LEMMA LastPeriodsFacts ==
    ASSUME BundleInv, phase = "delays", turn = Len(Changes)
    PROVE  InPeriods(LastPeriods, Len(Changes) + 1)
<1> DEFINE n == Len(Changes)
<1>1. /\ end \in Ends /\ Reported
      /\ delayStart = IF n # 0 /\ Changes[n].delayed THEN Changes[n].at ELSE NoDelay
      /\ InPeriods(periods, n)
  BY DEF BundleInv, BundleTypeOK, Late
<1>2. n \in Nat
  BY <1>1, ChangeFacts, TimeFacts
<1>3. CASE n # 0 /\ Changes[n].delayed
  <2>1. n \in 1..n
    BY <1>2, <1>3
  <2>2. delayStart = Changes[n].at /\ Changes[n].at # NoDelay
    <3>1. \A t \in Start..end : t # NoDelay
      BY <1>1, SecondFacts DEF NoDelay
    <3> QED BY <1>1, <1>3, <2>1, <3>1, TimeFacts
  <2>3. LastPeriods = Append(periods, PeriodOf(n))
    BY <2>2 DEF LastPeriods, PeriodOf
  <2> QED BY <1>1, <1>3, <2>1, <2>3, PeriodAppended
<1>4. CASE ~(n # 0 /\ Changes[n].delayed)
  <2>1. LastPeriods = periods
    BY <1>1, <1>4 DEF LastPeriods
  <2>2. n \in 0..n
    BY <1>2
  <2> QED BY <1>1, <1>4, <2>1, <2>2, PeriodSkipped
<1> QED BY <1>3, <1>4

\* What the query of states leaves of the readings of the house is by time, and has the
\* version of its enum.
LEMMA FoundFacts ==
    ASSUME rows \in Tables, NEW found, NEW s \in Machines[rows],
           found = Filtered(InRange(s), {r \in ToSet(s) : VersionOf(rows[r.row]) \in ToSet(Versions)})
    PROVE  FoundIn(found)
<1> DEFINE Good == {r \in ToSet(s) : VersionOf(rows[r.row]) \in ToSet(Versions)}
           E == [row : {i \in DOMAIN rows : rows[i].state}, at : Nat, position : Nat]
<1>1. /\ s \in Seq(E)
      /\ \A i \in 2..Len(s) : s[i - 1].at <= s[i].at
  <2>1. Machines[rows] \subseteq Seq(E)
    BY BundleAssumption
  <2>2. Machines[rows] \subseteq ReportLists \cup UNION {Machines[t] : t \in Tables}
    OBVIOUS
  <2> QED BY <2>1, <2>2, BundleAssumption
<1>2. /\ \A e \in E : e.at \in Int
      /\ {r \in E : r.at \in Start..end} \subseteq StateReading
  BY DEF StateReading
<1> HIDE DEF E
<1>3. ByTime(s)
  BY <1>1, <1>2, ByTimeFacts
<1>4. InRange(s) \in Seq({r \in E : r.at \in Start..end}) /\ ByTime(InRange(s))
  BY <1>1, <1>3, InRangeFacts
<1>5. InRange(s) \in Seq(StateReading)
  BY <1>2, <1>4, WiderSeq
<1>6. found \in Seq(StateReading) /\ ByTime(found) /\ \A i \in 1..Len(found) : found[i] \in Good
  <2> DEFINE left == InRange(s)
  <2>1. found = Filtered(left, Good) /\ left \in Seq(StateReading) /\ ByTime(left)
    BY <1>4, <1>5
  <2> HIDE DEF Good, left
  <2> QED BY <2>1, FilteredByTime
<1> QED BY <1>6 DEF FoundIn

\* The delays end with the periods of them all, and no sequence tells anything yet.
LEMMA EndDelaysKeeps == BundleInv /\ EndDelays => BundleInv'
<1> SUFFICES ASSUME BundleInv, EndDelays PROVE BundleInv'
  OBVIOUS
<1>1. /\ phase = "delays" /\ phase' = "states" /\ turn = Len(Changes) /\ turn' = 0
      /\ periods' = LastPeriods /\ reports' = <<>>
      /\ UNCHANGED <<knitVars, rows, end, asked, series, delayStart, sequences>>
  BY DEF EndDelays, knitVars
<1>2. PICK s \in Machines[rows] :
         states' = Filtered(InRange(s), {r \in ToSet(s) : VersionOf(rows[r.row]) \in ToSet(Versions)})
  BY DEF EndDelays
<1>3. KnitInv /\ KnitInv'
  BY <1>1, StutterKnits DEF BundleInv
<1>4. InPeriods(periods', Len(Changes) + 1)
  BY <1>1, LastPeriodsFacts
<1>5. periods' \in Seq(Seconds \X Seconds) /\ \A p \in 1..Len(periods') : periods'[p][1] <= periods'[p][2]
  BY <1>4 DEF InPeriods
<1>6. Found' /\ Len(states') \in Nat
  <2>1. rows \in Tables
    BY <1>3 DEF KnitInv, TypeOK
  <2>2. FoundIn(states')
    BY <1>2, <2>1, FoundFacts
  <2>3. Found'
    BY <1>1, <2>2 DEF Found, FoundIn, StateReading, VersionOf, ByTime
  <2>4. Len(states') \in Nat
    BY <2>2 DEF FoundIn
  <2> QED BY <2>3, <2>4
<1>7. Listed'
  <2>1. <<>> \in Seq(Report)
    OBVIOUS
  <2> QED BY <1>1, <1>5, <1>6, <2>1 DEF Listed, Report
<1>8. BundleTypeOK'
  <2>1. turn' \in 0..(Len(reports') + Len(states'))
    <3>1. Len(reports') = 0
      BY <1>1
    <3> QED BY <1>1, <1>6, <3>1
  <2>2. Columns' = Columns
    BY <1>1, ChosenStays
  <2> QED BY <1>1, <1>3, <1>5, <2>1, <2>2
      DEF BundleInv, BundleTypeOK, KnitInv, Seconds, SecondOf, MilliOf
<1>9. Pointed'
  BY <1>1, ChosenStays DEF BundleInv, Pointed
<1>10. Empty' /\ Late'
  BY <1>1 DEF BundleInv, Empty, Late
<1>11. Sequenced'
  <2>1. \A n \in Names : sequences'[n] = <<>>
    BY <1>1 DEF BundleInv, Empty
  <2>2. \A n : StatesOf(n)' = {}
    BY <1>1 DEF StatesOf
  <2>3. \A n \in Names : Telling(sequences[n], Times, ToldSymbols, StatesOf(n))'
    BY <2>1, <2>2, NothingTold DEF Telling, Entry, Heard
  <2> QED BY <1>1, <1>6, <2>3 DEF Sequenced
<1> QED BY <1>3, <1>7, <1>8, <1>9, <1>10, <1>11 DEF BundleInv

Millis == MilliOf(Start)..MilliOf(end)

StateSymbols == UNION {ToSet(Symbols[v]) : v \in ToSet(Versions)}

\* The readings found have their times and rows; one named by its enum has a symbol.
LEMMA StateFacts ==
    ASSUME KnitInv, end \in Ends, Found
    PROVE  /\ Len(states) \in Nat
           /\ Millis \subseteq Int
           /\ \A i \in 1..Len(states) :
                 /\ states[i].row \in 1..Len(rows) /\ rows[states[i].row].name \in Names
                 /\ states[i].at \in Start..end
                 /\ Times[i] = MilliOf(states[i].at) /\ Times[i] \in Millis
                 /\ ToldSymbols[i] = Told(i)
                 /\ Named(states[i]) => Told(i) \in StateSymbols
           /\ \A i, j \in 1..Len(states) : i <= j => Times[i] <= Times[j]
<1>1. /\ Len(states) \in Nat /\ Len(rows) \in Nat /\ DOMAIN rows = 1..Len(rows)
      /\ \A i \in 1..Len(states) : states[i] \in StateReading
      /\ \A i, j \in 1..Len(states) : i <= j => states[i].at <= states[j].at
      /\ \A i \in 1..Len(states) : VersionOf(rows[states[i].row]) \in ToSet(Versions)
  <2>1. rows \in Seq(Row)
    BY LineagesAssumption DEF KnitInv, TypeOK
  <2> QED BY <2>1 DEF Found, FoundIn, ByTime
<1>2. \A t \in Int : MilliOf(t) \in Int
  BY BundleAssumption, DivFacts DEF MilliOf
<1>3. \A t, u \in Int : t <= u => MilliOf(t) <= MilliOf(u)
  BY BundleAssumption, DivMonotone DEF MilliOf
<1>4. \A t \in Start..end : t \in Int /\ MilliOf(t) \in Millis
  <2> TAKE t \in Start..end
  <2>1. t \in Int /\ Start \in Int /\ end \in Int /\ Start <= t /\ t <= end
    BY SecondFacts
  <2> QED BY <1>2, <1>3, <2>1 DEF Millis
<1>5. Millis \subseteq Int
  <2>1. MilliOf(Start) \in Int /\ MilliOf(end) \in Int
    BY <1>2, SecondFacts
  <2> QED BY <2>1 DEF Millis
<1>6. ASSUME NEW i \in 1..Len(states)
      PROVE  /\ states[i].row \in 1..Len(rows) /\ rows[states[i].row].name \in Names
             /\ states[i].at \in Start..end
             /\ Times[i] = MilliOf(states[i].at) /\ Times[i] \in Millis
             /\ ToldSymbols[i] = Told(i)
             /\ Named(states[i]) => Told(i) \in StateSymbols
  <2>1. /\ states[i].row \in 1..Len(rows)
        /\ states[i].at \in Start..end
        /\ states[i].position \in Nat
    BY <1>1 DEF StateReading
  <2>2. rows[states[i].row].name \in Names
    BY <2>1, RowTypes DEF KnitInv
  <2>3. Times[i] = MilliOf(states[i].at) /\ Times[i] \in Millis /\ ToldSymbols[i] = Told(i)
    BY <1>4, <2>1 DEF Times, ToldSymbols
  <2>4. ASSUME Named(states[i]) PROVE Told(i) \in StateSymbols
    <3> DEFINE v == VersionOf(rows[states[i].row])
               p == states[i].position
               symbols == Symbols[v]
    <3>1. v \in ToSet(Versions) /\ symbols \in Seq(ToSet(symbols))
      BY <1>1, LineagesAssumption
    <3>2. p < Len(symbols) /\ p \in Nat
      BY <2>1, <2>4 DEF Named
    <3>3. Told(i) = IF p \in 0..(Len(symbols) - 1) THEN symbols[p + 1] ELSE p
      BY DEF Told, Symbol
    <3> HIDE DEF p, v, symbols
    <3>4. p \in 0..(Len(symbols) - 1) /\ p + 1 \in 1..Len(symbols)
      BY <3>1, <3>2
    <3>5. symbols[p + 1] \in ToSet(symbols)
      BY <3>1, <3>4
    <3> QED BY <3>1, <3>3, <3>4, <3>5 DEF StateSymbols, symbols
  <2> QED BY <2>1, <2>2, <2>3, <2>4
<1>7. \A i, j \in 1..Len(states) : i <= j => Times[i] <= Times[j]
  BY <1>1, <1>3, <1>4, <1>6
<1> QED BY <1>1, <1>5, <1>6, <1>7

\* A reading taken is told of its machine and of no other.
LEMMA TakeStateKeeps == BundleInv /\ TakeState => BundleInv'
<1> SUFFICES ASSUME BundleInv, TakeState PROVE BundleInv'
  OBVIOUS
<1> DEFINE i == turn + 1
           n == rows[states[i].row].name
           E == [at : Millis, symbol : StateSymbols]
<1>1. /\ phase = "states" /\ phase' = "states" /\ turn < Len(states) /\ turn' = i
      /\ UNCHANGED <<knitVars, rows, end, asked, series, reports, delayStart, periods, states>>
      /\ sequences' =
             IF Named(states[i])
             THEN [sequences EXCEPT ![n] = Extended(@, MilliOf(states[i].at), Told(i))]
             ELSE sequences
  BY DEF TakeState, knitVars, Told
<1>2. KnitInv /\ KnitInv'
  BY <1>1, StutterKnits DEF BundleInv
<1>3. /\ turn \in 0..Len(states) /\ end \in Ends /\ Found /\ Len(states) \in Nat /\ Len(reports) \in Nat
      /\ \A m \in Names : Telling(sequences[m], Times, ToldSymbols, StatesOf(m))
      /\ sequences \in [Names -> Seq(E)]
  <2>1. sequences \in [Names -> Seq(E)] /\ end \in Ends
    BY DEF BundleInv, BundleTypeOK, Millis, StateSymbols
  <2>2. /\ turn \in 0..Len(states) /\ Found
        /\ \A m \in Names : Telling(sequences[m], Times, ToldSymbols, StatesOf(m))
    BY <1>1 DEF BundleInv, Sequenced
  <2>3. Len(states) \in Nat /\ Len(reports) \in Nat
    BY DEF BundleInv, Listed
  <2> QED BY <2>1, <2>2, <2>3
<1>4. i \in 1..Len(states) /\ i \in Nat \ {0} /\ i - 1 = turn /\ \A k : k \in 1..i <=> k \in 1..turn \/ k = i
  BY <1>1, <1>3
<1> HIDE DEF i
<1>5. /\ n \in Names /\ Times[i] = MilliOf(states[i].at) /\ Times[i] \in Millis
      /\ ToldSymbols[i] = Told(i)
      /\ Named(states[i]) => Told(i) \in StateSymbols
  BY <1>2, <1>3, <1>4, StateFacts
<1>6. \A j \in 1..i : Times[j] \in Int /\ Times[j] <= Times[i]
  <2> TAKE j \in 1..i
  <2>1. j \in 1..Len(states) /\ j <= i
    BY <1>3, <1>4
  <2> QED BY <1>2, <1>3, <1>4, <2>1, StateFacts
<1>7. Times' = Times /\ ToldSymbols' = ToldSymbols /\ (Found' <=> Found)
  BY <1>1, LoopStays
<1>8. \A m : StatesOf(m)' = IF Named(states[i]) /\ m = n THEN StatesOf(m) \cup {i} ELSE StatesOf(m)
  <2>1. \A k : Named(states[k])' <=> Named(states[k])
    BY <1>1 DEF Named, VersionOf
  <2> HIDE DEF n
  <2>2. \A m : StatesOf(m)' = {k \in 1..i : rows[states[k].row].name = m /\ Named(states[k])}
    BY <1>1, <2>1 DEF StatesOf
  <2>3. \A m : StatesOf(m) = {k \in 1..turn : rows[states[k].row].name = m /\ Named(states[k])}
    BY DEF StatesOf
  <2> QED BY <1>4, <2>2, <2>3 DEF n
<1>10. ASSUME Named(states[i])
       PROVE  /\ sequences' \in [Names -> Seq(E)]
              /\ \A m \in Names : Telling(sequences'[m], Times, ToldSymbols, StatesOf(m)')
  <2> DEFINE q == sequences[n]
             r == Extended(q, Times[i], Told(i))
  <2>1. sequences' = [sequences EXCEPT ![n] = r]
    BY <1>1, <1>5, <1>10
  <2>2. q \in Seq(E)
    BY <1>3, <1>5
  <2>3. r \in Seq(E) /\ Extends(r, q, Times[i], Told(i))
    <3> HIDE DEF q
    <3> QED BY <1>5, <1>10, <2>2, ExtendedFacts
  <2> HIDE DEF q, r, n
  <2>4. sequences' \in [Names -> Seq(E)]
    BY <1>3, <2>1, <2>3
  <2>5. Telling(r, Times, ToldSymbols, StatesOf(n) \cup {i})
    <3>1. \A s \in Seq(E) : s \in Seq([at : Int, symbol : StateSymbols])
      <4>1. Millis \subseteq Int
        BY <1>2, <1>3, StateFacts
      <4> DEFINE F == [at : Int, symbol : StateSymbols]
      <4>2. \A e \in E : e \in F
        BY <4>1
      <4> HIDE DEF E, F
      <4>3. ASSUME NEW s \in Seq(E) PROVE s \in Seq(F)
        <5>1. Len(s) \in Nat /\ s = [k \in 1..Len(s) |-> s[k]] /\ \A k \in 1..Len(s) : s[k] \in E
          OBVIOUS
        <5>2. [k \in 1..Len(s) |-> s[k]] \in Seq(F)
          BY <4>2, <5>1, IsASeq
        <5> QED BY <5>1, <5>2
      <4> QED BY <4>3 DEF F
    <3>2. q \in Seq([at : Int, symbol : StateSymbols]) /\ r \in Seq([at : Int, symbol : StateSymbols])
      BY <2>2, <2>3, <3>1
    <3>3. StatesOf(n) \in SUBSET (1..(i - 1))
      BY <1>4 DEF StatesOf
    <3>4. Telling(q, Times, ToldSymbols, StatesOf(n))
      BY <1>3, <1>5 DEF q
    <3>5. Extends(r, q, Times[i], ToldSymbols[i])
      BY <1>5, <2>3
    <3> HIDE DEF E
    <3> QED BY <1>4, <1>6, <3>2, <3>3, <3>4, <3>5, ExtendedTells
  <2>6. ASSUME NEW m \in Names PROVE Telling(sequences'[m], Times, ToldSymbols, StatesOf(m)')
    <3>1. CASE m = n
      <4>1. sequences'[m] = r /\ StatesOf(m)' = StatesOf(n) \cup {i}
        BY <1>3, <1>8, <1>10, <2>1, <3>1
      <4> QED BY <2>5, <4>1
    <3>2. CASE m # n
      <4>1. sequences'[m] = sequences[m] /\ StatesOf(m)' = StatesOf(m)
        BY <1>3, <1>8, <2>1, <3>2
      <4> QED BY <1>3, <4>1
    <3> QED BY <3>1, <3>2
  <2> QED BY <2>4, <2>6
<1>11. /\ sequences' \in [Names -> Seq(E)]
       /\ \A m \in Names : Telling(sequences'[m], Times, ToldSymbols, StatesOf(m)')
  <2>1. CASE Named(states[i])
    BY <1>10, <2>1
  <2>2. CASE ~Named(states[i])
    BY <1>1, <1>3, <1>8, <2>2
  <2> QED BY <2>1, <2>2
<1>12. Sequenced'
  <2>1. turn' \in 0..Len(states')
    BY <1>1, <1>3, <1>4
  <2>2. \A m \in Names : Telling(sequences[m], Times, ToldSymbols, StatesOf(m))'
    BY <1>7, <1>11
  <2> QED BY <1>1, <1>3, <1>7, <2>1, <2>2 DEF Sequenced
<1>13. BundleTypeOK'
  <2>1. turn' \in 0..(Len(reports') + Len(states'))
    BY <1>1, <1>3, <1>4
  <2>2. Columns' = Columns
    BY <1>1, ChosenStays
  <2> QED BY <1>1, <1>2, <1>11, <2>1, <2>2
      DEF BundleInv, BundleTypeOK, KnitInv, Millis, StateSymbols, SecondOf, MilliOf
<1>14. Listed'
  BY <1>1, ListsStay DEF BundleInv
<1>15. Pointed'
  BY <1>1, ChosenStays DEF BundleInv, Pointed
<1>16. Empty' /\ Late'
  BY <1>1 DEF Empty, Late
<1> QED BY <1>2, <1>12, <1>13, <1>14, <1>15, <1>16 DEF BundleInv

\* Every step keeps the invariant.
LEMMA BundleNextKeeps == BundleInv /\ [BundleNext]_allBundleVars => BundleInv'
BY ChooseKeeps, KnitKeeps, ReadKeeps, TakeChangeKeeps, EndDelaysKeeps, TakeStateKeeps, MakeKeeps, StutterKeeps
   DEF BundleNext

\* The invariant holds whatever the rows, the reports and the readings of states.
THEOREM BundleAlwaysInv == BundleSpec => []BundleInv
BY BundleInitKeeps, BundleNextKeeps, PTL DEF BundleSpec

\* What is sent of a machine is symbols, never a position, of rows whose enum the
\* snapshot has (query_operating_state_sequences).
THEOREM BundleAlwaysTyped == BundleSpec => []BundleTypeOK
<1>1. BundleInv => BundleTypeOK
  BY DEF BundleInv
<1> QED BY <1>1, BundleAlwaysInv, PTL

\* The rows are of one series exactly when shared names and channel Ids lead from one to
\* the other (readings_units.py lineages, as query_readings_with_times runs it).
THEOREM BundleLineagesExact == BundleSpec => []LineagesExact
<1>1. BundleInv => LineagesExact
  BY KnitExact DEF BundleInv
<1> QED BY <1>1, BundleAlwaysInv, PTL

\* No two columns have a name or a channel Id in common, so that buckets_by_series, which
\* goes by the heading, keeps them apart (query_readings_with_times).
THEOREM BundleColumnsApart == BundleSpec => []ColumnsApart
<1>1. BundleInv => ColumnsApart
  BY KnitApart DEF BundleInv
<1> QED BY <1>1, BundleAlwaysInv, PTL

\* The periods of late persistence are those of the reports, to the second they are told
\* in, in order and apart, whatever the reports (query_late_persistence).
THEOREM LateAlwaysExact == BundleSpec => []LateExact
<1>1. BundleInv => LateExact
  <2> SUFFICES ASSUME BundleInv, phase = "delays", turn = Len(Changes) PROVE LateExact
    BY DEF LateExact
  <2>1. end \in Ends /\ Reported
    BY DEF BundleInv, BundleTypeOK, Late
  <2>2. InPeriods(LastPeriods, Len(Changes) + 1)
    BY LastPeriodsFacts
  <2> DEFINE late == LastPeriods
  <2>3. /\ \A k \in 2..Len(late) : late[k - 1][2] <= late[k][1]
        /\ \A t \in Start..(end - 1) :
              DelayedAt(t) => \E p \in ToSet(late) : p[1] <= SecondOf(t) /\ SecondOf(t) <= p[2]
        /\ \A p \in ToSet(late) : \A s \in p[1]..(p[2] - 1) :
              \E t \in Start..end : SecondOf(t) = s /\ DelayedAt(t)
    <3> HIDE DEF late
    <3>1. InPeriods(late, Len(Changes) + 1)
      BY <2>2 DEF late
    <3> QED BY <2>1, <3>1, PeriodsExact
  <2> QED BY <2>3 DEF LateExact
<1> QED BY <1>1, BundleAlwaysInv, PTL

\* A machine's sequence tells its state at every millisecond, under whichever rows and
\* versions of its enum the readings came, and whatever those are
\* (query_operating_state_sequences).
THEOREM SequencesAlwaysExact == BundleSpec => []SequencesExact
<1>1. BundleInv => SequencesExact
  <2> SUFFICES ASSUME BundleInv, phase = "states", NEW n \in Names
               PROVE  LET sequence == sequences[n]
                          EntryAt(t) == Max({0} \cup {k \in DOMAIN sequence : sequence[k].at <= t})
                          ReadingAt(t) == Max({0} \cup {i \in StatesOf(n) : MilliOf(states[i].at) <= t})
                      IN /\ \A k \in 2..Len(sequence) : sequence[k - 1].at < sequence[k].at
                         /\ \A t \in MilliOf(Start)..MilliOf(end) :
                               /\ EntryAt(t) = 0 <=> ReadingAt(t) = 0
                               /\ EntryAt(t) # 0 =>
                                     LET r == states[ReadingAt(t)] IN
                                     sequence[EntryAt(t)].symbol = Symbol(rows[r.row], r.position)
    BY DEF SequencesExact
  <2>1. /\ KnitInv /\ turn \in 0..Len(states) /\ end \in Ends /\ Found
        /\ Telling(sequences[n], Times, ToldSymbols, StatesOf(n))
        /\ sequences[n] \in Seq([at : Millis, symbol : StateSymbols])
    BY DEF BundleInv, Sequenced, BundleTypeOK, Millis, StateSymbols
  <2>2. StatesOf(n) \subseteq 1..Len(states) /\ Millis \subseteq Int /\ Len(states) \in Nat
    BY <2>1, StateFacts DEF StatesOf
  <2>3. \A t : Heard(Times, StatesOf(n), t) = Max({0} \cup {i \in StatesOf(n) : MilliOf(states[i].at) <= t})
    <3> TAKE t
    <3>1. {i \in StatesOf(n) : MilliOf(states[i].at) <= t} = {i \in StatesOf(n) : Times[i] <= t}
      BY <2>1, <2>2, StateFacts
    <3> QED BY <3>1 DEF Heard
  <2>4. \A k \in 2..Len(sequences[n]) : sequences[n][k - 1].at < sequences[n][k].at
    BY <2>1 DEF Telling
  <2>5. ASSUME NEW t \in MilliOf(Start)..MilliOf(end)
        PROVE  /\ Entry(sequences[n], t) = 0 <=> Heard(Times, StatesOf(n), t) = 0
               /\ Entry(sequences[n], t) # 0 =>
                     sequences[n][Entry(sequences[n], t)].symbol = Told(Heard(Times, StatesOf(n), t))
    <3>1. t \in Int
      BY <2>2 DEF Millis
    <3>2. /\ Entry(sequences[n], t) = 0 <=> Heard(Times, StatesOf(n), t) = 0
          /\ Entry(sequences[n], t) # 0 =>
                sequences[n][Entry(sequences[n], t)].symbol = ToldSymbols[Heard(Times, StatesOf(n), t)]
      BY <2>1, <3>1 DEF Telling
    <3>3. Heard(Times, StatesOf(n), t) # 0 => Heard(Times, StatesOf(n), t) \in 1..Len(states)
      <4> DEFINE S == {0} \cup {i \in StatesOf(n) : Times[i] <= t}
      <4>1. S \in SUBSET (0..Len(states)) /\ 0 \in S /\ 0 \in Int /\ Len(states) \in Int
        BY <2>2
      <4>2. Max(S) \in S
        <5> HIDE DEF S
        <5>1. IsFiniteSet(S) /\ S \in SUBSET Int /\ S # {}
          BY <4>1, BoundedFinite
        <5> QED BY <5>1, Extremes
      <4>3. Max(S) # 0 => Max(S) \in StatesOf(n)
        <5>1. \A y \in S : y # 0 => y \in StatesOf(n)
          OBVIOUS
        <5> HIDE DEF S
        <5> QED BY <4>2, <5>1
      <4> QED BY <2>2, <4>3 DEF Heard
    <3> QED BY <2>1, <3>2, <3>3, StateFacts
  <2> QED BY <2>3, <2>4, <2>5 DEF Entry, Told
<1> QED BY <1>1, BundleAlwaysInv, PTL

\* A bundle can be made exactly when no channel is asked for twice, every series has a
\* unit the bundle knows, the window does not lie within one second, and no delay begins in
\* the second it ends in; and a request is turned down exactly for too many points
\* (get_readings, SyncedReadingsBundle).
THEOREM AlwaysFailsExactly == BundleSpec => []FailsExactly
<1>1. BundleInv => FailsExactly
  <2> SUFFICES ASSUME BundleInv PROVE FailsExactly
    OBVIOUS
  <2> DEFINE points == Cardinality({t \in 0..(end - Start) : t % (StepOf * PerSecond) = 0})
             size == StepOf * PerSecond
             r == end - Start
  <2>1. Stepped /\ StepOf > 0 => points = Points(end - Start, StepOf)
    <3> SUFFICES ASSUME Stepped, StepOf > 0 PROVE points = Points(end - Start, StepOf)
      OBVIOUS
    <3>1. size \in Nat \ {0} /\ r \in Nat
      BY StepFacts
    <3> HIDE DEF size, r
    <3>2. Cardinality({t \in 0..r : t % size = 0}) = r \div size + 1
      BY <3>1, PointsCounted
    <3> QED BY <3>2 DEF size, r, Points
  <2>2. phase = "failed" =>
           \/ asked = 0 /\ \A i \in DefaultSteps : i * MaxPoints * PerSecond < end - Start
           \/ asked < 0
           \/ Unmade
    <3> SUFFICES ASSUME phase = "failed", ~Unmade
                 PROVE  \/ asked = 0 /\ \A i \in DefaultSteps : i * MaxPoints * PerSecond < end - Start
                        \/ asked < 0
      OBVIOUS
    <3>1. CASE ~Stepped
      <4>1. asked = 0 /\ \A i \in DefaultSteps : ~(i * PerSecond * MaxPoints >= end - Start)
        BY <3>1 DEF Stepped, Fitting
      <4>2. ASSUME NEW i \in DefaultSteps PROVE i * MaxPoints * PerSecond < end - Start
        <5>1. /\ i \in Nat /\ MaxPoints \in Nat /\ PerSecond \in Nat
              /\ end \in Nat /\ Start \in Nat
          BY BundleAssumption, RequestAssumption DEF BundleInv, BundleTypeOK
        <5>2. /\ i * PerSecond * MaxPoints \in Int
              /\ i * MaxPoints * PerSecond = i * PerSecond * MaxPoints
          BY <5>1
        <5>3. end - Start \in Int
          BY <5>1
        <5>4. ASSUME NEW v \in Int, ~(v >= end - Start) PROVE v < end - Start
          BY <5>3, <5>4
        <5> QED BY <4>1, <5>2, <5>4
      <4> QED BY <4>1, <4>2
    <3>2. CASE Stepped /\ StepOf < 0
      <4>1. asked # 0
        BY <3>2, StepFacts
      <4> QED BY <3>2, <4>1 DEF StepOf
    <3> QED BY <3>1, <3>2 DEF BundleInv, Pointed
  <2>3. ASSUME phase = "too_many"
        PROVE  /\ StepOf > 0 /\ points > MaxPoints
               /\ asked = 0 => end - Start = MaxPoints * StepOf * PerSecond
    <3>1. Stepped /\ StepOf > 0 /\ Points(end - Start, StepOf) > MaxPoints
      BY <2>3 DEF BundleInv, Pointed
    <3>2. ASSUME asked = 0 PROVE r = MaxPoints * StepOf * PerSecond
      <4> DEFINE k == r \div size
      <4>1. /\ r \in Nat /\ size \in Nat \ {0} /\ MaxPoints \in Nat \ {0}
            /\ r <= size * MaxPoints
        BY <3>1, <3>2, StepFacts
      <4>2. MaxPoints * size = MaxPoints * StepOf * PerSecond
        BY <3>1, StepFacts
      <4>3. Points(end - Start, StepOf) = k + 1
        BY DEF Points
      <4> HIDE DEF size, r
      <4>4. k \in Int /\ size * k <= r
        BY <4>1, DivFacts
      <4>5. MaxPoints <= k
        BY <3>1, <4>1, <4>3, <4>4
      <4> HIDE DEF k
      <4>6. MaxPoints * size <= k * size
        BY <4>1, <4>4, <4>5, MulMonotone
      <4>7. /\ MaxPoints * size \in Int /\ k * size \in Int
            /\ size * k = k * size /\ size * MaxPoints = MaxPoints * size
        BY <4>1, <4>4
      <4>8. ASSUME NEW v \in Int, NEW w \in Int, v <= w, w <= r, r <= v PROVE r = v
        BY <4>1, <4>8
      <4> QED BY <4>1, <4>2, <4>4, <4>6, <4>7, <4>8
    <3> QED BY <2>1, <3>1, <3>2
  <2>4. phase \notin {"asked", "too_many", "failed"} => StepOf < 0 \/ points <= MaxPoints
    <3> SUFFICES ASSUME phase \notin {"asked", "too_many", "failed"}, ~(StepOf < 0)
                 PROVE  points <= MaxPoints
      OBVIOUS
    <3>1. Stepped /\ Points(end - Start, StepOf) <= MaxPoints
      BY DEF BundleInv, Pointed
    <3>2. StepOf > 0
      BY <3>1, StepFacts
    <3> QED BY <2>1, <3>1, <3>2
  <2>5. phase = "answered" => ~Unmade
    BY DEF BundleInv, Pointed
  <2> QED BY <2>2, <2>3, <2>4, <2>5 DEF FailsExactly, Unmade
<1> QED BY <1>1, BundleAlwaysInv, PTL
=============================================================================
