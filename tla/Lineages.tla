------------------------------ MODULE Lineages ------------------------------
(***************************************************************************)
(* How the readers of readings put the reading_channels rows of one house  *)
(* into columns (api/v2/readings_units.py).  A row's primary key is its    *)
(* place in rows; a name is its place in the order of names, so a sort by  *)
(* name is one by number.                                                  *)
(*                                                                         *)
(* lineages() knits the rows one by one.  Its disjoint sets are kept here  *)
(* as the root of each row: halving a path changes no root.                *)
(***************************************************************************)
EXTENDS Ordered, SequencesExt

CONSTANTS
    Names,
    ChannelIds,     \* the layouts' channel Ids
    NoId,
    Scales,         \* the units that convert, each with its quantity, per, offset
    OtherUnits,     \* those that do not, NoScale and the versions of enums
    NoScale,
    Unversioned,    \* the unit "Enum"
    Versions,       \* the vendored versions of the state enum, oldest first
    Symbols,        \* the symbols of each, by position
    Tables          \* the sequences of rows the query may return

Units == DOMAIN Scales \cup OtherUnits

Row == [name : Names, channel_id : ChannelIds \cup {NoId}, unit : Units,
        state : BOOLEAN, retired_at : Nat]   \* 0 for the active row

ASSUME LineagesAssumption ==
    /\ Names \subseteq Nat
    /\ NoId \notin ChannelIds
    /\ IsFiniteSet(DOMAIN Scales)
    /\ \A u \in DOMAIN Scales : Scales[u].per \in Nat \ {0} /\ Scales[u].offset \in Int
    /\ {NoScale, Unversioned} \cup ToSet(Versions) \subseteq OtherUnits
    /\ DOMAIN Scales \cap OtherUnits = {}
    /\ Versions \in Seq(OtherUnits) /\ Versions # <<>>
    /\ DOMAIN Symbols = ToSet(Versions)
    /\ \A v \in ToSet(Versions) : Symbols[v] \in Seq(ToSet(Symbols[v]))
    /\ Tables \subseteq Seq(Row)

VARIABLES
    rows,       \* the rows of the query
    taken,      \* how many of them the loop has taken
    root,       \* the root of each row taken
    byName,     \* first_by_key: the first row of each name, 0 for none
    byId        \* first_by_key: the first row of each channel Id, 0 for none

knitVars == <<rows, taken, root, byName, byId>>

Scaled == {i \in 1..taken : rows[i].unit # NoScale}

TypeOK ==
    /\ rows \in Tables
    /\ taken \in 0..Len(rows)
    /\ root \in [1..Len(rows) -> 1..Len(rows)]
    /\ byName \in [Names -> {0} \cup Scaled]
    /\ byId \in [ChannelIds -> {0} \cup Scaled]

Init ==
    /\ rows \in Tables
    /\ taken = 0
    /\ root = [i \in 1..Len(rows) |-> i]
    /\ byName = [n \in Names |-> 0]
    /\ byId = [c \in ChannelIds |-> 0]

-----------------------------------------------------------------------------
\* A mutation: the row itself is hung under the other's root, not its set.
JoinRow(r, i, j) == [r EXCEPT ![i] = r[j]]

\* join: parent[root(i)] = root(j).
Join(r, i, j) == [k \in DOMAIN r |-> IF r[k] = r[i] THEN r[j] ELSE r[k]]

\* A key seen before joins the row to the first that had it.
JoinedBy(r, i, j) == IF j = 0 THEN r ELSE Join(r, i, j)

\* One turn of the loop of lineages(): the name's key, then the Id's where there is one.
\* A row with no scale joins nothing.
TakeRow ==
    /\ taken < Len(rows)
    /\ taken' = taken + 1
    /\ LET i == taken + 1
           n == rows[i].name
           c == rows[i].channel_id
           named == JoinedBy(root, i, byName[n])
       IN IF rows[i].unit = NoScale
          THEN UNCHANGED <<root, byName, byId>>
          ELSE /\ byName' = IF byName[n] = 0 THEN [byName EXCEPT ![n] = i] ELSE byName
               /\ IF c = NoId
                  THEN root' = named /\ UNCHANGED byId
                  ELSE /\ root' = JoinedBy(named, i, byId[c])
                       /\ byId' = IF byId[c] = 0 THEN [byId EXCEPT ![c] = i] ELSE byId
    /\ UNCHANGED rows

Knit == taken = Len(rows)

-----------------------------------------------------------------------------
(* Columns.  A column is the set of its rows. *)

Columns == {{j \in Scaled : root[j] = root[i]} : i \in Scaled}

\* Strictly greater by the key of newest_row: the active row, else the last retired.
NewerRow(i, j) ==
    IF rows[i].retired_at = 0
    THEN rows[j].retired_at # 0
    ELSE rows[j].retired_at # 0 /\ rows[i].retired_at > rows[j].retired_at

\* newest_row: max() takes the first of several.
Newest(col) ==
    CHOOSE i \in col : \A j \in col : ~NewerRow(j, i) /\ (j < i => NewerRow(i, j))

Heading(col) == rows[Newest(col)].name

NamesOf(col) == {rows[i].name : i \in col}

\* The columns cols by their headings, which tell them apart.
ByHeading(cols) ==
    LET at == InOrder({Heading(col) : col \in cols})
    IN [k \in DOMAIN at |-> CHOOSE col \in cols : Heading(col) = at[k]]

\* A mutation: a column is found by its heading only.
MatchedByHeading(item) == ByHeading({col \in Columns : Heading(col) \in item.names})

\* The columns of one requested channel, an exact name or a pattern, which stands here
\* for the names it matches; the order by capture groups is that of the headings.
Matched(item) == ByHeading({col \in Columns : NamesOf(col) \cap item.names # {}})

\* select_columns.
Selected(request) ==
    IF \E k \in DOMAIN request : request[k].as = "all-data"
    THEN ByHeading(Columns)
    ELSE Looped(Len(request), <<>>,
                [p \in (1..Len(request)) \X Seq(Columns) |-> p[2] \o Matched(request[p[1]])])

\* numeric_columns.
Numeric(cols) == Filtered(cols, {col \in Columns : ~rows[Newest(col)].state})

-----------------------------------------------------------------------------
(* The rules of a column's cells. *)

\* The enum version a state row's positions are in.
VersionOf(row) == IF row.unit = Unversioned THEN Last(Versions) ELSE row.unit

Convertible(u, v) ==
    \/ u = v
    \/ {u, v} \subseteq DOMAIN Scales /\ Scales[u].quantity = Scales[v].quantity

\* A mutation: a column may have rows of both kinds.
ConflictOfKind(col) ==
    \/ \E i \in col : rows[i].state /\ VersionOf(rows[i]) \notin ToSet(Versions)
    \/ \E i \in col : ~rows[i].state /\ ~Convertible(rows[i].unit, rows[Newest(col)].unit)

\* UnitConflict of column_values, state_value and numeric_value.
Conflict(col) ==
    \/ \E i, j \in col : rows[i].state /\ ~rows[j].state
    \/ \E i \in col : rows[i].state /\ VersionOf(rows[i]) \notin ToSet(Versions)
    \/ \E i \in col : ~rows[i].state /\ ~Convertible(rows[i].unit, rows[Newest(col)].unit)

\* state_value: a position outside the enum stays a position.
Symbol(row, position) ==
    LET symbols == Symbols[VersionOf(row)] IN
    IF position \in 0..(Len(symbols) - 1) THEN symbols[position + 1] ELSE position

\* The finest part of a unit that a conversion may need.
Fine == ProductSet({Scales[u].per : u \in DOMAIN Scales})

\* numeric_value, affine_between: v stored in u as a number of the parts Fine of unit t.
Converted(v, u, t) ==
    IF u = t
    THEN v * Fine
    ELSE (Scales[t].per * (v - Scales[u].offset) + Scales[t].offset * Scales[u].per)
            * (Fine \div Scales[u].per)

-----------------------------------------------------------------------------
(* Properties. *)

\* A set of rows that has every row sharing a name or a channel Id with one of its own.
Closed(S) ==
    \A i \in S : \A j \in Scaled \ S :
        /\ rows[i].name # rows[j].name
        /\ rows[i].channel_id = NoId \/ rows[i].channel_id # rows[j].channel_id

\* Rows that no closed set tells apart: there is a chain of shared names and Ids.
Connected(i, j) == \A S \in SUBSET Scaled : Closed(S) => (i \in S <=> j \in S)

\* Whatever order renames and new Ids come in, two rows are of one lineage exactly when
\* a chain of shared names and channel Ids leads from one to the other (readings_units.py
\* lineages: "the connected sets").
LineagesExact == \A i, j \in Scaled : root[i] = root[j] <=> Connected(i, j)
=============================================================================
