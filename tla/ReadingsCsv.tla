----------------------------- MODULE ReadingsCsv -----------------------------
(***************************************************************************)
(* The download of readings (api/v2/routers/readings_csv.py): the rows of  *)
(* the house are knit into lineages (Lineages), the request picks columns, *)
(* and csv_generator makes one line of the table for each time step out of *)
(* the stream of readings, which it looks back into so that the first line *)
(* has something to carry forward.                                         *)
(*                                                                         *)
(* A reading has the place of its row, the time it was taken and the truth *)
(* the house meant by it: a quantity in its reference unit, the symbol of  *)
(* a state, or the number itself for a unit that converts into no other.   *)
(* What the database stores of it follows from the row's unit (Stored).    *)
(* Time is in an integer unit of its own; Streams bounds the readings.     *)
(***************************************************************************)
EXTENDS ReadingsRequest

CONSTANTS
    None,
    Streams,        \* the readings there may be of each table's rows, by time
    End,            \* query.end
    Step,           \* query.time_step
    LookBack        \* the thirty minutes

\* The window of the query of readings.
DbStart == Start - Step * (LookBack \div Step)
DbEnd == End + Step

InWindow(r) == r.at \in DbStart..DbEnd

\* A truth that is stored exactly under the row.
Truthful(row, truth) ==
    IF row.state
    THEN VersionOf(row) \in ToSet(Versions) => truth \in ToSet(Symbols[VersionOf(row)])
    ELSE truth \in Int

\* The table of a request has the rows with a reading in the window.  Nothing validates
\* time_step; only a positive one is modelled.  Zero raises where the window is reckoned
\* (a division), and with a negative one the loop over the buckets runs backwards.
ASSUME CsvAssumption ==
    /\ End \in Nat /\ Start < End
    /\ Step \in Nat \ {0}
    /\ LookBack \in Nat
    /\ DOMAIN Streams = Tables
    /\ \A t \in Tables : \A s \in Streams[t] :
          /\ s \in Seq(ToSet(s))
          /\ \A i \in 1..Len(s) : s[i].row \in DOMAIN t /\ s[i].at \in Int
          /\ \A i \in 2..Len(s) : s[i - 1].at <= s[i].at
          /\ \A i \in 1..Len(s) : Truthful(t[s[i].row], s[i].truth)
          /\ \A j \in DOMAIN t : \E i \in 1..Len(s) : s[i].row = j /\ InWindow(s[i])

VARIABLES
    request,
    columns,    \* the columns it gets
    stream,     \* the readings of the columns' rows, in the order of their times
    next,       \* the place of current_reading_row
    bucket,     \* row_time_start
    collected,  \* current_row_readings: the places of the bucket's readings, by heading
    cells,      \* prev_row_values
    lines       \* the lines written

csvVars == <<request, columns, stream, next, bucket, collected, cells, lines>>

allCsvVars == <<knitVars, phase, csvVars>>

NoneCollected == [n \in Names |-> {}]

CsvInit ==
    /\ Init
    /\ phase = "knitting"
    /\ request = <<>>
    /\ columns = <<>>
    /\ stream = <<>>
    /\ next = 1
    /\ bucket = Start
    /\ collected = NoneCollected
    /\ cells = <<>>
    /\ lines = <<>>

-----------------------------------------------------------------------------

\* The bucket of the first reading, or the start when that is earlier.
FirstBucket(s) ==
    IF s = <<>> \/ s[1].at > Start
    THEN Start
    ELSE Start + Step * ((s[1].at - Start) \div Step)

KnitForCsv == KnitRow /\ UNCHANGED csvVars

\* get_readings: the columns, their rules or the refusal, the cursor; and csv_generator
\* to its loop, which it does not enter when there is no reading at all.
Answer ==
    /\ phase = "knitting" /\ Knit
    /\ request' \in Requests
    /\ columns' = Selected(request')
    /\ IF \E col \in ToSet(columns') : Conflict(col)
       THEN phase' = "refused" /\ UNCHANGED <<stream, bucket>>
       ELSE /\ \E s \in Streams[rows] :
                 stream' = Filtered(s, {r \in ToSet(s) : InWindow(r) /\ r.row \in UNION ToSet(columns')})
            /\ phase' = IF stream' = <<>> THEN "done" ELSE "reading"
            /\ bucket' = FirstBucket(stream')
    /\ UNCHANGED <<knitVars, next, collected, cells, lines>>

\* The heading of the column a row belongs to: rule.column.
RuleColumn(i) == Heading(CHOOSE col \in ToSet(columns) : i \in col)

\* A mutation: a reading at the end of a bucket is in it.
WithinClosed == next <= Len(stream) /\ stream[next].at <= bucket + Step

\* current_reading_row is there and of this bucket.
Within == next <= Len(stream) /\ stream[next].at < bucket + Step

TakeReading ==
    /\ phase = "reading"
    /\ bucket <= End
    /\ Within
    /\ collected' = [collected EXCEPT ![RuleColumn(stream[next].row)] = @ \cup {next}]
    /\ next' = next + 1
    /\ UNCHANGED <<knitVars, phase, request, columns, stream, bucket, cells, lines>>

\* The number, or position, that is stored of a reading.
Stored(r) ==
    LET row == rows[r.row] IN
    CASE row.state -> (CHOOSE k \in DOMAIN Symbols[VersionOf(row)] :
                          Symbols[VersionOf(row)][k] = r.truth) - 1
      [] ~row.state /\ row.unit \in DOMAIN Scales ->
            Scales[row.unit].per * r.truth + Scales[row.unit].offset
      [] OTHER -> r.truth

\* round() of n / d, half to even.
Round(n, d) ==
    LET q == n \div d
        r == n % d
    IN IF 2 * r < d \/ (2 * r = d /\ q % 2 = 0) THEN q ELSE q + 1

\* bucket_cell of the readings at the places ps of column col.
BucketCell(col, ps) ==
    LET unit == rows[Newest(col)].unit
        last == stream[Max(ps)]
        Part(p) == Converted(Stored(stream[p]), rows[stream[p].row].unit, unit)
    IN IF rows[last.row].state
       THEN Symbol(rows[last.row], Stored(last))
       ELSE Round(SumOf([p \in ps |-> Part(p)], ps), Cardinality(ps) * Fine)

\* row_values of the k-th column: its bucket's cell, or the cell of the line before.
RowValue(k) ==
    LET col == columns[k]
        ps == collected[Heading(col)]
    IN IF ps # {} THEN BucketCell(col, ps) ELSE IF cells # <<>> THEN cells[k] ELSE None

\* A mutation: the look-back is written too.
WrittenAlways(line) == Append(lines, line)

\* Buckets before the start are computed and not written.
Written(line) == IF bucket >= Start THEN Append(lines, line) ELSE lines

CloseBucket ==
    /\ phase = "reading"
    /\ bucket <= End
    /\ ~Within
    /\ cells' = [k \in DOMAIN columns |-> RowValue(k)]
    /\ lines' = Written([at |-> bucket, cells |-> cells'])
    /\ bucket' = bucket + Step
    /\ collected' = NoneCollected
    /\ UNCHANGED <<knitVars, phase, request, columns, stream, next>>

Finish ==
    /\ phase = "reading"
    /\ bucket > End
    /\ phase' = "done"
    /\ UNCHANGED <<knitVars, request, columns, stream, next, bucket, collected, cells, lines>>

CsvNext == KnitForCsv \/ Answer \/ TakeReading \/ CloseBucket \/ Finish

CsvSpec == CsvInit /\ [][CsvNext]_allCsvVars

-----------------------------------------------------------------------------
(* Properties. *)

CsvTypeOK ==
    /\ TypeOK
    /\ phase \in {"knitting", "refused", "reading", "done"}
    /\ \A k \in DOMAIN columns : columns[k] \in Columns
    /\ next \in 1..(Len(stream) + 1)
    /\ collected \in [Names -> SUBSET (1..(next - 1))]
    /\ bucket \in {Start + Step * k : k \in -LookBack..(End - Start + 1)}
    /\ cells # <<>> => Len(cells) = Len(columns)

\* A channel asked for by any of the names it has had comes whole, as one column with
\* every row that a chain of renames and new Ids leads to (readings_csv.py get_readings:
\* "a column asked for by one of its names comes whole").
AskedWhole ==
    phase # "knitting" =>
        \A i \in Scaled :
            \A k \in DOMAIN request :
                rows[i].name \in request[k].names =>
                    \E m \in DOMAIN columns : columns[m] = {j \in Scaled : Connected(i, j)}

\* A request is refused exactly when a lineage it asks for has two rows no conversion
\* leads between, or a state nobody can look up: no column mixes scales
\* (readings_units.py column_values, UnitConflict).
RefusedExactly ==
    phase # "knitting" =>
        (phase = "refused" <=>
            \E k \in DOMAIN columns : \E i, j \in columns[k] :
                \/ rows[i].state # rows[j].state
                \/ rows[i].state /\ rows[i].unit # Unversioned /\ rows[i].unit \notin ToSet(Versions)
                \/ ~rows[i].state /\ ~rows[j].state /\ ~Convertible(rows[i].unit, rows[j].unit))

\* The readings of a column in the bucket from t on.
ReadingsIn(col, t) ==
    {p \in DOMAIN stream : stream[p].row \in col /\ t <= stream[p].at /\ stream[p].at < t + Step}

\* What the newest row would have been sent for the truths of the readings ps.
TrueCell(col, ps) ==
    LET newest == rows[Newest(col)]
        sum == SumOf([p \in ps |-> stream[p].truth], ps)
    IN IF newest.state
       THEN stream[Max(ps)].truth
       ELSE IF newest.unit \in DOMAIN Scales
            THEN Round(Scales[newest.unit].per * sum + Cardinality(ps) * Scales[newest.unit].offset,
                       Cardinality(ps))
            ELSE Round(sum, Cardinality(ps))

\* Every cell of the table is what the house meant, in the unit of the newest row: the
\* mean or the last state of the last bucket up to the line's that has a reading of the
\* column, under whichever of its rows, and None when there is none (csv_generator).
CellsRight ==
    \A n \in DOMAIN lines : \A k \in DOMAIN columns :
        LET col == columns[k]
            heard == {b \in 0..(LookBack + lines[n].at) :
                         ReadingsIn(col, lines[n].at - Step * b) # {}}
        IN lines[n].cells[k] =
              IF heard = {} THEN None ELSE TrueCell(col, ReadingsIn(col, lines[n].at - Step * Min(heard)))

\* The table has a line for each time step from the start to the end, in order, and is
\* complete unless there was nothing to read (csv_generator).
LinesExact ==
    /\ \A n \in DOMAIN lines : lines[n].at = Start + Step * (n - 1) /\ lines[n].at <= End
    /\ phase = "done" => Len(lines) = IF stream = <<>> THEN 0 ELSE (End - Start) \div Step + 1
=============================================================================
