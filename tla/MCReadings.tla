------------------------------ MODULE MCReadings ------------------------------
(***************************************************************************)
(* A small instance of the two readers of readings, one request of either: *)
(*   - the csv of every table of a few rows of any shape, with one reading  *)
(*     each, and of a few tables of a house through a change of its layout, *)
(*     with their readings at any times around the window;                  *)
(*   - the bundle of a house with a channel renamed and another not, one    *)
(*     whose rows do not convert, one with a unit no bundle takes, and one  *)
(*     with a state machine under three versions of its enum, one of them   *)
(*     not vendored.                                                        *)
(***************************************************************************)
EXTENDS ReadingsCsv, ReadingsBundle

CONSTANTS a, b, off, on, idle

VARIABLE reader     \* the route that was asked

readersVars == <<reader, knitVars, phase, csvVars, bundleVars>>

MCScales ==
    [C10 |-> [quantity |-> "temperature", per |-> 10, offset |-> 0],
     F10 |-> [quantity |-> "temperature", per |-> 18, offset |-> 320]]

MCOtherUnits == {"Unknown", "Enum", "000", "001", "002", "PowerW", "Unlisted"}

MCVersions == <<"000", "001">>

\* Between the versions a symbol is put in front, and positions renumber.
MCSymbols == [v \in {"000", "001"} |-> IF v = "000" THEN <<off, on>> ELSE <<idle, off, on>>]

MCRow(n, c, u, s, t) == [name |-> n, channel_id |-> c, unit |-> u, state |-> s, retired_at |-> t]

\* Rows of any shape.
Forms == {<<"C10", FALSE, 0>>, <<"F10", FALSE, 1>>, <<"PowerW", FALSE, 1>>,
          <<"Unknown", FALSE, 0>>, <<"001", TRUE, 2>>}
AnyRow == {MCRow(n, c, f[1], f[2], f[3]) : n \in {1, 2}, c \in {a, b, NoId}, f \in Forms}
AnyTables == UNION {[1..n -> AnyRow] : n \in 1..3}

\* A new unit under one name, a rename under one Id, both at once with rows between, a
\* new version of an enum.
Eras ==
    {<<MCRow(1, a, "F10", FALSE, 1), MCRow(1, b, "C10", FALSE, 0)>>,
     <<MCRow(2, a, "C10", FALSE, 0), MCRow(1, a, "F10", FALSE, 1)>>,
     <<MCRow(1, NoId, "Enum", TRUE, 2), MCRow(1, NoId, "000", TRUE, 1)>>,
     <<MCRow(1, NoId, "001", TRUE, 0), MCRow(2, NoId, "PowerW", FALSE, 0)>>}

Renamed == <<MCRow(1, a, "F10", FALSE, 1), MCRow(2, a, "C10", FALSE, 0), MCRow(3, b, "PowerW", FALSE, 0)>>
Unreconciled == <<MCRow(1, a, "F10", FALSE, 1), MCRow(1, b, "PowerW", FALSE, 0)>>
Strange == <<MCRow(1, a, "Unlisted", FALSE, 0)>>
Machine == <<MCRow(1, NoId, "Enum", TRUE, 2), MCRow(1, NoId, "000", TRUE, 1), MCRow(1, NoId, "002", TRUE, 0)>>

BundleTables == {Renamed, Unreconciled, Strange, Machine}

MCTables == AnyTables \cup Eras \cup BundleTables

-----------------------------------------------------------------------------
MCTruths(row) == CASE row.state -> {off, on} [] ~row.state -> {20, 23}

FirstTruth(row) == CHOOSE t \in MCTruths(row) : TRUE

MCReadingsOf(t) ==
    {r \in [at : {2, 4, 5, 6, 7, 9}, row : DOMAIN t, truth : UNION {MCTruths(t[i]) : i \in DOMAIN t}] :
        r.truth \in MCTruths(t[r.row])}

\* The readings of a table: of the houses through a change any, of the others one of each row.
MCStreams ==
    [t \in MCTables |->
        IF t \in Eras
        THEN {s \in UNION {[1..n -> MCReadingsOf(t)] : n \in 2..3} :
                /\ \A i \in 2..Len(s) : s[i - 1].at <= s[i].at
                /\ \A j \in DOMAIN t : \E i \in 1..Len(s) : s[i].row = j /\ InWindow(s[i])}
        ELSE {[i \in DOMAIN t |-> [at |-> 5, row |-> i, truth |-> FirstTruth(t[i])]]}]

Sorted(S, n) ==
    {s \in UNION {[1..m -> S] : m \in 0..n} : \A i \in 2..Len(s) : s[i - 1].at <= s[i].at}

\* The service's own step, one asked for, and one nobody means.
MCStepsAsked == {-1, 0, 1}

MCReportLists == Sorted([at : {5, 9, 10, 13}, delayed : BOOLEAN], 3)

MCMachines ==
    [t \in MCTables |->
        IF t = Machine
        THEN Sorted([at : {5, 6, 7}, row : {1, 2}, position : {0, 1}]
                        \cup {[at |-> 8, row |-> 1, position |-> 3], [at |-> 8, row |-> 3, position |-> 0]}, 3)
        ELSE {<<>>}]

Name(n) == [as |-> "name", names |-> {n}]

MCRequests == {<<Name(1)>>, <<Name(2), Name(1)>>, <<[as |-> "all-data", names |-> {}]>>}

-----------------------------------------------------------------------------
\* The route that was not asked has nothing of its own.
CsvIdle ==
    /\ request = <<>> /\ columns = <<>> /\ stream = <<>> /\ next = 1 /\ bucket = Start
    /\ collected = NoneCollected /\ cells = <<>> /\ lines = <<>>

BundleIdle ==
    /\ end = Min(Ends) /\ asked = 0 /\ series = <<>> /\ reports = <<>> /\ turn = 0
    /\ delayStart = NoDelay /\ periods = <<>> /\ states = <<>> /\ sequences = [n \in Names |-> <<>>]

ReadersInit ==
    \/ reader = "csv" /\ CsvInit /\ BundleIdle
    \/ reader = "bundle" /\ rows \in BundleTables /\ BundleInit /\ CsvIdle

ReadersNext ==
    \/ reader = "csv" /\ CsvNext /\ UNCHANGED <<reader, bundleVars>>
    \/ reader = "bundle" /\ BundleNext /\ UNCHANGED <<reader, csvVars>>

ReadersSpec == ReadersInit /\ [][ReadersNext]_readersVars
=============================================================================
