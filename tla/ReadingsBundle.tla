--------------------------- MODULE ReadingsBundle ---------------------------
(***************************************************************************)
(* The synced readings bundle (api/v2/routers/synced_readings_bundle.py):  *)
(* the choice of a time step, the series of the lineages a request names   *)
(* (Lineages), the periods of late persistence made from the changes of    *)
(* the reports' delay, the sequences of the state machines, and the        *)
(* axioms the bundle is held to when it is made.                           *)
(*                                                                         *)
(* The averages of the series are TimescaleDB's and left out; its gapfill  *)
(* gives every series the same buckets, which the axiom on the lengths of  *)
(* the lists asks for.  Times are in ticks of the database's clock, of     *)
(* which a second has PerSecond and a millisecond PerMilli.  A time step   *)
(* that takes the window out of the calendar raises and is left out.       *)
(***************************************************************************)
EXTENDS ReadingsRequest

CONSTANTS
    Ends,           \* query.end of the requests
    StepsAsked,     \* the time steps asked for, 0 for none
    DefaultSteps,   \* DEFAULT_TIME_STEPS
    MaxPoints,      \* settings.max_reading_points
    PerSecond,
    PerMilli,
    UnitsTaken,     \* the units of the two vocabularies a bundle takes
    ReportLists,    \* the reports there may be, by time: when, and whether delayed
    Machines        \* the states there may be of each table's rows, by time

\* The order of the full start and end is what check_start_end asks for; time_step is not
\* validated.
ASSUME BundleAssumption ==
    /\ Ends \subseteq {e \in Nat : Start < e}
    /\ StepsAsked \subseteq Int
    /\ DefaultSteps \subseteq Nat \ {0}
    /\ MaxPoints \in Nat \ {0}
    /\ PerSecond \in Nat \ {0} /\ PerMilli \in Nat \ {0}
    /\ ReportLists \subseteq Seq([at : Nat, delayed : BOOLEAN])
    /\ DOMAIN Machines = Tables
    /\ \A t \in Tables :
          Machines[t] \subseteq Seq([row : {i \in DOMAIN t : t[i].state}, at : Nat, position : Nat])
    /\ \A s \in ReportLists \cup UNION {Machines[t] : t \in Tables} :
          \A i \in 2..Len(s) : s[i - 1].at <= s[i].at

VARIABLES
    end,        \* query.end
    asked,      \* query.time_step
    series,     \* the columns of channel_readings_list
    reports,    \* the reports the query of delays saw, until its loop is done
    turn,       \* how many rows the loop at hand has taken
    delayStart, \* delay_start, NoDelay for None
    periods,    \* late_persistence_time_period_list
    states,     \* the readings the query of states returned
    sequences   \* operating_state_sequence_list, by name; <<>> for none

bundleVars == <<end, asked, series, reports, turn, delayStart, periods, states, sequences>>

allBundleVars == <<knitVars, phase, bundleVars>>

NoDelay == -1

BundleInit ==
    /\ Init
    /\ phase = "asked"
    /\ end \in Ends
    /\ asked \in StepsAsked
    /\ series = <<>>
    /\ reports = <<>>
    /\ turn = 0
    /\ delayStart = NoDelay
    /\ periods = <<>>
    /\ states = <<>>
    /\ sequences = [n \in Names |-> <<>>]

\* datetime_to_sema cuts to the second, from_datetime to the millisecond.
SecondOf(t) == t \div PerSecond
MilliOf(t) == t \div PerMilli

-----------------------------------------------------------------------------
\* A mutation: the last point is not counted.
PointsBetween(r, step) == r \div (step * PerSecond)

\* num_points_requested, of a range of r ticks.
Points(r, step) == r \div (step * PerSecond) + 1

\* The default steps that are no smaller than range / max_reading_points.
Fitting(r) == {i \in DefaultSteps : i * PerSecond * MaxPoints >= r}

\* time_step_seconds; no default step may be large enough, which next() raises for.
StepOf == IF asked # 0 THEN asked ELSE Min(Fitting(end - Start))

Stepped == asked # 0 \/ Fitting(end - Start) # {}

\* get_readings before its first query.  A negative step makes less than one point.
ChooseStep ==
    /\ phase = "asked"
    /\ phase' = CASE ~Stepped -> "failed"
                  [] Stepped /\ StepOf > 0 /\ Points(end - Start, StepOf) > MaxPoints -> "too_many"
                  [] OTHER -> "knitting"
    /\ UNCHANGED <<knitVars, end, asked, series, reports, turn, delayStart, periods, states, sequences>>

KnitForBundle == KnitRow /\ UNCHANGED bundleVars

\* What the WHERE of a query leaves of the rows there are.
InRange(s) == Filtered(s, {r \in ToSet(s) : r.at \in Start..end})

\* query_readings_with_times: the numeric columns of those selected, less those the
\* averages had no bucket of; or the refusal; or the database's, of a bucket of no length.
\* Then the csv is sent, if it is what was asked for, or the delays are queried.
Read ==
    /\ phase = "knitting" /\ Knit
    /\ \E request \in Requests :
          LET columns == Numeric(Selected(request)) IN
          IF \E col \in ToSet(columns) : Conflict(col)
          THEN phase' = "conflict" /\ UNCHANGED <<series, reports>>
          ELSE IF StepOf < 0 /\ columns # <<>>
               THEN phase' = "failed" /\ UNCHANGED <<series, reports>>
               ELSE /\ \E heard \in SUBSET ToSet(columns) : series' = Filtered(columns, heard)
                    /\ \/ phase' = "downloaded" /\ UNCHANGED reports
                       \/ phase' = "delays" /\ \E s \in ReportLists : reports' = InRange(s)
    /\ UNCHANGED <<knitVars, end, asked, turn, delayStart, periods, states, sequences>>

-----------------------------------------------------------------------------
\* is_delayed_changed is null, or true: the first report and each whose delay is not
\* that of the one before.
Changes ==
    LET changed == {i \in DOMAIN reports : i = 1 \/ reports[i].delayed # reports[i - 1].delayed}
        at == InOrder(changed)
    IN [k \in DOMAIN at |-> reports[at[k]]]

\* A mutation: an end is rounded to the nearest second.
PeriodRounded(from, to) == <<SecondOf(from), SecondOf(to + PerSecond \div 2)>>

Period(from, to) == <<SecondOf(from), SecondOf(to)>>

\* One turn of the loop of query_late_persistence.
TakeChange ==
    /\ phase = "delays"
    /\ turn < Len(Changes)
    /\ turn' = turn + 1
    /\ LET change == Changes[turn + 1] IN
       IF change.delayed
       THEN delayStart' = change.at /\ UNCHANGED periods
       ELSE IF delayStart # NoDelay
            THEN /\ periods' = Append(periods, Period(delayStart, change.at))
                 /\ delayStart' = NoDelay
            ELSE UNCHANGED <<delayStart, periods>>
    /\ UNCHANGED <<knitVars, phase, end, asked, series, reports, states, sequences>>

\* A mutation: a delay that lasts is dropped.
DropDelay == periods

\* A delay that lasts to the end of the window ends there.
LastPeriods ==
    IF delayStart # NoDelay THEN Append(periods, Period(delayStart, end)) ELSE periods

\* The end of query_late_persistence, and the query of states; a row whose enum is not
\* vendored has no rule.
EndDelays ==
    /\ phase = "delays"
    /\ turn = Len(Changes)
    /\ periods' = LastPeriods
    /\ \E s \in Machines[rows] :
          states' = Filtered(InRange(s), {r \in ToSet(s) : VersionOf(rows[r.row]) \in ToSet(Versions)})
    /\ phase' = "states"
    /\ turn' = 0
    /\ reports' = <<>>
    /\ UNCHANGED <<knitVars, end, asked, series, delayStart, sequences>>

\* A mutation: a second change at the same millisecond is skipped.
FirstOfMilli(sequence, at, symbol) ==
    IF sequence # <<>> /\ (Last(sequence).at = at \/ Last(sequence).symbol = symbol)
    THEN sequence
    ELSE Append(sequence, [at |-> at, symbol |-> symbol])

\* A symbol of a reading at the millisecond at, after the sequence so far.
Extended(sequence, at, symbol) ==
    IF sequence # <<>> /\ Last(sequence).at = at
    THEN [sequence EXCEPT ![Len(sequence)].symbol = symbol]
    ELSE IF sequence # <<>> /\ Last(sequence).symbol = symbol
         THEN sequence
         ELSE Append(sequence, [at |-> at, symbol |-> symbol])

\* The position is one of the enum.
Named(r) == r.position < Len(Symbols[VersionOf(rows[r.row])])

\* One turn of the loop of query_operating_state_sequences.
TakeState ==
    /\ phase = "states"
    /\ turn < Len(states)
    /\ turn' = turn + 1
    /\ LET r == states[turn + 1]
           n == rows[r.row].name
       IN sequences' =
             IF Named(r)
             THEN [sequences EXCEPT ![n] = Extended(@, MilliOf(r.at), Symbol(rows[r.row], r.position))]
             ELSE sequences
    /\ UNCHANGED <<knitVars, phase, end, asked, series, reports, delayStart, periods, states>>

-----------------------------------------------------------------------------
(* The axioms of SyncedReadingsBundle and OperatingStateSequence the program *)
(* does not meet by the types of what it passes.                             *)

NamesUnique == IsInjective([k \in DOMAIN series |-> Heading(series[k])])

\* Both ends are cut to the second.
SpanProper == SecondOf(Start) < SecondOf(end)

UnitsKnown == \A col \in ToSet(series) : rows[Newest(col)].unit \in UnitsTaken

PeriodsWellFormed ==
    \A k \in DOMAIN periods :
        /\ periods[k][1] < periods[k][2]
        /\ SecondOf(Start) <= periods[k][1] /\ periods[k][2] <= SecondOf(end)

\* SyncedReadingsBundle(...): a validator that raises fails the request.
MakeBundle ==
    /\ phase = "states"
    /\ turn = Len(states)
    /\ phase' = IF NamesUnique /\ SpanProper /\ UnitsKnown /\ PeriodsWellFormed
                THEN "answered"
                ELSE "failed"
    /\ UNCHANGED <<knitVars, end, asked, series, reports, turn, delayStart, periods, states, sequences>>

BundleNext ==
    ChooseStep \/ KnitForBundle \/ Read \/ TakeChange \/ EndDelays \/ TakeState \/ MakeBundle

BundleSpec == BundleInit /\ [][BundleNext]_allBundleVars

-----------------------------------------------------------------------------
(* Properties. *)

\* What is sent of a machine is symbols, never a position, of rows whose enum the
\* snapshot has.
BundleTypeOK ==
    /\ TypeOK
    /\ phase \in {"asked", "too_many", "knitting", "conflict", "downloaded", "delays", "states",
                  "answered", "failed"}
    /\ end \in Ends /\ asked \in StepsAsked
    /\ series \in Seq(Columns)
    /\ turn \in 0..(Len(reports) + Len(states))
    /\ delayStart \in {NoDelay} \cup Start..end
    /\ periods \in Seq((SecondOf(Start)..SecondOf(end)) \X (SecondOf(Start)..SecondOf(end)))
    /\ sequences \in [Names -> Seq([at : MilliOf(Start)..MilliOf(end),
                                     symbol : UNION {ToSet(Symbols[v]) : v \in ToSet(Versions)}])]

\* The report whose delay holds at t.
Latest(t) == Max({0} \cup {i \in DOMAIN reports : reports[i].at <= t})

DelayedAt(t) == Latest(t) # 0 /\ reports[Latest(t)].delayed

\* The periods are those of the reports, to the second they are told in: every time at
\* which the last report was a delayed one is in a period, every second of a period has
\* such a time, and the periods are in order and apart (query_late_persistence).
LateExact ==
    phase = "delays" /\ turn = Len(Changes) =>
        LET late == LastPeriods IN
        /\ \A k \in 2..Len(late) : late[k - 1][2] <= late[k][1]
        /\ \A t \in Start..(end - 1) :
              DelayedAt(t) => \E p \in ToSet(late) : p[1] <= SecondOf(t) /\ SecondOf(t) <= p[2]
        /\ \A p \in ToSet(late) : \A s \in p[1]..(p[2] - 1) :
              \E t \in Start..end : SecondOf(t) = s /\ DelayedAt(t)

\* The readings of states taken that have a symbol and are of machine n.
StatesOf(n) == {i \in 1..turn : rows[states[i].row].name = n /\ Named(states[i])}

\* A machine's sequence tells its state at every millisecond: the last entry up to it has
\* the symbol of the last reading up to it, under whichever row and version of the enum
\* it came; its times increase strictly (query_operating_state_sequences).
SequencesExact ==
    phase = "states" =>
        \A n \in Names :
            LET sequence == sequences[n]
                EntryAt(t) == Max({0} \cup {k \in DOMAIN sequence : sequence[k].at <= t})
                ReadingAt(t) == Max({0} \cup {i \in StatesOf(n) : MilliOf(states[i].at) <= t})
            IN /\ \A k \in 2..Len(sequence) : sequence[k - 1].at < sequence[k].at
               /\ \A t \in MilliOf(Start)..MilliOf(end) :
                     /\ EntryAt(t) = 0 <=> ReadingAt(t) = 0
                     /\ EntryAt(t) # 0 =>
                           LET r == states[ReadingAt(t)] IN
                           sequence[EntryAt(t)].symbol = Symbol(rows[r.row], r.position)

\* A bundle can be made exactly when no channel is asked for by two of its names, every
\* series has a unit the bundle knows, the window does not lie within one second, and no
\* delay begins in the second it ends in: the axioms ask for no more of what the queries
\* return.  Before that a request fails only for its step, and is turned down for its
\* points exactly when there are too many, which with the service's own step is only at
\* the edge, where the last point is one more than the step was chosen for (get_readings).
FailsExactly ==
    LET step == StepOf
        points == Cardinality({t \in 0..(end - Start) : t % (step * PerSecond) = 0})
        unmade == \/ \E j, k \in DOMAIN series : j < k /\ series[j] = series[k]
                  \/ \E k \in DOMAIN series : rows[Newest(series[k])].unit \notin UnitsTaken
                  \/ SecondOf(Start) = SecondOf(end)
                  \/ \E k \in DOMAIN periods : periods[k][1] = periods[k][2]
    IN /\ phase = "failed" =>
             \/ asked = 0 /\ \A i \in DefaultSteps : i * MaxPoints * PerSecond < end - Start
             \/ asked < 0
             \/ unmade
       /\ phase = "answered" => ~unmade
       /\ phase = "too_many" =>
             /\ step > 0 /\ points > MaxPoints
             /\ asked = 0 => end - Start = MaxPoints * step * PerSecond
       /\ phase \notin {"asked", "too_many", "failed"} => step < 0 \/ points <= MaxPoints
=============================================================================
