---------------------------- MODULE MCRouteReads ----------------------------
(* Small instances of RouteReads: two houses, the alias of one of which begins the
   other's, and tables with every combination of a few rows. *)
EXTENDS RouteReads, TLC

CONSTANTS elm, elm2, elmScada, elm2Scada, kitchen, bath, hall, tank, pump

MCStarts == elm :> {elmScada, elm2Scada} @@ elm2 :> {elm2Scada}

MCOwnerOf == elmScada :> elm @@ elm2Scada :> elm2

MCHouseOf == kitchen :> elm @@ bath :> elm @@ hall :> elm2

Role(role, house) == [role |-> role, house |-> house]

Rolesets == SUBSET {Role("viewer", elm), Role("owner", elm2), Role("admin", EveryHouse)}

Now == 3

Partial(times, values) == UNION {[part -> values] : part \in SUBSET times}

\* What versions the houses' rows have, without calls.
VersionInputs ==
    [kind : {"summaries"}, roles : Rolesets, layout : [Houses -> {None, 6, 13, 14}],
     status : [Houses -> {None, 0, 1}], snapshot : [Senders -> {None, 2, 3}],
     calls : {[z \in Zones |-> <<>>]}, now : {Now}]

\* Which zones have called, at up to four times of which the first is over a day ago.
CallInputs ==
    {[kind |-> "summaries", roles |-> {Role("admin", EveryHouse)},
      layout |-> [h \in Houses |-> 13], status |-> [h \in Houses |-> 0],
      snapshot |-> [s \in Senders |-> 3], now |-> Now,
      calls |-> kitchen :> one @@ bath :> other @@ hall :> one] :
        one \in Partial(0..Now, {0, 1}), other \in Partial(0..Now, {0, 1})}

ElectricityInputs ==
    {[kind |-> "electricity", roles |-> roles, houses |-> houses, malformed |-> malformed,
      kwh |-> elm :> [t \in hours |-> 1] @@ elm2 :> [t \in others |-> 2],
      start |-> span[1], end |-> span[2], now |-> now] :
        roles \in Rolesets \cup {{Role("tenant", elm), Role("viewer", elm2)}},
        houses \in SUBSET Houses, malformed \in BOOLEAN,
        hours \in SUBSET (1..2), others \in SUBSET (1..2),
        span \in {<<1, 2>>, <<1, 3>>, <<2, 3>>}, now \in 2..5}

Message(time, type, version, from) ==
    [time |-> time, type |-> type, version |-> version, from |-> from]

Journals(pool) ==
    {s \in BoundedSeq(pool, 3) : \A i, j \in DOMAIN s : i < j => s[i].time <= s[j].time}

MessageInputs ==
    [kind : {"messages"},
     journal : Journals(UNION {{Message(t, "glitch", 0, elm), Message(t, "glitch", 7, elm),
                                Message(t, "weather.forecast", 0, elm2)} : t \in 1..3}),
     types : {{"glitch"}, {"glitch", "weather.forecast", "report"}},
     from : {{elm}, Houses}, start : {1}, end : 2..3]

ForecastInputs ==
    [kind : {"forecasts"}, record : BOOLEAN, bundle : {elm}, start : {1, 2}, end : {3},
     journal : Journals(UNION {{Message(t, "gw.weather.forecast", 1, elm),
                                Message(t, "gw.weather.forecast", 2, elm),
                                Message(t, "gw.weather.forecast.bundle.gt", t, elm)} : t \in 1..3}
                        \cup {Message(2, "gw.weather.forecast", 3, elm),
                              Message(2, "gw.weather.forecast", 2, elm2)})]

Kept(persisted, created, type, from, level, capital) ==
    [persisted |-> persisted, created |-> created, type |-> type, from |-> from,
     level |-> level, capital |-> capital]

Keepable(t) ==
    {Kept(t, t, "gridworks.event.problem", elm, "error", FALSE),
     Kept(t, t, "gridworks.event.problem", elm2, "error", TRUE),
     Kept(t, 0, "gridworks.event.problem", elm2, "critical", FALSE),
     Kept(t, t, "glitch", elm, "error", TRUE), Kept(t, 0, "glitch", elm, "info", FALSE),
     Kept(t, t, "glitch", elm2, "notice", FALSE), Kept(t, t, "report", elm, "none", FALSE)}

MessageListInputs ==
    [kind : {"message list"}, locally : BOOLEAN, start : {1}, end : {2, 3},
     types : {{"glitch"}, {"glitch", "gridworks.event.problem", "report"}},
     houses : {{}, {elm}},
     journal : {s \in BoundedSeq(Keepable(1) \cup Keepable(2), 3) :
                  \A i, j \in DOMAIN s : i < j => s[i].persisted <= s[j].persisted}]

ReadingAt(time, value) == [time |-> time, value |-> value]

List(channel, reading, bad, named, declared) ==
    [channel |-> channel, readings |-> {reading}, bad |-> bad, named |-> named,
     declared |-> declared]

ReportLists ==
    {List(tank, ReadingAt(1, 1), FALSE, TRUE, FALSE), List(tank, ReadingAt(2, 2), FALSE, FALSE, TRUE),
     List(tank, ReadingAt(3, 1), TRUE, TRUE, FALSE), List(pump, ReadingAt(3, 1), FALSE, TRUE, FALSE),
     List(pump, ReadingAt(1, 2), FALSE, FALSE, FALSE)}

SnapshotOf(t) == [persisted |-> t, readings |-> [c \in Channels |-> {ReadingAt(t - 1, 3)}]]

CsvInputs ==
    [kind : {"csv"}, reports : BoundedSeq(BoundedSeq(ReportLists, 2), 2),
     snapshots : SUBSET {SnapshotOf(2), SnapshotOf(4)}]

CellInputs ==
    [kind : {"cell"}, line : 0..8,
     readings : UNION {kSubset(n, {ReadingAt(t, v) : t \in 0..7, v \in 1..2}) : n \in 0..3}]

MCInputs ==
    VersionInputs \cup CallInputs \cup ElectricityInputs \cup MessageInputs
    \cup ForecastInputs \cup MessageListInputs \cup CsvInputs \cup CellInputs
=============================================================================
