----------------------------- MODULE RouteReads ------------------------------
(***************************************************************************)
(* Requests that one read of the database answers.  The read is one        *)
(* statement, so nothing comes between the parts of it; what can be wrong  *)
(* is what the statement joins, picks, orders and decodes.  Inputs is the  *)
(* set of what may be asked of which tables, Answer the handlers.          *)
(***************************************************************************)
EXTENDS Summaries, HourlyElectricity, JournalReads, LegacyMessages, LegacyCsv

CONSTANTS
    Inputs,     \* of each kind, records of what is asked and what the tables hold; a request
                \* about a weather bundle is for its record or for its forecasts
    OwnerOf     \* the house of each sender

\* A house has one sender, whose alias begins with the house's.
ASSUME RouteReadsAssumption ==
    /\ OwnerOf \in [Senders -> Houses]
    /\ \A s, t \in Senders : OwnerOf[s] = OwnerOf[t] => s = t
    /\ \A s \in Senders : s \in Starts[OwnerOf[s]]

ASSUME InputsAssumption ==
    \A q \in Inputs :
        CASE q.kind = "summaries" -> IsFleet(q)
          [] q.kind = "electricity" -> IsHourly(q)
          [] q.kind = "messages" -> IsJournal(q.journal) /\ q.start \in Int /\ q.end \in Int
          [] q.kind = "forecasts" -> IsJournal(q.journal) /\ q.start \in Int /\ q.end \in Int
          [] q.kind = "message list" -> IsPersisted(q.journal) /\ q.start \in Int /\ q.end \in Int
          [] q.kind = "csv" -> IsCollection(q)
          [] q.kind = "cell" -> q.line \in Int /\ IsFiniteSet(q.readings) /\ q.readings \subseteq Reading

VARIABLES asked, answer

readsVars == <<asked, answer>>

Unanswered == Without("unanswered")

ReadsInit ==
    /\ asked \in Inputs
    /\ answer = Unanswered

AnswerSummaries == asked.kind = "summaries" /\ answer' \in Answers(asked)

AnswerElectricity == asked.kind = "electricity" /\ answer' = Electricity(asked)

AnswerMessages == asked.kind = "messages" /\ answer' = Messages(asked)

AnswerForecasts ==
    /\ asked.kind = "forecasts"
    /\ answer' = IF asked.record THEN BundleRecord(asked) ELSE Forecasts(asked)

AnswerMessageList == asked.kind = "message list" /\ answer' = MessageList(asked)

AnswerCsv == asked.kind = "csv" /\ answer' = Gathered(asked)

AnswerCell ==
    /\ asked.kind = "cell"
    /\ IF Cells(asked.readings, asked.line) = {} THEN answer' = Without("empty")
       ELSE \E v \in Cells(asked.readings, asked.line) : answer' = Data(v)

ReadsNext ==
    /\ answer = Unanswered
    /\ \/ AnswerSummaries
       \/ AnswerElectricity
       \/ AnswerMessages
       \/ AnswerForecasts
       \/ AnswerMessageList
       \/ AnswerCsv
       \/ AnswerCell
    /\ UNCHANGED asked

ReadsSpec == ReadsInit /\ [][ReadsNext]_readsVars

-----------------------------------------------------------------------------
(* Properties. *)

\* An answer of a kind, not that the request failed.
Answered(kind) == asked.kind = kind /\ answer.is = "data"

\* The houses that a login sees.
Visible == {h \in Houses : RolesFor(asked.roles, h) # {}}

\* "The houses the login may see, one gw.house.summary instance each": every house is
\* there, and it is there once, with its own newest snapshot, if one role row is for it
\* and its alias begins no other house's (get_summaries' joins).
OneSummaryEach ==
    Answered("summaries") =>
        /\ {s.house : s \in answer.of} = Visible
        /\ \A h \in Visible :
              /\ Cardinality(RolesFor(asked.roles, h)) = 1
              /\ \A s \in Starts[h] : OwnerOf[s] = h
              => \E s \in answer.of :
                    /\ {r \in answer.of : r.house = h} = {s}
                    /\ s.snapshot = NoSender
                          <=> \A m \in Senders : OwnerOf[m] = h => asked.snapshot[m] = None

\* "The summary word names the layout versions it can carry; a newer layouts row waits for
\* the summary's next version", its "Layout left null" (get_summaries): no layout, of
\* whatever version, keeps the houses from being listed, so that the list fails only by a
\* visible house's status of an unknown version, or a snapshot not of the latest.
NewerLayoutWaits ==
    asked.kind = "summaries" /\ answer.is = "error" =>
        \E h \in Visible :
            \/ asked.status[h] > 0
            \/ \E s \in Starts[h] : asked.snapshot[s] \notin {None, 3}

\* A channel that was read at every time of the last day.
Steady(z) == DOMAIN asked.calls[z] = (asked.now - Day)..asked.now

\* Since when such a channel has called, if its call began within the day.
CallBegan(z) ==
    {t \in (asked.now - Day + 1)..asked.now :
        /\ asked.calls[z][t - 1] = 0
        /\ \A u \in t..asked.now : asked.calls[z][u] = 1}

\* A house whose channels are read steadily shows a zone that has called the longest of
\* those whose calls began within the day, and the last time it did not call; without
\* such a call it shows none (get_summaries' heat_calls).
LongestCallShown ==
    Answered("summaries") =>
        \A s \in answer.of :
            LET zones == {z \in Zones : HouseOf[z] = s.house}
                calling == {z \in zones : CallBegan(z) # {}}
            IN (\A z \in zones : Steady(z)) =>
                IF calling = {} THEN s.zone = NoZone
                ELSE /\ s.zone \in calling
                     /\ CallBegan(s.zone) = {s.start + 1}
                     /\ \A z \in calling : \A t \in CallBegan(z) : t > s.start

\* An hour's sum has each house once, of the houses the login may see the data of: as
\* owner or admin, or any role if what is asked for ended ten days ago; a house with two
\* rows that count is not covered (get_hourly_electricity's SUM over a join).
ElectricityOnce ==
    Answered("electricity") =>
        LET may == {h \in asked.houses :
                       \E r \in asked.roles :
                          /\ r.house \in {h, EveryHouse}
                          /\ r.role \notin {"owner", "admin"} => asked.end + OpenAge < asked.now}
            kwh(t) == SumOf([h \in may |-> IF t \in DOMAIN asked.kwh[h] THEN asked.kwh[h][t] ELSE 0],
                            may)
        IN (\A h \in asked.houses : Cardinality(RolesFor(asked.roles, h)) <= 1) =>
              \A t \in asked.start..asked.end :
                 IF t \in DOMAIN answer.of THEN answer.of[t] = kwh(t) ELSE kwh(t) = 0

\* What a limited answer leaves out lies on one side of it: of messages what is no
\* earlier than its last, of forecasts what is no later than its first.  An answer below
\* the limit leaves nothing out, so that a window can be read on from its edge
\* (get_messages, get_forecasts).
PagesWhole ==
    /\ Answered("messages") =>
        LET rows == {m \in Range(asked.journal) :
                        /\ asked.start <= m.time /\ m.time <= asked.end
                        /\ m.type \in asked.types /\ m.type \in AllowedTypes
                        /\ m.from \in asked.from}
        IN \A m \in rows :
              \/ \E i \in DOMAIN answer.of : [answer.of[i] EXCEPT !.version = m.version] = m
              \/ Len(answer.of) = MaxMessages /\ \A i \in DOMAIN answer.of : answer.of[i].time <= m.time
    /\ Answered("forecasts") /\ asked.record = FALSE =>
        /\ \A i, j \in DOMAIN answer.of : i < j => answer.of[i].time <= answer.of[j].time
        /\ \A m \in Range(asked.journal) :
              /\ m.type = "gw.weather.forecast" /\ m.from = asked.bundle
              /\ asked.start <= m.time /\ m.time <= asked.end
              => \/ m \in Range(answer.of)
                 \/ Len(answer.of) = MaxForecasts /\ \A i \in DOMAIN answer.of : m.time <= answer.of[i].time

\* The legacy list fails by one message it cannot place, and otherwise has each problem
\* and each glitch that was asked for once, of one type nothing before what is worse or as
\* bad and older; its table adds up to the journal (get_messages of the legacy backend).
WorstFirst ==
    asked.kind = "message list" /\ answer # Unanswered /\ answer.is # "refused" =>
        LET of(type) == {i \in DOMAIN asked.journal :
                           LET m == asked.journal[i] IN
                           /\ asked.start <= m.persisted /\ m.persisted <= asked.end
                           /\ m.type = type /\ type \in asked.types
                           /\ asked.houses # {} => m.from \in asked.houses}
            placed == of("gridworks.event.problem") \cup of("glitch")
            worse(m, n) == LevelRank(m.level) < LevelRank(n.level)
        IN /\ answer.is = "error" <=> \E i \in placed : ~LevelKnown(asked.journal[i])
           /\ answer.is = "data" =>
              LET rows == answer.of.rows IN
              /\ \A m \in Range(asked.journal) \cup Range(rows) :
                    Cardinality({k \in DOMAIN rows : rows[k] = m})
                        = Cardinality({i \in placed : asked.journal[i] = m})
              /\ \A j, k \in DOMAIN rows :
                    j < k /\ rows[j].type = rows[k].type =>
                        /\ ~worse(rows[k], rows[j])
                        /\ rows[k].created < rows[j].created => worse(rows[j], rows[k])
              /\ \A level \in Range(Levels) :
                    answer.of.table[level]
                        = Cardinality({i \in placed : asked.journal[i].level = level})

\* The lists of the reports asked about, and whether their channels are all known.
Lists == UNION {Range(report) : report \in Range(asked.reports)}

AllKnown == \A list \in Lists : list.named \/ list.declared

\* If the reports declare every Id, a channel has all the readings of its own good lists
\* in whatever order they came, and besides them only its own readings of snapshots that
\* were persisted since the last reading (get_data).
ChannelsKept ==
    asked.kind = "csv" /\ answer # Unanswered /\ AllKnown =>
        LET good(c) == {list \in Lists : list.channel = c /\ ~list.bad}
            of(c) == UNION {list.readings : list \in good(c)}
            times == {r.time : r \in UNION {of(c) : c \in Channels}}
            late(c) == UNION {s.readings[c] : s \in {s \in asked.snapshots :
                                                        \A t \in times : s.persisted >= t}}
        IN IF times = {} THEN answer.is = "no data"
           ELSE answer.is = "data" /\ \A c \in Channels :
                   answer.of[c] = IF of(c) = {} THEN {} ELSE of(c) \cup late(c)

\* A line has a channel's last reading up to the line's time, the greatest of several at
\* that time, or nothing before the first; of readings in the hour that local clocks
\* repeat, or in the hour before, this does not hold (resample_channel).
CellsLatest ==
    asked.kind = "cell" /\ answer # Unanswered =>
        LET readings == asked.readings
            up == {r \in readings : r.time <= asked.line}
        IN (\A r \in readings : r.time \notin (FallBack - Hour)..(FallBack + Hour - 1)) =>
              IF up = {} THEN answer.is = "empty"
              ELSE \E r \in up : answer = Data(r.value)
                      /\ \A s \in up : s.time < r.time \/ (s.time = r.time /\ s.value <= r.value)
=============================================================================
