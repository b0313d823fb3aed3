# Formal models of the GridWorks web backend

TLA+ modules that model the backend's own logic, TLC configurations that check
them on small instances, and proofs that the TLA+ proof system checks for every
value of the constants. `PROJECT.json` maps every definition to the lines of the
source it stands for and lists the runs, the hazards, the findings and the
theorems.

## 1. The system

Two processes on one host, each a single asyncio loop.

| part | source | state it keeps | operations |
|---|---|---|---|
| realtime gateway: store | `gateway/state.py` | one `HouseState` per short alias: layout, snapshot, report time, zone tracker, count of messages | `seed_layout`, `update_layout`, `update_snapshot`, `update_report`, `prune_all_zone_trackers` |
| realtime gateway: server | `gateway/server.py` | `ConnectionManager._clients`, one task per WebSocket | connect, cached messages, requests, broadcast, disconnect, health |
| realtime gateway: consumer | `gateway/consumer.py`, `gateway/layouts.py` | an exclusive queue for as long as a connection lasts | seed, bind, deliver, retry |
| commit standings | `api/v2/commit_standing.py` | `cache`: commit to standing and expiry | `standings`, `ask_github` |
| API v2 routes | `api/v2/routers/*`, `readings_units.py`, `shared_queries.py`, `dependencies.py` | none of their own, rows of two databases, `result.xlsx` | summaries, session, readings CSV, synced readings, hourly data, messages, alerts, forecasts, FLO download |
| legacy backend | `api/backend_api.py` | `self.data`, a dictionary keyed by request; `result.xlsx`; rows of the installations | plots, messages, CSV, FLO, electricity use, update of scada code |
| sema | `api/sema`, `gateway/sema` | none | generated types and codecs |
| offline | `side_quests`, `api/archive` | none | analyses run by hand |

How they interact. Scadas send `layout.lite`, `snapshot.spaceheat` and
`report.event` through a broker's exchange; the gateway's consumer takes them
from its queue one at a time, changes the store, and awaits the broadcast of the
change to the house's sockets before it takes the next. Each socket has an
endpoint task which sends the cached state on connection and on request. So two
tasks write to one socket, and every `await` of a send lets the other run. The
API's requests share the standings cache and, in the legacy backend, a
dictionary. The processes share nothing but the databases.

What is hard: the interleaving of tasks at awaits (gateway, standings, legacy
dictionary); clients that leave at any point; snapshots late or out of order;
messages lost with the exclusive queue; the order of seed, bind and send; a
restart that forgets the store; a database or a broker that is not there; a
cache whose clock was read before the calls. `PROJECT.json` "hazards" has each
with its line and the properties aimed at it, or why none is.

What makes each part correct:

- store and server: a client that is owed nothing has been shown its house as it
  is; nothing shown goes back in time; no client is told of another's house; the
  registry holds exactly the live endpoints; no client stops the consumer.
- consumer and seed: a house's layout is the last one the gateway could hear; it
  is never replaced by an older one; the consumer comes back from every failure.
- standings: an answer names every commit asked for, and none is older than the
  TTL; dirty commits are not asked about.
- routes: the choice of rows, zones, lineages and buckets agrees with its
  definition; a login is told of each of its houses once.
- sessions: a token is good only on the grounds it was given on. That others than
  owners and admins get only old data, and that a session changes its own user alone,
  is what the code says of itself; runs show where it does not hold.
- legacy backend: a request is answered with its own data unless it met an equal
  one, and leaves nothing behind.

## 2. Modules

| module | models | extends |
|---|---|---|
| `HouseState` | a house as a record; the store's updates as operators; the messages made from it (`state.py`) | |
| `RealtimeFeed` | the abstract promise to a viewer: shown the newest snapshot, at the time it is newest, in the end | |
| `Gateway` | the gateway process: consumer's handler, broadcast, endpoints, prune, restart (`server.py`) | `HouseState`; implements `RealtimeFeed` |
| `FleetStream` | how layouts get to the store: seed, queue, retries, crash (`layouts.py`, `consumer.py`, `lifespan`) | |
| `CommitStandings` | the standings cache with overlapping requests and time | |
| `Ordered` | what sorts, comprehensions, loops and sums leave, defined so that it can be proved about | |
| `ZoneTracker` | the points of a house's zones, their pruning, and the zone whose series is sent (`state.py`) | `Ordered` |
| `Lineages` | the `reading_channels` rows of a house knit into columns, the choice of columns, their units (`readings_units.py`) | `Ordered` |
| `ReadingsRequest` | what the two readers of readings have in common: the request, its start, the knitting of rows | `Lineages` |
| `ReadingsCsv` | the download of readings: from the query to the last line (`readings_csv.py`) | `ReadingsRequest` |
| `ReadingsBundle` | the synced readings bundle: step, series, late periods, state sequences, axioms (`synced_readings_bundle.py`) | `ReadingsRequest` |
| `ApiProcess` | the constants that the requests of one API process have in common | |
| `RequestData` | CSV requests and the dictionary `self.data` they share (`backend_api.py`) | `ApiProcess` |
| `FloDownload` | both FLO routes and the file `result.xlsx` they share (`backend_api.py`, `flo_download.py`) | `ApiProcess` |
| `LegacyBackend` | the requests of the process, of either kind, on one loop | `RequestData`, `FloDownload` |
| `Roles` | what a role row counts for, and when data is open to all (`shared_queries.py`) | |
| `Access` | sessions, tokens and data requests, while rows of users and roles are edited (`session.py`, `dependencies.py`) | `Roles` |
| `RouteAnswer` | data, or why there is none | |
| `SemaCodec` | the strict read of a message and its upgrade to the latest version (`sema/codec.py`) | |
| `Summaries` | the list of a login's houses (`installation_summaries.py`) | `SemaCodec`, `Roles`, `RouteAnswer` |
| `HourlyElectricity` | the sums over houses and hours (`hourly_electricity.py`) | `Roles`, `RouteAnswer`, `Ordered` |
| `JournalReads` | the lists of messages and of forecasts (`messages.py`, `weather_forecast.py`) | `SemaCodec`, `RouteAnswer`, `Ordered` |
| `LegacyMessages` | the legacy list of problems and glitches (`backend_api.py`) | `RouteAnswer`, `Ordered` |
| `LegacyCsv` | what a legacy CSV collects from reports and snapshots, and its cells (`backend_api.py`) | `RouteAnswer`, `Ordered` |
| `RouteReads` | the requests that one read answers, and what a reader expects of each | the five before |
| `MC*` | instances for TLC | the module of the name |
| `GatewayProofs`, `FleetStreamProofs`, `CommitStandingsProofs`, `ZoneTrackerProofs`, `LegacyBackendProofs` | theorems | the module of the name |
| `OrderedProofs` | lemmas about the operators of `Ordered`: sorted sets, kept elements, loops, sums, division | `Ordered` |
| `ReadingsProofs` | theorems about both readers | `ReadingsCsv`, `ReadingsBundle`, `OrderedProofs` |
| `RouteProofs` | theorems about who is let in and what one read is answered with | `Access`, `RouteReads`, `OrderedProofs` |

### Gateway and HouseState

A step is what one task does between two awaits. `cast` is the local state of
the one broadcast there can be: the clients left of the list that was copied, the
one being served, its next message, and the house as it was encoded. `pc[c]` is
the local state of the endpoint of `c`. `view[c]` is what has been written to the
socket: the fields of the last status, snapshot and series message.

- `ReceiveLayout`, `ReceiveSnapshot`, `ReceiveReport` are `handle_message` with
  the store's update and `on_house_update` up to the first await. Their guard
  `HandlerReturned` is the consumer's `async for`: the next message is taken
  when the handler has returned.
- `BroadcastSend`, `BroadcastFail`: the inner and outer loop of `broadcast`, its
  `except` around a client's list.
- `Connect`, `CachedNext`, `Request`: `websocket_endpoint` and `send_cached`,
  which reads the house again after each await (`store.get` once, but the object
  is shared). `EndpointClosed`, `EndpointFails`: the ways out through `finally`.
- `PeerGone`: browser, network or uvicorn's ping timeout. `Prune`, `Restart`.

Abstractions. `send_text` hands the message to the transport at once and then
awaits its draining, so a message is in `view` at the call and the await is the
gap between steps; a peer that reads slowly is a step that comes late. A
snapshot is its time, a layout a model value. The zone series is the time of the
snapshot that last put a point into it, 0 when there is none: a snapshot may
renew, keep or empty it. Pruning some but not all points changes no field of the
model. `connected_clients` and `last_activity` in a status depend on others and
on the clock and are left out. A slot of `Clients` is used for one socket after
another. Messages that are refused (not a scada, another type, one that does not
decode, a snapshot not newer) change nothing and are stutters.

What TLC showed while the properties were being stated, and the code does:
pruning tells nobody, so `CaughtUp` excepts a pruned series; two aliases with the
same short alias write into one house, whose `target_gnode` stays that of the
first; and in the middle of `send_cached` a client may have a series newer than
its snapshot, which is why `CaughtUp` speaks of settled clients.

### FleetStream

A layout is the number of times its scada has sent one. `pc` is where the process
is: reading and seeding (`seed_layouts`), connecting, consuming, restoring (the
robust connection), sleeping (five seconds). `missed` is a history variable: the
scadas with a layout that the process had no way to see, which `CurrentUnlessMissed`
excepts. It is set where a layout finds no queue, where the projection lags, where
a seed is cut short and where a connection takes its queue along; a layout delivered
clears it. Of the messages, `FleetStream` follows the layouts, which are the only
ones with two ways in; their handler in full is in `Gateway`.

### CommitStandings

A request is a record with the local variables of `standings`. It runs to its
first call without a break (`Begin`), and from each answer to the next call
(`Answer`). Dictionaries keep the order of insertion in the code; here any order.
`asOf` is the time an answer was asked for. Which of the standings an answer is
makes no difference to the cache (`Unknown` is cached as well), so it is left out.
`httpx`'s timeout of 10 bounds each operation of a call and not the call; that a
call takes at most `MaxCall` is an assumption of `AnswerAge`. Nothing else rests on it.

### ZoneTracker

Gateway has of a zone series only when it was last put into; `ZoneTracker` has what
is in it: each zone's points, pruned against the clock by each snapshot and by the
task, and the zone that is served, the first in the order of
the dictionary with the highest average. A point is its time and whether it is
above the threshold. The order of the dictionary is kept because it decides ties:
a zone whose points are all pruned leaves it and comes back at its end.

### Lineages, ReadingsCsv, ReadingsBundle

`TakeRow` is one turn of the loop of `lineages()`, with its dictionary `first_by_key`
as `byName` and `byId` and its disjoint sets as the root of each row; halving a path
changes no root. Names are numbers in their order, a pattern is the set of names it
matches, and the order by its groups is that of the headings. `ReadingsCsv` runs the
loop, answers or refuses, and goes on reading by reading and line by line as
`csv_generator` does: `next` is `current_reading_row`, `cells` is `prev_row_values`.
The rest is text and left out.

A reading carries the truth the house meant: a quantity in its reference unit or the
symbol of a state. `Stored` is what the database then has of it in the unit of its
row, and what the code works from. So the cell that ought to come out (`TrueCell`)
is reckoned from the truths without any conversion. Floating point is exact
arithmetic here, with halves rounded to even: the code's cells may differ where a
mean is within an error of a half.

Of the `time_step`, which nothing validates, the download has the positive ones: zero
raises where the window is reckoned, and a negative one makes the loop over the buckets
run backwards until the calendar ends.

`ReadingsBundle` runs the same loop, then one turn for each change of the reports'
delay and one for each state. A request has any end after its start and any `time_step`,
or none: the service's own may not exist, a negative one fails in the database unless
there is nothing to query, and one of any size is taken. The request for a `dl` csv ends
with its averages (`downloaded`). `MakeBundle` has the axioms that what the program passes
may break; the one on the lengths of the lists holds because the gapfill gives every
series the same buckets. A step so large that the window leaves the calendar raises and
is left out. Its averages are TimescaleDB's: which of the series
have any is a free choice, and what they are is left out, the equal length of the
series with it. Times are ticks; a second and a millisecond have several, so that two
events may fall into one. `datetime_to_sema` stamps the wall clock of any zone Z;
here all times are of one zone.

### LegacyBackend: RequestData and FloDownload

A step is what one request does between two awaits. `CsvBegin` is `get_csv` and
`get_data` up to the query: the refusal of long requests, the new entry in `self.data`,
and the request for bids, which makes no entry and fails on it. `CsvQueried` and
`CsvQueryFails` are the query's two ways out, `CsvProcess` what follows the closing of
the session up to `gather`, `CsvResample` the first run of the tasks, which look their
channels up in the entry as it is by then, `CsvFinish` the end of their threads. Every
way out is `End`, the `finally`. `CsvTimeout` is `async_timeout` at any await. An entry is
whether it is there and how many reports the query behind it saw; `since`, `oldest` and
`alone` are history.

`FloFindsNone`, `FloExports`, `FloFails` are the handlers; `FloStat`, `FloOpen`, `FloSend`
the response, which looks the path up, opens it and reads it after the handler has
returned. `result` is the file the name stands for, `contents` what is in each, so that a
file removed while it is read keeps its content and a file written over does not.

### Access

`SessionRead`, `SessionRoles` and `SessionWrite` are `create_session` between its awaits:
the user's row, the user's roles, the UPDATE (of every user) with the token. `FetchCheck`
is `verify_data_access` with the routes before it, `FetchSend` what is sent: of data that
is sampled, up to one time step after the end that was checked, whatever the step.
`EditUser` and `EditRole` are those who
keep the tables, at any moment. A client whose token has expired holds none. `earned` is
history: when each user was last active and last a system admin. The unit of time is one
in which a request is over before it passes.

### RouteReads and what it extends

A request that one SELECT answers has no interleaving; what can go wrong is what the
statement joins, picks, orders and decodes. So these modules are operators from what is
asked and what the tables hold to the answer, and `RouteReads` is a machine of one step
over every combination that `Inputs` has. Its properties say what a reader would expect
of the answer without the joins.

- `Summaries`: `Rows` is the join of roles, houses and snapshots, `Longest` the query of
  heat calls, `Undecodable` what keeps a row, and with it the list, from being answered.
- `HourlyElectricity`: `RolesJoined` and `Summed` are the SUM over the join.
- `JournalReads`: `MessageRows` and `ForecastRows` are the windows with their limits, one
  from the oldest and one from the newest; `SemaCodec` decides what is in the answer.
- `LegacyMessages`: `Selected` is the statement, `Sorted` the two sorts with the look-up of
  the levels in their keys, `MessageList` the ways out of the handler.
- `LegacyCsv`: `Collected` is the loop over reports and their lists with its
  `channel_name`, `WithSnapshots` what is appended, `Cells` a line of `resample_channel`
  with local time and its repeated hour.

## 3. Runs

| run | bounds | distinct states | shows |
|---|---|---|---|
| `gateway_delivery` | 2 clients of 1 house, 2 times, 2 messages, with fairness | 94,040 | `RegistryExact CaughtUp ViewMonotone FeedSpec ConsumerReturns DeadForgotten` |
| `fleet_layouts` | 3 scadas, 1 unreadable, 2 layouts each, 1 crash, with fairness | 94,416 | `CurrentUnlessMissed HeldMonotone AlwaysConsumesAgain` |
| `fleet_unreadable_row` | the same | | violated: an unreadable row is not skipped |
| `standings_ttl` | 2 requests, 3 commits, 1 dirty, TTL 3, 6 ticks | 390,577 | `Complete AnswersFresh AnswerAge` |
| `zone_tracker` | 2 zones, 5 ticks, 3 points; retention, period and lag of 1 | 91,096 | `ServedHighest PointsFresh LastReadingHeld RecentStay` |
| `readings` | download: every table of at most 3 rows of 30 shapes, 4 houses through a change with at most 3 readings, 3 requests; bundle: 4 houses, 3 requests, 5 ends, 3 steps asked for, at most 3 reports and 3 states | 1,157,335 | `LineagesExact AskedWhole RefusedExactly CellsRight LinesExact LateExact SequencesExact FailsExactly` |
| `legacy_backend` | 2 requests at a time; CSV of 4 kinds, FLO of 2 routes; 2 reports, 2 exports in 2 parts; with fairness | 620,906 | `NothingLeft FailsOnlyTogether AnswerOwnOrMet DownloadOwnOrMet CsvEnds` |
| `access` | 1 client, 2 users, 1 house, all sets of the role rows, token life 2, age 1, 4 ticks | 950,536 | `AdminTokensEarned` |
| `users_updated_at` | the same, token life 1, 3 ticks | | violated: a session changes other users' rows |
| `others_see_new_data` | as `access`, a time step of 2 ticks | | violated: a viewer is sent data of the moment |
| `route_reads` | every combination of a few rows, per route | 141,526 | `OneSummaryEach LongestCallShown ElectricityOnce PagesWhole WorstFirst ChannelsKept CellsLatest` |
| `newer_layout_fails` | the same | | violated: a newer layout fails the list instead of waiting |

Type invariants are theorems (`TypeCorrect`) of `Gateway`, `FleetStream`, `CommitStandings`,
`LegacyBackend` and `Access`; those of `ZoneTracker`, `ReadingsCsv` and `ReadingsBundle` are
stated beside their variables, to be added to a configuration when the module is changed.

Why the bounds are enough to be of interest. Two clients make a list with one at and one
after the failing or leaving client; three were checked too, and the theorems hold for
any. Two snapshot times and two messages give a change during the cached messages of the
change before; the count bounds one process life and `Restart` begins another. Two layouts per scada give an older and a newer one in the table, the queue and the
store at once. Two requests overlap in all ways there are for one cache entry; six ticks
are two TTLs. Three rows are the fewest with which a row joins two sets that were apart;
the shapes have convertible, inconvertible and scaleless units, a state, and rows active,
retired earlier and later. The window of the download has four ticks in steps of two,
with a tick of look-back left over and readings before, at and after every edge. Three
reports give a delay that ends and another that begins, in one second or in several; the
ends make a window within one second, one that two points of a default step just fit,
one that is a point over and one that no default step fits. Two reports of the journal give a request that read before another and one that read after;
a slot is used again, so a request may meet one that began, ended and began anew. Two
exports in two parts give a file written over between its headers and its parts. One
client is enough for `access` because clients share nothing but the rows, which are
edited at any time as it is; four ticks are two lives of a token and three ages. In
`route_reads` the alias of one house begins the other's, journals are longer than the
limit by one, messages have known, unknown and capitalised levels, a channel is read from before the day to now, and the readings lie on both
sides of the hour that clocks repeat. Beyond the bounds stand the theorems.

Fairness. In `Gateway`, weak fairness of `Broadcast`, `CachedNext` and
`EndpointClosed`: the loop runs each task that can go on, and each send ends,
because the transport takes it or uvicorn's ping closes the socket. Nothing
obliges a house to send, a browser to connect or a process to die. In
`FleetStream`, weak fairness of the process, and strong fairness of `Bind`:
attempts that are made again and again meet a broker that is there. Without it
`ConnectFails` and `Wake` might alternate for ever, as they would.

In `LegacyBackend`, weak fairness of `CsvTimeout` alone: the loop's timer goes off. The
journal need never answer, and `CsvEnds` holds all the same; it is of the setting in which
the timeout is there (`RunningLocally` FALSE). A FLO request has no such promise: its
query is the only await inside the timer, and v2's route has no timer.

Findings. The four violation runs are disagreements of the code with what it says of
itself; `PROJECT.json` quotes the lines.

Two promises of docstrings are kept but for cases that the properties except, openly:

- `installation_summaries.py:42` promises "one installation.summary.gt each". A house with
  two role rows that count for a login is listed and summed twice, and a house is listed
  once more for each sender whose alias begins with its own (`OneSummaryEach`,
  `ElectricityOnce`).
- `synced_readings_bundle.py:70` promises "One series per requested channel lineage".
  Asking for a renamed channel by both its names fails the request for the bundle
  (`FailsExactly`), and doubles the column of the download.

Of the rest of what the models show, the code says nothing or says so itself. None of it
is a run:

- Two overlapping standings requests may ask about one commit twice within a TTL.
- A layout sent between the seed's SELECT and the bind of the queue is missed until the
  house sends its next one (`missed`).
- A bundle fails also for a window within one second, for a delay cut to nothing by the
  second, for a unit it does not know, for a negative step, and for a range too long for
  any default step; with the service's own step a request is turned down for its points
  when the range is just what the step was chosen for (`FailsExactly`).
- `flo_download.py:34` orders by time and line 41 appends the opposite order behind it, so
  of the runs of the two days the oldest is taken; the model has only that one is found.
- A legacy messages request is a `DataRequest` and no CSV request, so `check_request`
  holds it to the three days of a plot; its own 31 days (`backend_api.py:421`) never bind.
- `messages.py:32` allows `weather.forecast`, which the codec does not know, so no such
  message is in an answer (`Messages`).
- A CSV request for bids makes no entry and ends in a KeyError, which `FailsOnlyTogether`
  excepts.

## 4. Proofs

For every set of aliases, houses, clients, layouts, commits and requests and all
bounds; the assumptions are the named ASSUMEs of the modules, which TLC evaluates.

- `GatewayProofs`: `Inductive` is an invariant. `RegistryExact`, `CaughtUp` and
  `ViewMonotone` are not inductive: a client that is sent the rest of a broadcast
  is caught up only because the house in `cast` is the house in the store
  (`CastCurrent`), which holds only because the consumer takes nothing while a
  broadcast lasts; the client's earlier fields are right because a status is
  written first in both tasks (`StatusShown`) and the snapshot next
  (`SnapshotShown`, with `CastInOrder`); `NotAhead` is what makes the next message
  no step back. Each action has its lemma, with a step for each conjunct.
  `ImplementsFeed` maps every step to a step of the feed: a snapshot written when
  the client has an older one is `Show`, a restart is `Crash`, most are stutters.
  `AlwaysOnlyItsHouse`, that no client is told of a house but the one it asked for, is
  proved and has no run.
- `FleetStreamProofs`: `CurrentUnlessMissed` and `HeldMonotone` rest on where a
  layout can be: in the rows, the queue or the store (`Accounted`), the queue in
  the order it was sent with the last sent last (`QueueInOrder`, `LastIsSent`),
  and each stage's leavings cleared before the next (`Staged`).
- `CommitStandingsProofs`: types, `Complete`, `DirtyNeverAsked`, `AnswersFresh`,
  `AnswerAge`. `AnswersFresh` needs that every entry was asked for no earlier than its
  expiry less a TTL, in whatever order overlapping requests write it. `AnswerAge` is a
  property of a step; the invariant under it (`Paced`) counts calls: the call a request
  waits for was made no later than a timeout for each of its commits that has its standing
  (`Done`) after the request began. That the count grows by one with each answer is
  arithmetic of cardinalities, for which `Commits` is assumed finite.
- `OrderedProofs`: what `Ordered` returns for every finite set and every sequence. Python's
  sorts, comprehensions and loops are defined by counting places, without recursion: the
  k-th of a sorted set is the one with k elements up to it, what is kept of a list is the
  list at the sorted places of what is good. From that follow the lemmas the other modules
  need: a sorted set is in order and has all its elements, what is kept of a longer list
  begins with what is kept of the shorter (`Filtered` of an `Append`), a sorted set to which
  a larger element comes ends with it, a loop's result has what each turn keeps, a sum
  splits. Existence of the least and of the last element is the least-element principle
  of `WellFoundedInduction`.
- `ZoneTrackerProofs`: `Inv` is the types (the dictionary has no zone twice and exactly
  those with points among them), `LastReadingHeld`, and `Swept`: the task is due within its
  period, the clock at most a lag past that, and no point is older than the retention was
  when the task last came round, a period before it is due. `PointsFresh` follows from
  `Swept`. `RecentStay` is a property of a step: what is kept of what a prune has kept is
  what is kept. `ServedHighest` is the invariant of the loop over the dictionary
  (`Looped`): after i turns the best so far is the first of the highest average among the
  first i, where averages are compared by products.
- `ReadingsProofs`, the lineages: `KnitInv` is an invariant of the loop in whatever module
  runs it. `LineagesExact` is not inductive: that the loop joins enough needs that the first
  row of each key has the root of all that have it (`NamesMet`, `IdsMet`), and that it
  joins no more needs that every closed set is made of whole lineages (`Sound`), which
  stands in for the paths of a graph and needs no induction over them. `KnitExact` and
  `KnitApart` are what the invariant says of rows and of columns.
- `ReadingsProofs`, the download: `CsvInv` adds that the columns are those the request
  selects (`Chosen`), from which `AskedWhole` and `RefusedExactly` follow. `CollectInv` is
  about the loop of `csv_generator`: the stream is in order and of the columns' rows
  (`Streamed`), the readings before the cursor are older than the bucket's end and those
  from it on no older than its begin, and the bucket's are collected (`Gathered`), what is
  carried forward are the cells of the bucket before (`Carried`), the bucket stands a whole
  number of steps from the start with a line for each (`Placed`), and each line has its
  time and its cells (`Lined`). `CellsRight` is not inductive: a cell may be that of the
  bucket before, which need not be a line, so `CellAt` says it of every bucket. That the
  cell is the truth is arithmetic over the affine conversions: the sum of converted values
  is the converted sum and the common denominator cancels in `Round`.
- `ReadingsProofs`, the bundle: `BundleInv` adds to `KnitInv` the types, what a request has
  and lacks before each loop (`Listed`, `Empty`), the points of the step it has and what a
  failure is for (`Pointed`), that a delay has begun when the last change taken is to a
  delayed one and the periods are those of the changes before it (`Late`), and that each
  sequence tells the readings of its machine taken so far (`Sequenced`). `LateExact`,
  `SequencesExact` and `FailsExactly` follow from it. The last needs of division that a
  step is chosen to fit its range and how many multiples of a step a range has, and of the
  axioms that each says of what the loops left no more than its conjunct of `unmade`.
- `LegacyBackendProofs`: the four invariants are not inductive. That an answer is no
  older than what it met needs that a request's history is in order (`Dated`), that of
  equal requests in progress none passes for alone and each knows the oldest (`Known`),
  that what is in the entry is no older than that (`EntryDated`), and what a request has
  taken from it (`Taken`); that one which is alone does not fail needs that it finds the
  entry as it left it (`OwnEntry`), although a request that ends deletes whatever is
  under its key. That there is an oldest at all, for any set of requests, is the
  least-element principle of `WellFoundedInduction`. Of the file: contents are no newer
  than the exports so far (`Numbered`), and a download open on a file sees its own export
  until another request exports or removes (`Download`).
- `RouteProofs`, access: `AdminTokensEarned` needs of a session under way that its user
  was active and, if it read so, an admin since the clock last moved (`Current`), and of a
  token that it runs out within its life of both (`Held`).
- `RouteProofs`, the reads: the inductive invariant `ReadsInv` is short, a request is
  answered by its own handler from what was asked. The work is in what a handler returns
  for every input, about which `InputsAssumption` says what a table can be: finitely many
  rows of numbers and names, a journal in the order of its times. For the summaries
  (`OneSummaryEach`, `LongestCallShown`) it is arithmetic and sets. For
  the others each query, filter, sort or loop is shown to draw its result from places of a
  journal, each place once (`Draws`), so that what the answer has and how often can be said
  of the journal: `PagesWhole` and `ChannelsKept` follow with what a page or a day cuts off,
  `ElectricityOnce` with what a sum over places is, `WorstFirst` with that the key of the
  sort is a strict order of the messages (`SortOrderStrict`), that each type is sorted by
  itself and one list is put after the other, and that drawing keeps how many there are
  (`DrawnEach`).
  `CellsLatest` is about the line of the hour that clocks repeat. Each has a witness in
  `MCRouteReads`, where every kind of request is answered, with data and without.

Only model-checked: liveness (`ConsumerReturns`, `DeadForgotten`, `AlwaysConsumesAgain`,
`CsvEnds`, and the fairness of `FeedSpec`, whose safety part is `ImplementsFeed`), which the
prover does not reach. Every other property of a passing run is a theorem.

## 5. Not modelled

See "components" in `PROJECT.json` for each part and the reason.

- `side_quests`, `api/archive` and the notebooks: analyses run by hand on downloaded data.
  With the generated types of sema they are about three quarters of the lines of code; what
  was written by hand and runs is a fifth.
- The types under `sema`: generated from definitions. What the routes need of them, the
  versions and which of them upgrade, is in `SemaCodec`.
- The routes of `backend_api.py` that use the tables `users`, `homes`,
  `hourly_electricity` or `user_roles`: the tables are commented out (lines 143-146), so
  these routes end in a NameError before they do anything, the plots among them. The
  plots themselves are figures for plotly.
- `alerts`, `price_forecast`, `alert_history`: one forwarded HTTP call each, without state.
- TimescaleDB's averages and the text of the files: what is queried and which cell a
  reading ends up in is modelled, how it is written is not.
- `readings_csv.py` streams its rows through a cursor after the handler has returned;
  whether the driver keeps the transaction open is the driver's.
- The zone of a time: `datetime_to_sema` stamps the wall clock of any zone Z; all times
  here are of one zone.
- Deployment; `Restart=on-failure` of the services is `Crash` and `Start` of `FleetStream`.

So the map covers the code that decides something while the system runs, and a small
part of all lines.

What is left to do: the refinement for the fields of the feed that are not snapshots; the
offsets of time zones.
