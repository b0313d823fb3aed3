---------------------------- MODULE JournalReads -----------------------------
(***************************************************************************)
(* The routes that serve messages of the journal: the system admin's list  *)
(* (api/v2/routers/messages.py) and the emissions of a weather bundle      *)
(* (api/v2/routers/weather_forecast.py).                                   *)
(*                                                                         *)
(* A journal is a sequence of messages in the order of their times.  A     *)
(* message has a time, a type, a version, and what it is from: the sender, *)
(* or the bundle of an emission.                                           *)
(***************************************************************************)
EXTENDS SemaCodec, RouteAnswer, Ordered, SequencesExt, Functions

CONSTANTS
    MaxMessages,    \* the messages of one answer, 100
    MaxForecasts    \* the emissions of one answer, 500

ASSUME JournalReadsAssumption ==
    /\ MaxMessages \in Nat \ {0}
    /\ MaxForecasts \in Nat \ {0}

\* What a journal is.
IsJournal(s) ==
    /\ s \in Seq(Range(s))
    /\ \A i \in DOMAIN s :
          s[i] \in [time : Int, type : STRING, version : Int, from : {s[i].from}]
    /\ \A i, j \in DOMAIN s : i < j => s[i].time <= s[j].time

\* ALLOWED_MESSAGE_TYPES.
AllowedTypes == {"weather.forecast", "glitch", "gridworks.event.problem"}

First(n, s) == SubSeq(s, 1, IF Len(s) < n THEN Len(s) ELSE n)

\* The messages of the window that are of the types and senders asked for.
Asked(q) ==
    {m \in Range(q.journal) :
        /\ m.time \in q.start..q.end
        /\ m.type \in q.types \cap AllowedTypes
        /\ m.from \in q.from}

\* A mutation: the limit keeps the newest.
LastMessages(q) == Reverse(First(MaxMessages, Reverse(Filtered(q.journal, Asked(q)))))

\* The oldest of them.
MessageRows(q) == First(MaxMessages, Filtered(q.journal, Asked(q)))

\* get_messages: each at the latest version; one that raises fails the request.
Messages(q) ==
    LET rows == MessageRows(q) IN
    IF \E i \in DOMAIN rows : Decoded(rows[i].type, rows[i].version, TRUE) = Raises
    THEN Without("error")
    ELSE Data([i \in DOMAIN rows |->
                 [rows[i] EXCEPT !.version = Decoded(rows[i].type, @, TRUE)]])

\* The bundle's emissions of the window.
Emissions(q) ==
    {m \in Range(q.journal) :
        m.type = "gw.weather.forecast" /\ m.from = q.bundle /\ m.time \in q.start..q.end}

\* A mutation: the emissions are read oldest first, up to the limit.
OldestRows(q) == Reverse(First(MaxForecasts, Filtered(q.journal, Emissions(q))))

\* The newest of them, newest first.
ForecastRows(q) == First(MaxForecasts, Reverse(Filtered(q.journal, Emissions(q))))

\* get_forecasts: reversed, each at its own version.
Forecasts(q) ==
    LET rows == Reverse(ForecastRows(q)) IN
    IF \E i \in DOMAIN rows : Decoded(rows[i].type, rows[i].version, FALSE) = Raises
    THEN Without("error") ELSE Data(rows)

\* get_bundle: the newest record of the name at the latest version, or not found; one that
\* raises fails the request.
BundleRecord(q) ==
    LET records == {m \in Range(q.journal) :
                       m.type = "gw.weather.forecast.bundle.gt" /\ m.from = q.bundle}
        rows == Filtered(q.journal, records)
    IN IF rows = <<>> THEN Without("not found")
       ELSE IF Decoded(Last(rows).type, Last(rows).version, TRUE) = Raises THEN Without("error")
       ELSE Data(Last(rows))
=============================================================================
