----------------------------- MODULE RequestData -----------------------------
(***************************************************************************)
(* The dictionary self.data of the legacy backend (api/backend_api.py),    *)
(* through which get_data hands a CSV request its readings.  It is keyed   *)
(* by the request: two requests with equal fields, unique_id included,     *)
(* share an entry.                                                         *)
(*                                                                         *)
(* A step is what one request's coroutine does between two awaits: the     *)
(* query of the journal, the closing of its session, the start of the      *)
(* resampling tasks, the end of their threads.  The readings are the       *)
(* number of reports the journal held when they were queried; which        *)
(* channels they are is in no property here.                               *)
(***************************************************************************)
EXTENDS Naturals, ApiProcess

CONSTANTS
    Keys,           \* requests up to equality
    NoKey,
    TooLong,        \* those over the days that check_request permits
    Bids,           \* those whose selected channels are ['bids']
    MaxReports      \* bound on the reports that come in

ASSUME RequestDataAssumption ==
    /\ TooLong \subseteq Keys
    /\ Bids \subseteq Keys
    /\ NoKey \notin Keys
    /\ MaxReports \in Nat

VARIABLES
    journal,    \* reports persisted
    data,       \* self.data
    req         \* the CSV requests

csvVars == <<journal, data, req>>

Reports == 0..MaxReports

\* rows = 0 in an entry that is there: {}, without 'channels'.
Entry == [there : BOOLEAN, rows : Reports]

NoEntry == [there |-> FALSE, rows |-> 0]

Pending == {"query", "rows", "resample", "failing", "merge"}

Over == {"free", "csv", "no data", "refused", "timed out", "error", "key error"}

\* read: what its query found; got: what its resampling took from the entry.  since,
\* oldest and alone are history: the reports there were when it began, when the first
\* of the equal requests it met began, and whether it met none.
CsvRequest ==
    [pc : Pending \cup Over, key : Keys \cup {NoKey}, read : Reports, got : Reports,
     since : Reports, oldest : Reports, alone : BOOLEAN]

NoCsv ==
    [pc |-> "free", key |-> NoKey, read |-> 0, got |-> 0, since |-> 0, oldest |-> 0,
     alone |-> TRUE]

CsvTypeOK ==
    /\ journal \in Reports
    /\ data \in [Keys -> Entry]
    /\ req \in [Tasks -> CsvRequest]

CsvPending(t) == req[t].pc \in Pending

\* The requests in progress that equal k.
Equals(k) == {t \in Tasks : CsvPending(t) /\ req[t].key = k}

CsvInit ==
    /\ journal = 0
    /\ data = [k \in Keys |-> NoEntry]
    /\ req = [t \in Tasks |-> NoCsv]

-----------------------------------------------------------------------------
\* A mutation: what timed out stays in the dictionary.
KeepIfTimedOut(t, how) ==
    /\ req' = [req EXCEPT ![t].pc = how]
    /\ data' = IF how = "timed out" THEN data ELSE [data EXCEPT ![req[t].key] = NoEntry]

\* A mutation: the whole dictionary is cleared.
ClearAll(t, how) ==
    /\ req' = [req EXCEPT ![t].pc = how]
    /\ data' = [k \in Keys |-> NoEntry]

\* Every way out of get_csv goes through its finally, which deletes the entry of the
\* key, whoever made it.
End(t, how) ==
    /\ req' = [req EXCEPT ![t].pc = how]
    /\ data' = [data EXCEPT ![req[t].key] = NoEntry]

\* The oldest beginning among a request of k that begins now and those it meets.
OldestOf(k) ==
    CHOOSE n \in {journal} \cup {req[s].since : s \in Equals(k)} :
        \A s \in Equals(k) : n <= req[s].since

\* The requests with t begun on k.
Begun(t, k, pc) ==
    [s \in Tasks |->
        IF s = t
        THEN [pc |-> pc, key |-> k, read |-> 0, got |-> 0, since |-> journal,
              oldest |-> OldestOf(k), alone |-> Equals(k) = {}]
        ELSE IF s \in Equals(k) THEN [req[s] EXCEPT !.alone = FALSE] ELSE req[s]]

\* check_request, unless the backend runs locally.
Refused(k) == k \in TooLong /\ ~RunningLocally

\* get_csv up to its first await.  A long request is refused; for bids get_data returns
\* neither an error nor an entry, and get_csv fails on the missing key; the others begin
\* with an empty entry, whatever an equal request has put there.
CsvBegin(t, k) ==
    /\ ~CsvPending(t)
    /\ IF Refused(k) \/ k \in Bids
       THEN /\ req' = Begun(t, k, IF Refused(k) THEN "refused" ELSE "key error")
            /\ data' = [data EXCEPT ![k] = NoEntry]
       ELSE /\ req' = Begun(t, k, "query")
            /\ data' = [data EXCEPT ![k] = [there |-> TRUE, rows |-> 0]]
    /\ UNCHANGED journal

\* The journal answers the query; the session is still to be closed.
CsvQueried(t) ==
    /\ req[t].pc = "query"
    /\ req' = [req EXCEPT ![t].pc = "rows", ![t].read = journal]
    /\ UNCHANGED <<journal, data>>

\* The query raises, and get_data answers that an error occurred.
CsvQueryFails(t) ==
    /\ req[t].pc = "query"
    /\ End(t, "error")
    /\ UNCHANGED journal

\* A mutation: entries are told apart by the house alone, so that every request of it
\* in progress shares one.
ProcessedByHouse(t) ==
    /\ req' = [req EXCEPT ![t].pc = "resample"]
    /\ data' = [k \in Keys |-> IF data[k].there THEN [there |-> TRUE, rows |-> req[t].read]
                              ELSE data[k]]

\* The readings go into the entry, and the resampling tasks are made.
Processed(t) ==
    /\ req' = [req EXCEPT ![t].pc = "resample"]
    /\ data' = [data EXCEPT ![req[t].key] = [there |-> TRUE, rows |-> req[t].read]]

\* get_data after its query, and get_csv up to the gather.  No rows: no data.  The entry
\* is looked up without a check: an equal request may have deleted it.  With the entry
\* filled, an exception or the limit of points ends the request in the same step, as
\* does having no channel to export.
CsvProcess(t) ==
    /\ req[t].pc = "rows"
    /\ \/ /\ req[t].read = 0
          /\ End(t, "no data")
       \/ /\ req[t].read > 0
          /\ ~data[req[t].key].there
          /\ End(t, "key error")
       \/ /\ req[t].read > 0
          /\ data[req[t].key].there
          /\ \/ Processed(t)
             \/ \E how \in {"no data", "refused", "error"} : End(t, how)
             \/ /\ req' = [req EXCEPT ![t].pc = "csv", ![t].got = req[t].read]
                /\ data' = [data EXCEPT ![req[t].key] = NoEntry]
    /\ UNCHANGED journal

\* The resampling tasks, started by gather, run up to their threads one after the
\* other.  Each looks its channel up in the entry as it is by now.
CsvResample(t) ==
    /\ req[t].pc = "resample"
    /\ req' = IF data[req[t].key].rows > 0
              THEN [req EXCEPT ![t].pc = "merge", ![t].got = data[req[t].key].rows]
              ELSE [req EXCEPT ![t].pc = "failing"]
    /\ UNCHANGED <<journal, data>>

\* gather returns, or raises what a task raised.
CsvFinish(t) ==
    /\ \/ /\ req[t].pc = "merge"
          /\ End(t, "csv")
       \/ /\ req[t].pc = "failing"
          /\ End(t, "key error")
    /\ UNCHANGED journal

\* A mutation: the timeout is around what comes after the query.
TimeoutAfterQuery(t) ==
    /\ ~RunningLocally
    /\ CsvPending(t) /\ req[t].pc # "query"
    /\ End(t, "timed out")
    /\ UNCHANGED journal

\* The five minutes are over, at whatever await the request is.
CsvTimeout(t) ==
    /\ ~RunningLocally
    /\ CsvPending(t)
    /\ End(t, "timed out")
    /\ UNCHANGED journal

\* The journal takes up a report.
Persist ==
    /\ journal < MaxReports
    /\ journal' = journal + 1
    /\ UNCHANGED <<data, req>>

\* A request goes on after it has begun.
CsvStep(t) ==
    \/ CsvQueried(t)
    \/ CsvQueryFails(t)
    \/ CsvProcess(t)
    \/ CsvResample(t)
    \/ CsvFinish(t)
    \/ CsvTimeout(t)

CsvNext == Persist \/ \E t \in Tasks : CsvStep(t) \/ \E k \in Keys : CsvBegin(t, k)

CsvSpec == CsvInit /\ [][CsvNext]_csvVars

-----------------------------------------------------------------------------
(* Properties. *)

\* What is in the dictionary belongs to a request in progress: whatever way requests
\* end, and whoever shares their entry, nothing is left behind (get_csv's finally).
NothingLeft == \A k \in Keys : data[k].there => Equals(k) # {}

\* A request loses its entry, or finds it without channels, only if it met an equal
\* one; a request for bids always fails.
FailsOnlyTogether ==
    \A t \in Tasks : req[t].pc = "key error" => req[t].key \in Bids \/ ~req[t].alone

\* An answer has what its own request read, if it met no equal one.  If it did, the
\* readings may be another's and older than its own query, but no older than the first
\* of those it met.
AnswerOwnOrMet ==
    \A t \in Tasks : req[t].pc = "csv" =>
        /\ req[t].got > 0
        /\ req[t].got >= req[t].oldest
        /\ req[t].alone => req[t].got = req[t].read /\ req[t].got >= req[t].since

\* Off the developer's machine a request ends, whatever the journal does.
CsvEnds == \A t \in Tasks : CsvPending(t) ~> ~CsvPending(t)
=============================================================================
