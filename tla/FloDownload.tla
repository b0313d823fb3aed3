----------------------------- MODULE FloDownload -----------------------------
(***************************************************************************)
(* The downloads of a FLO run: get_flo of the legacy backend               *)
(* (api/backend_api.py) and of api/v2/routers/flo_download.py, routes of   *)
(* one process.  Each solves the run it finds, exports it to result.xlsx   *)
(* in the working directory, and answers with that path; the file is read  *)
(* after the handler has returned, part by part.                           *)
(*                                                                         *)
(* An export is known by its number.  The library writes over a file that  *)
(* is there, so a reader with the file open reads the new content; a file  *)
(* that is removed lives on for who has it open.                           *)
(***************************************************************************)
EXTENDS Naturals, ApiProcess

CONSTANTS
    Chunks,         \* parts in which a file is sent
    MaxExports      \* bound on the exports

ASSUME FloDownloadAssumption ==
    /\ Chunks \in Nat \ {0}
    /\ MaxExports \in Nat

VARIABLES
    exports,    \* exports so far
    result,     \* the file that result.xlsx names, 0 when there is none
    contents,   \* contents[f]: the export that file f holds, 0 before there is such a file
    flo         \* the requests

floVars == <<exports, result, contents, flo>>

Exports == 0..MaxExports

FloPendingPcs == {"finding", "stat", "open", "sending"}

\* own: its export; file: what it has open; seen: the exports its headers and its parts
\* are of.  met is history: another request has exported or removed since its export.
FloRequest ==
    [pc : FloPendingPcs \cup {"free", "file", "nothing", "failed", "timed out"},
     route : {"legacy", "v2"}, own : Exports, file : Exports,
     left : 0..Chunks, seen : SUBSET Exports, met : BOOLEAN]

FloTypeOK ==
    /\ exports \in Exports
    /\ result \in Exports
    /\ contents \in [Exports -> Exports]
    /\ flo \in [Tasks -> FloRequest]

FloPending(t) == flo[t].pc \in FloPendingPcs

NewFlo(route) ==
    [pc |-> "finding", route |-> route, own |-> 0, file |-> 0, left |-> Chunks,
     seen |-> {}, met |-> FALSE]

NoFlo == [NewFlo("v2") EXCEPT !.pc = "free"]

FloInit ==
    /\ exports = 0
    /\ result = 0
    /\ contents = [f \in Exports |-> 0]
    /\ flo = [t \in Tasks |-> NoFlo]

-----------------------------------------------------------------------------
\* The others' downloads have met a change of result.xlsx.
OthersMet(t) ==
    [s \in Tasks |-> IF s # t /\ FloPending(s) /\ flo[s].pc # "finding"
                     THEN [flo[s] EXCEPT !.met = TRUE] ELSE flo[s]]

\* A request comes in and queries the journal.
FloBegin(t) ==
    /\ ~FloPending(t)
    /\ \E route \in {"legacy", "v2"} : flo' = [flo EXCEPT ![t] = NewFlo(route)]
    /\ UNCHANGED <<exports, result, contents>>

\* No run in the 48 hours: the legacy route removes the file that is there and answers
\* null, the other raises.
FloFindsNone(t) ==
    /\ flo[t].pc = "finding"
    /\ IF flo[t].route = "legacy"
       THEN /\ result' = 0
            /\ flo' = [OthersMet(t) EXCEPT ![t].pc = "nothing"]
       ELSE /\ flo' = [flo EXCEPT ![t].pc = "failed"]
            /\ UNCHANGED result
    /\ UNCHANGED <<exports, contents>>

\* A mutation: a file that is there is kept.
ExportKept(t) ==
    /\ flo[t].pc = "finding"
    /\ exports < MaxExports
    /\ exports' = exports + 1
    /\ result' = IF result = 0 THEN exports' ELSE result
    /\ contents' = IF result = 0 THEN [contents EXCEPT ![result'] = exports'] ELSE contents
    /\ flo' = [OthersMet(t) EXCEPT ![t].pc = "stat", ![t].own = exports']

\* A run is found, solved and exported, over the file that is there or into a new one.
FloExports(t) ==
    /\ flo[t].pc = "finding"
    /\ exports < MaxExports
    /\ exports' = exports + 1
    /\ result' = IF result = 0 THEN exports' ELSE result
    /\ contents' = [contents EXCEPT ![result'] = exports']
    /\ flo' = [OthersMet(t) EXCEPT ![t].pc = "stat", ![t].own = exports']

\* The query or the solution raises, or the legacy route's five minutes are over before
\* the query is answered; result.xlsx is left as it is.
FloFails(t) ==
    /\ flo[t].pc = "finding"
    /\ \/ flo' = [flo EXCEPT ![t].pc = "failed"]
       \/ /\ flo[t].route = "legacy" /\ ~RunningLocally
          /\ flo' = [flo EXCEPT ![t].pc = "timed out"]
    /\ UNCHANGED <<exports, result, contents>>

\* The response looks the path up for its headers, and fails if there is no file.
FloStat(t) ==
    /\ flo[t].pc = "stat"
    /\ flo' = IF result = 0 THEN [flo EXCEPT ![t].pc = "failed"]
              ELSE [flo EXCEPT ![t].pc = "open", ![t].seen = {contents[result]}]
    /\ UNCHANGED <<exports, result, contents>>

\* It opens the path, again if it is there.
FloOpen(t) ==
    /\ flo[t].pc = "open"
    /\ flo' = IF result = 0 THEN [flo EXCEPT ![t].pc = "failed"]
              ELSE [flo EXCEPT ![t].pc = "sending", ![t].file = result]
    /\ UNCHANGED <<exports, result, contents>>

\* It reads and sends a part.  Of another export than the headers' it may be too long or
\* too short for their length, and the response fails.
FloSend(t) ==
    /\ flo[t].pc = "sending"
    /\ LET part == contents[flo[t].file] IN
       \/ flo' = [flo EXCEPT ![t].seen = @ \cup {part}, ![t].left = @ - 1,
                             ![t].pc = IF flo[t].left = 1 THEN "file" ELSE @]
       \/ /\ part \notin flo[t].seen
          /\ flo' = [flo EXCEPT ![t].pc = "failed"]
    /\ UNCHANGED <<exports, result, contents>>

\* The client goes away while it is sent to.
FloClientGone(t) ==
    /\ flo[t].pc \in {"open", "sending"}
    /\ flo' = [flo EXCEPT ![t].pc = "failed"]
    /\ UNCHANGED <<exports, result, contents>>

\* A request goes on after it has begun.
FloStep(t) ==
    \/ FloFindsNone(t)
    \/ FloExports(t)
    \/ FloFails(t)
    \/ FloStat(t)
    \/ FloOpen(t)
    \/ FloSend(t)
    \/ FloClientGone(t)

FloNext == \E t \in Tasks : FloBegin(t) \/ FloStep(t)

FloSpec == FloInit /\ [][FloNext]_floVars

-----------------------------------------------------------------------------
(* Properties. *)

\* A download is of its own export, whole, if no other request exported or removed
\* meanwhile; if one did, it may be of later exports and of several, but never of an
\* earlier one (get_flo, FileResponse).
DownloadOwnOrMet ==
    \A t \in Tasks : flo[t].pc = "file" =>
        /\ \A n \in flo[t].seen : n >= flo[t].own
        /\ ~flo[t].met => flo[t].seen = {flo[t].own}
=============================================================================
