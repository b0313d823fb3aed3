---------------------------- MODULE LegacyBackend ----------------------------
(***************************************************************************)
(* The requests of the process of api/backend_api.py that share state: CSV *)
(* requests by the dictionary self.data, FLO requests of both routes by    *)
(* the file result.xlsx.  They run on one loop, interleaved at their       *)
(* awaits; get_flo's finally looks its request up in self.data as well,    *)
(* where there never is one of its type.                                   *)
(***************************************************************************)
EXTENDS RequestData, FloDownload

vars == <<csvVars, floVars>>

TypeOK == CsvTypeOK /\ FloTypeOK

Init == CsvInit /\ FloInit

-----------------------------------------------------------------------------
\* A slot holds what became of its last request, of either kind.
BeginCsv(t) ==
    /\ ~FloPending(t)
    /\ \E k \in Keys : CsvBegin(t, k)
    /\ flo' = [flo EXCEPT ![t] = NoFlo]
    /\ UNCHANGED <<exports, result, contents>>

BeginFlo(t) ==
    /\ ~CsvPending(t)
    /\ FloBegin(t)
    /\ req' = [req EXCEPT ![t] = NoCsv]
    /\ UNCHANGED <<journal, data>>

CsvGoesOn(t) == CsvStep(t) /\ UNCHANGED floVars

FloGoesOn(t) == FloStep(t) /\ UNCHANGED csvVars

Next ==
    \/ Persist /\ UNCHANGED floVars
    \/ \E t \in Tasks : BeginCsv(t) \/ BeginFlo(t) \/ CsvGoesOn(t) \/ FloGoesOn(t)

\* The timer of async_timeout fires; the journal need never answer.
Fairness == \A t \in Tasks : WF_vars(CsvTimeout(t) /\ UNCHANGED floVars)

SafetySpec == Init /\ [][Next]_vars

Spec == SafetySpec /\ Fairness
=============================================================================
