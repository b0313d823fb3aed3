------------------------- MODULE LegacyBackendProofs -------------------------
(***************************************************************************)
(* Proofs about LegacyBackend for any number of requests at a time, any    *)
(* requests up to equality and any bounds.                                 *)
(***************************************************************************)
EXTENDS LegacyBackend, WellFoundedInduction, TLAPS

\* A request in progress was begun within the journal, and what it read it read later.
Dated(t) ==
    CsvPending(t) =>
        /\ req[t].key \in Keys
        /\ req[t].since <= journal
        /\ req[t].pc # "query" => req[t].since <= req[t].read
        /\ req[t].pc \in {"resample", "failing", "merge"} => req[t].read > 0

\* Of equal requests in progress none passes for alone, and each knows the oldest.
Known(s, t) ==
    CsvPending(s) /\ CsvPending(t) /\ req[s].key = req[t].key =>
        /\ req[t].alone => s = t
        /\ req[t].oldest <= req[s].since

\* Whoever is alone finds the entry as it left it.
OwnEntry(t) ==
    CsvPending(t) /\ req[t].alone =>
        /\ data[req[t].key].there
        /\ req[t].pc = "resample" => data[req[t].key].rows = req[t].read

\* What an entry holds is no older than the first that anyone who may take it has met.
EntryDated(t) ==
    CsvPending(t) /\ data[req[t].key].rows > 0 => req[t].oldest <= data[req[t].key].rows

\* What was taken from the entry, or that there was nothing, stays true of the request.
Taken(t) ==
    /\ req[t].pc = "merge" =>
          /\ req[t].got > 0
          /\ req[t].oldest <= req[t].got
          /\ req[t].alone => req[t].got = req[t].read
    /\ req[t].pc = "failing" => ~req[t].alone

CsvInv ==
    /\ CsvTypeOK
    /\ \A t \in Tasks : Dated(t) /\ OwnEntry(t) /\ EntryDated(t) /\ Taken(t)
    /\ \A s, t \in Tasks : Known(s, t)
    /\ NothingLeft
    /\ FailsOnlyTogether
    /\ AnswerOwnOrMet

-----------------------------------------------------------------------------
\* Numbers have a least.
LEMMA Least ==
    ASSUME NEW S \in SUBSET Nat, S # {}
    PROVE  \E n \in S : \A m \in S : n <= m
<1>1. IsWellFoundedOn(OpToRel(<, Nat), Nat)
  BY NatLessThanWellFounded
<1>2. PICK n \in S : \A m \in S : <<m, n>> \notin OpToRel(<, Nat)
  BY <1>1, WFMin
<1>3. \A m \in S : ~(m < n)
  BY <1>2 DEF OpToRel
<1> QED BY <1>3

\* What the requests put into the dictionary are entries.
LEMMA EntryType == NoEntry \in Entry /\ \A n \in Reports : [there |-> TRUE, rows |-> n] \in Entry
BY RequestDataAssumption DEF NoEntry, Entry, Reports

\* A task without a request is in order.
LEMMA NoCsvType == NoCsv \in CsvRequest
BY RequestDataAssumption DEF NoCsv, CsvRequest, Pending, Over, Reports

\* The oldest beginning is that of a request that begins or is met, and before them all.
LEMMA OldestFacts ==
    ASSUME CsvTypeOK, NEW k \in Keys
    PROVE  /\ OldestOf(k) \in Reports
           /\ \A t \in Tasks : Dated(t) => (t \in Equals(k) => OldestOf(k) <= req[t].since)
           /\ (\A t \in Tasks : Dated(t)) => OldestOf(k) <= journal
<1> DEFINE S == {journal} \cup {req[s].since : s \in Equals(k)}
<1>1. S \in SUBSET Reports /\ S # {}
  BY DEF CsvTypeOK, CsvRequest, Equals
<1>2. S \in SUBSET Nat
  BY <1>1, RequestDataAssumption DEF Reports
<1>3. PICK n \in S : \A m \in S : n <= m
  BY <1>1, <1>2, Least
<1>4. \A s \in Equals(k) : n <= req[s].since
  BY <1>3
<1>5. OldestOf(k) \in S /\ \A s \in Equals(k) : OldestOf(k) <= req[s].since
  BY <1>4 DEF OldestOf
<1>6. (\A t \in Tasks : Dated(t)) => OldestOf(k) <= journal
  <2> SUFFICES ASSUME \A t \in Tasks : Dated(t) PROVE OldestOf(k) <= journal
    OBVIOUS
  <2>1. CASE Equals(k) = {}
    <3>1. OldestOf(k) = journal
      BY <1>5, <2>1
    <3> QED BY <3>1, <1>1, <1>2
  <2>2. CASE Equals(k) # {}
    <3>1. PICK s \in Equals(k) : TRUE
      BY <2>2
    <3>2. req[s].since <= journal /\ OldestOf(k) <= req[s].since
      BY <3>1, <1>5 DEF Equals, Dated
    <3>3. req[s].since \in Nat /\ journal \in Nat /\ OldestOf(k) \in Nat
      BY <1>2, <1>5
    <3> QED BY <3>2, <3>3
  <2> QED BY <2>1, <2>2
<1> QED BY <1>1, <1>5, <1>6

\* The invariant of the CSV requests holds at the start.
LEMMA CsvInitInv == CsvInit => CsvInv
<1> SUFFICES ASSUME CsvInit PROVE CsvInv
  OBVIOUS
<1>1. CsvTypeOK
  BY RequestDataAssumption, NoCsvType, EntryType DEF CsvInit, CsvTypeOK, Reports
<1>2. \A t \in Tasks : req[t].pc = "free"
  BY DEF CsvInit, NoCsv
<1>3. \A t \in Tasks : ~CsvPending(t)
  BY <1>2 DEF CsvPending, Pending
<1>4. \A k \in Keys : ~data[k].there
  BY DEF CsvInit, NoEntry
<1> QED
  BY <1>1, <1>2, <1>3, <1>4
     DEF CsvInv, Dated, OwnEntry, EntryDated, Taken, Known, NothingLeft, FailsOnlyTogether,
         AnswerOwnOrMet

-----------------------------------------------------------------------------
\* What an over request must be.
Right(r) ==
    /\ r.pc = "key error" => r.key \in Bids \/ ~r.alone
    /\ r.pc = "csv" =>
          /\ r.got > 0
          /\ r.got >= r.oldest
          /\ r.alone => r.got = r.read /\ r.got >= r.since

\* A request that ends rightly, with its entry deleted, leaves the others what they need.
LEMMA Closing ==
    ASSUME CsvInv, NEW t \in Tasks, CsvPending(t),
           NEW r \in CsvRequest, r.pc \in Over, Right(r),
           req' = [req EXCEPT ![t] = r],
           data' = [data EXCEPT ![req[t].key] = NoEntry],
           journal' = journal
    PROVE  CsvInv'
<1>1. CsvTypeOK /\ req[t].key \in Keys
  BY DEF CsvInv, Dated
<1>2. CsvTypeOK'
  BY <1>1, EntryType DEF CsvTypeOK
<1>3. \A s \in Tasks \ {t} : req'[s] = req[s]
  BY <1>1 DEF CsvTypeOK
<1>4. req'[t] = r /\ ~CsvPending(t)'
  BY <1>1 DEF CsvTypeOK, CsvPending, Pending, Over
<1>5. \A s \in Tasks : CsvPending(s)' => s # t /\ CsvPending(s)
  BY <1>3, <1>4 DEF CsvPending
<1>6. \A k \in Keys : k # req[t].key => data'[k] = data[k]
  BY <1>1 DEF CsvTypeOK
<1>7. data'[req[t].key] = NoEntry
  BY <1>1 DEF CsvTypeOK
<1>8. ASSUME NEW s \in Tasks PROVE (Dated(s) /\ OwnEntry(s) /\ EntryDated(s) /\ Taken(s))'
  <2>1. CASE s = t
    BY <2>1, <1>4 DEF Dated, OwnEntry, EntryDated, Taken, CsvPending, Pending
  <2>2. CASE s # t
    <3>1. Dated(s)' /\ Taken(s)'
      BY <2>2, <1>3 DEF CsvInv, Dated, Taken, CsvPending
    <3>2. OwnEntry(s)'
      <4> SUFFICES ASSUME CsvPending(s)', req'[s].alone PROVE OwnEntry(s)'
        BY DEF OwnEntry
      <4>1. req[s].key # req[t].key
        BY <2>2, <1>3 DEF CsvInv, Known, CsvPending
      <4> QED BY <2>2, <4>1, <1>3, <1>6 DEF CsvInv, Dated, OwnEntry, CsvPending
    <3>3. EntryDated(s)'
      BY <2>2, <1>3, <1>6, <1>7 DEF CsvInv, Dated, EntryDated, CsvPending, NoEntry
    <3> QED BY <3>1, <3>2, <3>3
  <2> QED BY <2>1, <2>2
<1>9. \A s, u \in Tasks : Known(s, u)'
  BY <1>3, <1>5 DEF CsvInv, Known
<1>10. NothingLeft'
  <2> SUFFICES ASSUME NEW k \in Keys, data'[k].there PROVE Equals(k)' # {}
    BY DEF NothingLeft
  <2>1. k # req[t].key
    BY <1>7 DEF NoEntry
  <2>2. PICK s \in Equals(k) : TRUE
    BY <2>1, <1>6 DEF CsvInv, NothingLeft
  <2>3. s \in Tasks /\ s # t /\ CsvPending(s)' /\ req'[s].key = k
    BY <2>1, <2>2, <1>3 DEF Equals, CsvPending
  <2> QED BY <2>3 DEF Equals
<1>11. FailsOnlyTogether' /\ AnswerOwnOrMet'
  <2> SUFFICES ASSUME NEW s \in Tasks PROVE Right(req'[s])
    BY DEF FailsOnlyTogether, AnswerOwnOrMet, Right
  <2>1. Right(req[s])
    BY DEF CsvInv, FailsOnlyTogether, AnswerOwnOrMet, Right
  <2>2. req'[s] = req[s] \/ req'[s] = r
    BY <1>3, <1>4
  <2> QED BY <2>1, <2>2
<1> QED BY <1>2, <1>8, <1>9, <1>10, <1>11 DEF CsvInv

\* The ways of End that need no answer.
LEMMA EndInv ==
    ASSUME CsvInv, NEW t \in Tasks, CsvPending(t),
           NEW how \in Over \ {"csv"}, how = "key error" => ~req[t].alone,
           End(t, how), journal' = journal
    PROVE  CsvInv'
<1> DEFINE r == [req[t] EXCEPT !.pc = how]
<1>1. r \in CsvRequest /\ r.pc = how /\ r.alone = req[t].alone
  BY DEF CsvInv, CsvTypeOK, CsvRequest
<1>2. req' = [req EXCEPT ![t] = r] /\ data' = [data EXCEPT ![req[t].key] = NoEntry]
  BY DEF End
<1>3. Right(r)
  BY <1>1 DEF Right
<1> QED BY <1>1, <1>2, <1>3, Closing

-----------------------------------------------------------------------------
\* Where the first step of a request leaves it.
FirstPcs == {"refused", "key error", "query"}

FirstState(k, how) ==
    [pc |-> how, key |-> k, read |-> 0, got |-> 0, since |-> journal, oldest |-> OldestOf(k),
     alone |-> Equals(k) = {}]

\* A request that begins is new, and equal ones in progress are no longer alone.
LEMMA BegunFacts ==
    ASSUME CsvInv, NEW t \in Tasks, ~CsvPending(t), NEW k \in Keys,
           NEW how \in FirstPcs
    PROVE  /\ Begun(t, k, how) \in [Tasks -> CsvRequest]
           /\ Begun(t, k, how)[t] = FirstState(k, how)
           /\ \A s \in Tasks \ {t} : Begun(t, k, how)[s] =
                IF s \in Equals(k) THEN [req[s] EXCEPT !.alone = FALSE] ELSE req[s]
<1>0. CsvTypeOK
  BY DEF CsvInv
<1>1. OldestOf(k) \in Reports /\ journal \in Reports /\ 0 \in Reports
  <2>1. OldestOf(k) \in Reports
    BY <1>0, OldestFacts
  <2>2. journal \in Reports /\ 0 \in Reports
    BY <1>0, RequestDataAssumption DEF CsvTypeOK, Reports
  <2> QED BY <2>1, <2>2
<1>2. how \in Pending \cup Over
  BY DEF FirstPcs, Pending, Over
<1>3. FirstState(k, how) \in CsvRequest
  BY <1>1, <1>2 DEF CsvRequest, FirstState
<1>4. \A s \in Tasks : req[s] \in CsvRequest /\ [req[s] EXCEPT !.alone = FALSE] \in CsvRequest
  BY <1>0 DEF CsvTypeOK, CsvRequest
<1> QED BY <1>3, <1>4 DEF Begun, FirstState

\* A request begins: it is refused, fails for bids, or makes its entry (get_csv).
LEMMA CsvBeginInv ==
    ASSUME CsvInv, NEW t \in Tasks, NEW k \in Keys, CsvBegin(t, k)
    PROVE  CsvInv'
<1>1. CsvTypeOK /\ ~CsvPending(t) /\ journal' = journal
  BY DEF CsvInv, CsvBegin
<1>2. PICK how \in FirstPcs :
        /\ req' = Begun(t, k, how)
        /\ how = "key error" => k \in Bids
        /\ data' = [data EXCEPT ![k] = IF how = "query" THEN [there |-> TRUE, rows |-> 0] ELSE NoEntry]
  BY DEF CsvBegin, FirstPcs
<1>3. /\ req' \in [Tasks -> CsvRequest]
      /\ req'[t] = FirstState(k, how)
      /\ \A s \in Tasks \ {t} :
            req'[s] = IF s \in Equals(k) THEN [req[s] EXCEPT !.alone = FALSE] ELSE req[s]
  <2>1. /\ Begun(t, k, how) \in [Tasks -> CsvRequest]
        /\ Begun(t, k, how)[t] = FirstState(k, how)
        /\ \A s \in Tasks \ {t} : Begun(t, k, how)[s] =
              IF s \in Equals(k) THEN [req[s] EXCEPT !.alone = FALSE] ELSE req[s]
    BY <1>1, BegunFacts
  <2> QED BY <1>2, <2>1, Zenon
<1>4. /\ req'[t].pc = how /\ req'[t].key = k /\ req'[t].read = 0 /\ req'[t].got = 0
      /\ req'[t].since = journal /\ req'[t].oldest = OldestOf(k)
      /\ req'[t].alone => Equals(k) = {}
  <2>1. /\ FirstState(k, how).pc = how /\ FirstState(k, how).key = k
        /\ FirstState(k, how).read = 0 /\ FirstState(k, how).got = 0
        /\ FirstState(k, how).since = journal /\ FirstState(k, how).oldest = OldestOf(k)
    BY DEF FirstState
  <2>2. FirstState(k, how).alone => Equals(k) = {}
    BY Zenon DEF FirstState
  <2> QED BY <1>3, <2>1, <2>2
<1>5. how \notin {"resample", "failing", "merge", "csv"}
  BY DEF FirstPcs
<1>6. CsvTypeOK'
  <2>1. 0 \in Reports
    BY RequestDataAssumption DEF Reports
  <2> QED BY <1>1, <1>2, <1>3, <2>1, EntryType DEF CsvTypeOK
<1>7. \A s \in Tasks \ {t} :
        /\ req'[s].pc = req[s].pc /\ req'[s].key = req[s].key /\ req'[s].read = req[s].read
        /\ req'[s].got = req[s].got /\ req'[s].since = req[s].since /\ req'[s].oldest = req[s].oldest
        /\ req'[s].alone = (req[s].alone /\ s \notin Equals(k))
  BY <1>1, <1>3 DEF CsvTypeOK, CsvRequest
<1>8. \A s \in Tasks \ {t} : CsvPending(s)' <=> CsvPending(s)
  BY <1>7 DEF CsvPending
<1>9. CsvPending(t)' <=> how = "query"
  BY <1>4 DEF CsvPending, Pending, FirstPcs
<1>10. \A l \in Keys \ {k} : data'[l] = data[l]
  BY <1>1, <1>2 DEF CsvTypeOK
<1>11. data'[k] = IF how = "query" THEN [there |-> TRUE, rows |-> 0] ELSE NoEntry
  BY <1>1, <1>2 DEF CsvTypeOK
<1>12. data'[k].rows = 0
  BY <1>11 DEF NoEntry
<1>13. /\ journal \in Nat
       /\ OldestOf(k) <= journal
       /\ \A s \in Equals(k) : OldestOf(k) <= req[s].since
       /\ \A s \in Tasks : CsvPending(s) => req[s].since <= journal
  <2>1. \A s \in Tasks : Dated(s)
    BY DEF CsvInv
  <2>2. OldestOf(k) <= journal /\ \A s \in Equals(k) : OldestOf(k) <= req[s].since
    BY <1>1, <2>1, OldestFacts DEF Equals
  <2>3. journal \in Nat
    BY <1>1, RequestDataAssumption DEF CsvTypeOK, Reports
  <2> QED BY <2>1, <2>2, <2>3 DEF Dated
<1>14. ASSUME NEW s \in Tasks PROVE (Dated(s) /\ OwnEntry(s) /\ EntryDated(s) /\ Taken(s))'
  <2>1. CASE s = t
    <3>1. Dated(s)'
      BY <2>1, <1>1, <1>4, <1>9, <1>13 DEF Dated
    <3>2. Taken(s)'
      BY <2>1, <1>4, <1>5 DEF Taken
    <3>3. OwnEntry(s)' /\ EntryDated(s)'
      BY <2>1, <1>4, <1>9, <1>11, <1>12 DEF OwnEntry, EntryDated
    <3> QED BY <3>1, <3>2, <3>3
  <2>2. CASE s # t
    <3>1. Dated(s) /\ OwnEntry(s) /\ EntryDated(s) /\ Taken(s)
      BY DEF CsvInv
    <3>2. Dated(s)' /\ Taken(s)'
      BY <2>2, <3>1, <1>1, <1>7, <1>8 DEF Dated, Taken
    <3>3. OwnEntry(s)'
      <4> SUFFICES ASSUME CsvPending(s)', req'[s].alone PROVE OwnEntry(s)'
        BY DEF OwnEntry
      <4>1. req[s].key # k /\ CsvPending(s) /\ req[s].alone
        BY <2>2, <1>7, <1>8 DEF Equals
      <4> QED BY <2>2, <3>1, <4>1, <1>7, <1>10 DEF Dated, OwnEntry
    <3>4. EntryDated(s)'
      BY <2>2, <3>1, <1>7, <1>8, <1>10, <1>12 DEF Dated, EntryDated
    <3> QED BY <3>2, <3>3, <3>4
  <2> QED BY <2>1, <2>2
<1>15. ASSUME NEW s \in Tasks, NEW u \in Tasks PROVE Known(s, u)'
  <2> SUFFICES ASSUME CsvPending(s)', CsvPending(u)', req'[s].key = req'[u].key
               PROVE  (req'[u].alone => s = u) /\ req'[u].oldest <= req'[s].since
    BY DEF Known
  <2>1. CASE s # t /\ u # t
    BY <2>1, <1>7, <1>8 DEF CsvInv, Known
  <2>2. CASE s = t /\ u # t
    <3>1. u \in Equals(k)
      BY <2>2, <1>4, <1>7, <1>8 DEF Equals
    <3>2. ~req'[u].alone
      BY <2>2, <3>1, <1>7
    <3>3. req[u].oldest <= req[u].since /\ req[u].since <= journal
      BY <3>1, <1>13 DEF CsvInv, Known, Equals
    <3>4. req[u].oldest \in Nat /\ req[u].since \in Nat
      BY <1>1, RequestDataAssumption DEF CsvTypeOK, CsvRequest, Reports
    <3> QED BY <2>2, <3>2, <3>3, <3>4, <1>4, <1>7, <1>13
  <2>3. CASE s # t /\ u = t
    <3>1. s \in Equals(k)
      BY <2>3, <1>4, <1>7, <1>8 DEF Equals
    <3> QED BY <2>3, <3>1, <1>4, <1>7, <1>13
  <2>4. CASE s = t /\ u = t
    BY <2>4, <1>4, <1>13
  <2> QED BY <2>1, <2>2, <2>3, <2>4
<1>16. NothingLeft'
  <2> SUFFICES ASSUME NEW l \in Keys, data'[l].there PROVE Equals(l)' # {}
    BY DEF NothingLeft
  <2>1. CASE l = k
    <3>1. how = "query"
      BY <2>1, <1>11 DEF NoEntry
    <3>2. t \in Equals(l)'
      BY <2>1, <3>1, <1>4, <1>9 DEF Equals
    <3> QED BY <3>2
  <2>2. CASE l # k
    <3>1. PICK s \in Equals(l) : TRUE
      BY <2>2, <1>10 DEF CsvInv, NothingLeft
    <3>2. s \in Equals(l)'
      BY <3>1, <1>1, <1>7, <1>8 DEF Equals
    <3> QED BY <3>2
  <2> QED BY <2>1, <2>2
<1>17. ASSUME NEW s \in Tasks PROVE Right(req'[s])
  <2>1. CASE s = t
    BY <2>1, <1>2, <1>4 DEF Right, FirstPcs
  <2>2. CASE s # t /\ s \in Equals(k)
    <3>1. req'[s].pc \in Pending
      BY <2>2, <1>7 DEF Equals, CsvPending
    <3> QED BY <3>1 DEF Right, Pending
  <2>3. CASE s # t /\ s \notin Equals(k)
    BY <2>3, <1>3 DEF CsvInv, FailsOnlyTogether, AnswerOwnOrMet, Right
  <2> QED BY <2>1, <2>2, <2>3
<1>18. FailsOnlyTogether' /\ AnswerOwnOrMet'
  BY <1>17 DEF FailsOnlyTogether, AnswerOwnOrMet, Right
<1> QED BY <1>6, <1>14, <1>15, <1>16, <1>18 DEF CsvInv

-----------------------------------------------------------------------------
\* A request that goes on to another step, others and their entries left alone.
LEMMA GoingOn ==
    ASSUME CsvInv, NEW t \in Tasks, CsvPending(t), NEW r \in CsvRequest,
           r.pc \in Pending, r.pc # "query",
           r.key = req[t].key, r.since = req[t].since, r.oldest = req[t].oldest,
           r.alone = req[t].alone,
           req' = [req EXCEPT ![t] = r], data' \in [Keys -> Entry], journal' = journal,
           \A k \in Keys \ {req[t].key} : data'[k] = data[k],
           (Dated(t) /\ OwnEntry(t) /\ Taken(t))',
           \A s \in Tasks : req[s].key = req[t].key => EntryDated(s)'
    PROVE  CsvInv'
<1>1. CsvTypeOK /\ req[t].key \in Keys
  BY DEF CsvInv, Dated
<1>2. CsvTypeOK'
  BY <1>1 DEF CsvTypeOK
<1>3. req'[t] = r /\ \A s \in Tasks \ {t} : req'[s] = req[s]
  BY <1>1 DEF CsvTypeOK
<1>4. \A s \in Tasks :
        /\ CsvPending(s)' <=> CsvPending(s)
        /\ req'[s].key = req[s].key /\ req'[s].since = req[s].since
        /\ req'[s].oldest = req[s].oldest /\ req'[s].alone = req[s].alone
  BY <1>3 DEF CsvPending
<1>5. ASSUME NEW s \in Tasks PROVE (Dated(s) /\ OwnEntry(s) /\ EntryDated(s) /\ Taken(s))'
  <2>1. EntryDated(s)'
    BY <1>3, <1>4 DEF CsvInv, Dated, EntryDated
  <2>2. Dated(s)' /\ Taken(s)'
    BY <1>3, <1>4 DEF CsvInv, Dated, Taken
  <2>3. OwnEntry(s)'
    <3>1. CASE s = t
      BY <3>1
    <3>2. CASE s # t /\ CsvPending(s) /\ req[s].alone
      <4>1. req[s].key # req[t].key /\ req[s].key \in Keys
        BY <3>2 DEF CsvInv, Known, Dated
      <4> QED BY <3>2, <4>1, <1>3, <1>4 DEF CsvInv, OwnEntry
    <3>3. CASE s # t /\ ~(CsvPending(s) /\ req[s].alone)
      BY <3>3, <1>4 DEF OwnEntry
    <3> QED BY <3>1, <3>2, <3>3
  <2> QED BY <2>1, <2>2, <2>3
<1>6. \A s, u \in Tasks : Known(s, u)'
  BY <1>4 DEF CsvInv, Known
<1>7. NothingLeft'
  <2> SUFFICES ASSUME NEW k \in Keys, data'[k].there PROVE Equals(k)' # {}
    BY DEF NothingLeft
  <2>1. \E s \in Tasks : CsvPending(s) /\ req[s].key = k
    BY DEF CsvInv, NothingLeft, Equals
  <2> QED BY <2>1, <1>4 DEF Equals
<1>8. FailsOnlyTogether' /\ AnswerOwnOrMet'
  <2> SUFFICES ASSUME NEW s \in Tasks PROVE Right(req'[s])
    BY DEF FailsOnlyTogether, AnswerOwnOrMet, Right
  <2>1. Right(req[s])
    BY DEF CsvInv, FailsOnlyTogether, AnswerOwnOrMet, Right
  <2>2. Right(r)
    BY DEF Right, Pending
  <2>3. req'[s] = req[s] \/ req'[s] = r
    BY <1>3
  <2> QED BY <2>1, <2>2, <2>3
<1> QED BY <1>2, <1>5, <1>6, <1>7, <1>8 DEF CsvInv

\* The rows are read, as the journal is then (get_data).
LEMMA CsvQueriedInv ==
    ASSUME CsvInv, NEW t \in Tasks, CsvQueried(t)
    PROVE  CsvInv'
<1> DEFINE r == [req[t] EXCEPT !.pc = "rows", !.read = journal]
<1>1. CsvTypeOK /\ CsvPending(t) /\ Dated(t) /\ OwnEntry(t)
  BY DEF CsvInv, CsvQueried, CsvPending, Pending
<1>2. r \in CsvRequest /\ r.pc = "rows" /\ r.pc \in Pending
  BY <1>1 DEF CsvTypeOK, CsvRequest, Pending
<1>3. /\ r.key = req[t].key /\ r.since = req[t].since /\ r.oldest = req[t].oldest
      /\ r.alone = req[t].alone /\ r.read = journal
  BY <1>1 DEF CsvTypeOK, CsvRequest
<1>4. req' = [req EXCEPT ![t] = r] /\ data' = data /\ journal' = journal
  BY DEF CsvQueried
<1>5. req'[t] = r /\ \A s \in Tasks \ {t} : req'[s] = req[s]
  BY <1>1, <1>4 DEF CsvTypeOK
<1>6. (Dated(t) /\ OwnEntry(t) /\ Taken(t))'
  BY <1>1, <1>2, <1>3, <1>4, <1>5 DEF Dated, OwnEntry, Taken
<1>7. \A s \in Tasks : EntryDated(s)'
  <2> SUFFICES ASSUME NEW s \in Tasks PROVE EntryDated(s)'
    OBVIOUS
  <2>1. CsvPending(s)' <=> CsvPending(s)
    BY <1>1, <1>2, <1>5 DEF CsvPending
  <2>2. req'[s].key = req[s].key /\ req'[s].oldest = req[s].oldest
    BY <1>3, <1>5
  <2> QED BY <1>4, <2>1, <2>2 DEF CsvInv, EntryDated
<1>8. data' \in [Keys -> Entry] /\ \A k \in Keys \ {req[t].key} : data'[k] = data[k]
  BY <1>1, <1>4 DEF CsvTypeOK
<1>9. r.pc # "query"
  BY <1>2
<1> QED BY <1>1, <1>2, <1>3, <1>4, <1>6, <1>7, <1>8, <1>9, GoingOn

\* What the rows hold is put into the entry, if there is one.
LEMMA ProcessedInv ==
    ASSUME CsvInv, NEW t \in Tasks, req[t].pc = "rows", req[t].read > 0, Processed(t),
           journal' = journal
    PROVE  CsvInv'
<1> DEFINE r == [req[t] EXCEPT !.pc = "resample"]
           k == req[t].key
<1>1. CsvTypeOK /\ CsvPending(t) /\ Dated(t) /\ OwnEntry(t) /\ k \in Keys
  BY DEF CsvInv, CsvPending, Pending, Dated
<1>2. r \in CsvRequest /\ r.pc = "resample" /\ r.pc \in Pending
  BY <1>1 DEF CsvTypeOK, CsvRequest, Pending
<1>3. /\ r.key = k /\ r.since = req[t].since /\ r.oldest = req[t].oldest
      /\ r.alone = req[t].alone /\ r.read = req[t].read
  BY <1>1 DEF CsvTypeOK, CsvRequest
<1>4. req' = [req EXCEPT ![t] = r]
  BY DEF Processed
<1>5. req'[t] = r /\ \A s \in Tasks \ {t} : req'[s] = req[s]
  BY <1>1, <1>4 DEF CsvTypeOK
<1>6. /\ data' \in [Keys -> Entry]
      /\ data'[k] = [there |-> TRUE, rows |-> req[t].read]
      /\ \A l \in Keys \ {k} : data'[l] = data[l]
  <2>1. req[t].read \in Reports
    BY <1>1 DEF CsvTypeOK, CsvRequest
  <2> QED BY <1>1, <2>1, EntryType DEF CsvTypeOK, Processed
<1>7. (Dated(t) /\ OwnEntry(t) /\ Taken(t))'
  BY <1>1, <1>2, <1>3, <1>5, <1>6 DEF Dated, OwnEntry, Taken
<1>8. \A s \in Tasks : req[s].key = k => EntryDated(s)'
  <2> SUFFICES ASSUME NEW s \in Tasks, req[s].key = k, CsvPending(s)'
               PROVE  EntryDated(s)'
    BY DEF EntryDated
  <2>1. req'[s].key = k
    BY <1>3, <1>5
  <2>2. CsvPending(s) /\ req'[s].oldest = req[s].oldest
    BY <1>1, <1>3, <1>5 DEF CsvPending
  <2>3. req[s].oldest <= req[t].since
    BY <1>1, <2>2 DEF CsvInv, Known
  <2>4. req[t].since <= req[t].read
    BY <1>1 DEF Dated
  <2>5. req[s].oldest \in Nat /\ req[t].since \in Nat /\ req[t].read \in Nat
    BY <1>1, RequestDataAssumption DEF CsvTypeOK, CsvRequest, Reports
  <2>6. req'[s].oldest <= req[t].read
    BY <2>2, <2>3, <2>4, <2>5
  <2> QED BY <2>1, <2>6, <1>6 DEF EntryDated
<1>9. r.pc # "query"
  BY <1>2
<1> QED BY <1>1, <1>2, <1>3, <1>4, <1>6, <1>7, <1>8, <1>9, GoingOn

\* The channels are resampled from the entry.
LEMMA CsvResampleInv ==
    ASSUME CsvInv, NEW t \in Tasks, CsvResample(t)
    PROVE  CsvInv'
<1> DEFINE k == req[t].key
           rows == data[k].rows
           r == IF rows > 0 THEN [req[t] EXCEPT !.pc = "merge", !.got = rows]
                            ELSE [req[t] EXCEPT !.pc = "failing"]
<1>1. CsvTypeOK /\ CsvPending(t) /\ Dated(t) /\ OwnEntry(t) /\ EntryDated(t) /\ k \in Keys
  BY DEF CsvInv, CsvResample, CsvPending, Pending, Dated
<1>2. /\ r \in CsvRequest /\ r.pc \in {"merge", "failing"}
      /\ r.key = k /\ r.since = req[t].since /\ r.oldest = req[t].oldest
      /\ r.alone = req[t].alone /\ r.read = req[t].read
  <2>1. rows \in Reports /\ req[t] \in CsvRequest
    BY <1>1 DEF CsvTypeOK, Entry
  <2> QED BY <2>1 DEF CsvRequest, Pending
<1>3. r.pc \in Pending /\ r.pc # "query"
  BY <1>2 DEF Pending
<1>4. req' = [req EXCEPT ![t] = r] /\ data' = data /\ journal' = journal
  BY DEF CsvResample
<1>5. req'[t] = r /\ \A s \in Tasks \ {t} : req'[s] = req[s]
  BY <1>1, <1>4 DEF CsvTypeOK
<1>6. Taken(t)'
  <2>1. CASE rows > 0
    <3>1. r.pc = "merge" /\ r.got = rows
      BY <2>1, <1>1 DEF CsvTypeOK, CsvRequest
    <3>2. req[t].oldest <= rows
      BY <1>1, <2>1 DEF EntryDated
    <3>3. req[t].alone => rows = req[t].read
      BY <1>1 DEF OwnEntry, CsvResample
    <3> QED BY <3>1, <3>2, <3>3, <2>1, <1>2, <1>5 DEF Taken
  <2>2. CASE ~(rows > 0)
    <3>1. r.pc = "failing"
      BY <2>2, <1>1 DEF CsvTypeOK, CsvRequest
    <3>2. req[t].alone => rows = req[t].read
      BY <1>1 DEF OwnEntry, CsvResample
    <3>3. req[t].read > 0
      BY <1>1 DEF Dated, CsvResample
    <3> QED BY <3>1, <3>2, <3>3, <2>2, <1>2, <1>5 DEF Taken
  <2> QED BY <2>1, <2>2
<1>7. Dated(t)' /\ OwnEntry(t)'
  <2>1. Dated(t)'
    BY <1>1, <1>2, <1>3, <1>4, <1>5 DEF Dated, CsvResample
  <2>2. OwnEntry(t)'
    BY <1>1, <1>2, <1>4, <1>5 DEF OwnEntry
  <2> QED BY <2>1, <2>2
<1>8. \A s \in Tasks : EntryDated(s)'
  <2> SUFFICES ASSUME NEW s \in Tasks PROVE EntryDated(s)'
    OBVIOUS
  <2>1. CsvPending(s)' <=> CsvPending(s)
    BY <1>1, <1>3, <1>5 DEF CsvPending
  <2>2. req'[s].key = req[s].key /\ req'[s].oldest = req[s].oldest
    BY <1>2, <1>5
  <2> QED BY <1>4, <2>1, <2>2 DEF CsvInv, EntryDated
<1>9. data' \in [Keys -> Entry] /\ \A l \in Keys \ {k} : data'[l] = data[l]
  BY <1>1, <1>4 DEF CsvTypeOK
<1> QED BY <1>1, <1>2, <1>3, <1>4, <1>6, <1>7, <1>8, <1>9, GoingOn

-----------------------------------------------------------------------------
\* An answer that is taken from the entry, or at once from what was read.
LEMMA AnswerInv ==
    ASSUME CsvInv, NEW t \in Tasks, CsvPending(t), NEW got \in Reports,
           got > 0, req[t].oldest <= got, req[t].alone => got = req[t].read,
           req[t].pc # "query",
           req' = [req EXCEPT ![t].pc = "csv", ![t].got = got],
           data' = [data EXCEPT ![req[t].key] = NoEntry], journal' = journal
    PROVE  CsvInv'
<1> DEFINE r == [req[t] EXCEPT !.pc = "csv", !.got = got]
<1>1. CsvTypeOK /\ req[t].since <= req[t].read
  BY DEF CsvInv, Dated
<1>2. /\ r \in CsvRequest /\ r.pc = "csv" /\ r.got = got /\ r.alone = req[t].alone
      /\ r.read = req[t].read /\ r.oldest = req[t].oldest /\ r.since = req[t].since
  BY <1>1 DEF CsvTypeOK, CsvRequest, Over
<1>3. req[t].since \in Nat /\ req[t].read \in Nat /\ req[t].oldest \in Nat /\ got \in Nat
  BY <1>1, RequestDataAssumption DEF CsvTypeOK, CsvRequest, Reports
<1>4. Right(r)
  BY <1>1, <1>2, <1>3 DEF Right
<1>5. r.pc \in Over
  BY <1>2 DEF Over
<1>6. req' = [req EXCEPT ![t] = r]
  BY <1>1 DEF CsvTypeOK
<1> QED BY <1>2, <1>4, <1>5, <1>6, Closing

\* The rows are processed, or the request fails or finds nothing (get_data).
LEMMA CsvProcessInv ==
    ASSUME CsvInv, NEW t \in Tasks, CsvProcess(t)
    PROVE  CsvInv'
<1>1. /\ CsvTypeOK /\ CsvPending(t) /\ Dated(t) /\ OwnEntry(t)
      /\ req[t].pc = "rows" /\ journal' = journal
  BY DEF CsvInv, CsvProcess, CsvPending, Pending
<1>2. \A how \in {"no data", "key error", "refused", "error"} : how \in Over \ {"csv"}
  BY DEF Over
<1>3. CASE req[t].read = 0 /\ End(t, "no data")
  BY <1>1, <1>2, <1>3, EndInv
<1>4. CASE ~data[req[t].key].there /\ End(t, "key error")
  BY <1>1, <1>2, <1>4, EndInv DEF OwnEntry
<1>5. CASE req[t].read > 0 /\ Processed(t)
  BY <1>1, <1>5, ProcessedInv
<1>6. CASE \E how \in {"no data", "refused", "error"} : End(t, how)
  BY <1>1, <1>2, <1>6, EndInv
<1>7. CASE /\ req[t].read > 0
           /\ req' = [req EXCEPT ![t].pc = "csv", ![t].got = req[t].read]
           /\ data' = [data EXCEPT ![req[t].key] = NoEntry]
  <2>1. req[t].read \in Reports /\ req[t].oldest \in Nat /\ req[t].since \in Nat /\ req[t].read \in Nat
    BY <1>1, RequestDataAssumption DEF CsvTypeOK, CsvRequest, Reports
  <2>2. req[t].oldest <= req[t].since /\ req[t].since <= req[t].read
    BY <1>1 DEF CsvInv, Known, Dated
  <2>3. req[t].oldest <= req[t].read
    BY <2>1, <2>2
  <2>4. req[t].pc # "query"
    BY <1>1
  <2> QED BY <1>1, <1>7, <2>1, <2>3, <2>4, AnswerInv
<1> QED BY <1>1, <1>3, <1>4, <1>5, <1>6, <1>7 DEF CsvProcess

\* The file is made or a task's error raised, and the entry deleted (get_csv).
LEMMA CsvFinishInv ==
    ASSUME CsvInv, NEW t \in Tasks, CsvFinish(t)
    PROVE  CsvInv'
<1>1. CsvTypeOK /\ CsvPending(t) /\ Taken(t) /\ journal' = journal
  BY DEF CsvInv, CsvFinish, CsvPending, Pending
<1>2. CASE req[t].pc = "merge" /\ End(t, "csv")
  <2>1. req[t].got \in Reports /\ req[t].got > 0 /\ req[t].oldest <= req[t].got
    BY <1>1, <1>2 DEF CsvTypeOK, CsvRequest, Taken
  <2>2. req[t].alone => req[t].got = req[t].read
    BY <1>1, <1>2 DEF Taken
  <2>3. req' = [req EXCEPT ![t].pc = "csv", ![t].got = req[t].got]
    BY <1>1, <1>2 DEF End, CsvTypeOK, CsvRequest
  <2> QED BY <1>1, <1>2, <2>1, <2>2, <2>3, AnswerInv DEF End
<1>3. CASE req[t].pc = "failing" /\ End(t, "key error")
  BY <1>1, <1>3, EndInv DEF Taken, Over
<1> QED BY <1>2, <1>3 DEF CsvFinish

\* A report is persisted (external).
LEMMA PersistInv ==
    ASSUME CsvInv, Persist
    PROVE  CsvInv'
<1>1. CsvTypeOK /\ req' = req /\ data' = data
  BY DEF CsvInv, Persist
<1>2. journal \in Nat /\ journal' \in Reports /\ journal <= journal'
  BY <1>1, RequestDataAssumption DEF CsvTypeOK, Reports, Persist
<1>3. CsvTypeOK'
  BY <1>1, <1>2 DEF CsvTypeOK
<1>4. ASSUME NEW t \in Tasks PROVE Dated(t)'
  <2>1. req[t].since \in Nat
    BY <1>1, RequestDataAssumption DEF CsvTypeOK, CsvRequest, Reports
  <2> QED BY <1>1, <1>2, <2>1 DEF CsvInv, Dated, CsvPending, Persist
<1>5. \A t \in Tasks : (OwnEntry(t) /\ EntryDated(t) /\ Taken(t))'
  BY <1>1 DEF CsvInv, OwnEntry, EntryDated, Taken, CsvPending
<1>6. \A s, t \in Tasks : Known(s, t)'
  BY <1>1 DEF CsvInv, Known, CsvPending
<1>7. NothingLeft'
  BY <1>1 DEF CsvInv, NothingLeft, Equals, CsvPending
<1>8. FailsOnlyTogether' /\ AnswerOwnOrMet'
  BY <1>1 DEF CsvInv, FailsOnlyTogether, AnswerOwnOrMet
<1> QED BY <1>3, <1>4, <1>5, <1>6, <1>7, <1>8 DEF CsvInv

\* The slot of a request that is over is given to another kind.
LEMMA SlotFreed ==
    ASSUME CsvInv, NEW t \in Tasks, ~CsvPending(t), req' = [req EXCEPT ![t] = NoCsv],
           UNCHANGED <<journal, data>>
    PROVE  CsvInv'
<1>1. CsvTypeOK /\ CsvTypeOK'
  BY NoCsvType DEF CsvInv, CsvTypeOK
<1>2. req'[t] = NoCsv /\ \A s \in Tasks \ {t} : req'[s] = req[s]
  BY <1>1 DEF CsvTypeOK
<1>3. NoCsv.pc = "free"
  BY DEF NoCsv
<1>4. \A s \in Tasks : CsvPending(s)' <=> CsvPending(s)
  BY <1>2, <1>3 DEF CsvPending, Pending
<1>5. \A s \in Tasks : CsvPending(s) => req'[s] = req[s]
  BY <1>2
<1>6. \A s \in Tasks : (Dated(s) /\ OwnEntry(s) /\ EntryDated(s))'
  BY <1>4, <1>5 DEF CsvInv, Dated, OwnEntry, EntryDated
<1>7. \A s \in Tasks : Taken(s)'
  BY <1>2, <1>3 DEF CsvInv, Taken
<1>8. \A s, u \in Tasks : Known(s, u)'
  BY <1>4, <1>5 DEF CsvInv, Known
<1>9. NothingLeft'
  BY <1>4, <1>5 DEF CsvInv, NothingLeft, Equals
<1>10. FailsOnlyTogether' /\ AnswerOwnOrMet'
  BY <1>2, <1>3 DEF CsvInv, FailsOnlyTogether, AnswerOwnOrMet
<1> QED BY <1>1, <1>6, <1>7, <1>8, <1>9, <1>10 DEF CsvInv

\* Every step of the CSV requests keeps their invariant.
LEMMA CsvStepInv ==
    ASSUME CsvInv, NEW t \in Tasks, CsvStep(t)
    PROVE  CsvInv'
<1>1. CASE CsvQueried(t)
  BY <1>1, CsvQueriedInv
<1>2. CASE CsvQueryFails(t)
  BY <1>2, EndInv DEF CsvQueryFails, CsvPending, Pending, Over
<1>3. CASE CsvProcess(t)
  BY <1>3, CsvProcessInv
<1>4. CASE CsvResample(t)
  BY <1>4, CsvResampleInv
<1>5. CASE CsvFinish(t)
  BY <1>5, CsvFinishInv
<1>6. CASE CsvTimeout(t)
  BY <1>6, EndInv DEF CsvTimeout, Over
<1> QED BY <1>1, <1>2, <1>3, <1>4, <1>5, <1>6 DEF CsvStep

-----------------------------------------------------------------------------
\* What a download has seen is of its own export, if no other came between, and of no
\* earlier one.
Download(t) ==
    LET r == flo[t]
        right(n) == n >= r.own /\ (~r.met => n = r.own)
    IN /\ r.pc \in {"stat", "open"} =>
             /\ result # 0 => right(contents[result])
             /\ ~r.met => result # 0
       /\ r.pc = "sending" => right(contents[r.file])
       /\ r.pc \in {"open", "sending", "file"} =>
             /\ \A n \in r.seen : n >= r.own
             /\ ~r.met => r.seen = {r.own}
       /\ r.pc \in FloPendingPcs => r.left > 0

\* No number is used that was not given out.
Numbered ==
    /\ result <= exports
    /\ \A f \in Exports : contents[f] <= exports
    /\ \A t \in Tasks : flo[t].own <= exports

FloInv == FloTypeOK /\ Numbered /\ \A t \in Tasks : Download(t)

\* Exports are numbered.
LEMMA ExportsType == Exports \subseteq Nat /\ 0 \in Exports
BY FloDownloadAssumption DEF Exports

\* A download that begins is in order.
LEMMA NewFloType ==
    /\ \A route \in {"legacy", "v2"} : NewFlo(route) \in FloRequest
    /\ NoFlo \in FloRequest
<1>1. Chunks \in 0..Chunks /\ 0 \in Exports
  BY FloDownloadAssumption, ExportsType
<1>2. \A route \in {"legacy", "v2"} : NewFlo(route) \in FloRequest
  BY <1>1 DEF NewFlo, FloRequest, FloPendingPcs
<1>3. NoFlo \in FloRequest
  BY <1>1 DEF NoFlo, NewFlo, FloRequest
<1> QED BY <1>2, <1>3

\* The invariant of the downloads holds at the start.
LEMMA FloInitInv == FloInit => FloInv
<1> SUFFICES ASSUME FloInit PROVE FloInv
  OBVIOUS
<1>1. FloTypeOK
  BY NewFloType, ExportsType DEF FloInit, FloTypeOK
<1>2. \A t \in Tasks : flo[t].pc = "free" /\ flo[t].own = 0
  BY DEF FloInit, NoFlo, NewFlo
<1>3. Numbered
  BY <1>2, ExportsType DEF FloInit, Numbered
<1> QED BY <1>1, <1>2, <1>3 DEF FloInv, Download, FloPendingPcs

\* A step of t that leaves the file alone.
LEMMA FloMove ==
    ASSUME FloInv, NEW t \in Tasks, NEW r \in FloRequest, r.own <= exports,
           flo' = [flo EXCEPT ![t] = r], UNCHANGED <<exports, result, contents>>,
           Download(t)'
    PROVE  FloInv'
<1>1. FloTypeOK /\ FloTypeOK'
  BY DEF FloInv, FloTypeOK
<1>2. flo'[t] = r /\ \A s \in Tasks \ {t} : flo'[s] = flo[s]
  BY <1>1 DEF FloTypeOK
<1>3. Numbered'
  BY <1>2 DEF FloInv, Numbered
<1>4. \A s \in Tasks : Download(s)'
  BY <1>2 DEF FloInv, Download
<1> QED BY <1>1, <1>3, <1>4 DEF FloInv

\* A request that begins, or ends without a file: nothing is asked of its slot.
LEMMA FloReset ==
    ASSUME FloInv, NEW t \in Tasks, NEW r \in FloRequest, r.own <= exports,
           r.pc \notin {"stat", "open", "sending", "file"},
           r.pc = "finding" => r.left > 0,
           flo' = [flo EXCEPT ![t] = r], UNCHANGED <<exports, result, contents>>
    PROVE  FloInv'
<1>1. flo'[t] = r
  BY DEF FloInv, FloTypeOK
<1>2. Download(t)'
  BY <1>1 DEF Download, FloPendingPcs
<1> QED BY <1>2, FloMove

\* A download that fails or times out leaves the others what they need.
LEMMA FloEnds ==
    ASSUME FloInv, NEW t \in Tasks, NEW how \in {"failed", "timed out"},
           flo' = [flo EXCEPT ![t].pc = how], UNCHANGED <<exports, result, contents>>
    PROVE  FloInv'
<1> DEFINE r == [flo[t] EXCEPT !.pc = how]
<1>1. r \in FloRequest /\ r.pc = how /\ r.own = flo[t].own
  BY DEF FloInv, FloTypeOK, FloRequest
<1>2. r.own <= exports
  BY <1>1 DEF FloInv, Numbered
<1>3. r.pc \notin {"stat", "open", "sending", "file", "finding"}
  BY <1>1
<1>4. flo' = [flo EXCEPT ![t] = r]
  OBVIOUS
<1> QED BY <1>1, <1>2, <1>3, <1>4, FloReset

\* To have met another changes nothing else of a download.
LEMMA MetFields ==
    ASSUME NEW r \in FloRequest
    PROVE  /\ [r EXCEPT !.met = TRUE] \in FloRequest
           /\ [r EXCEPT !.met = TRUE].pc = r.pc
           /\ [r EXCEPT !.met = TRUE].own = r.own
           /\ [r EXCEPT !.met = TRUE].file = r.file
           /\ [r EXCEPT !.met = TRUE].left = r.left
           /\ [r EXCEPT !.met = TRUE].seen = r.seen
           /\ [r EXCEPT !.met = TRUE].met = TRUE
BY DEF FloRequest

\* A change of result.xlsx by t, which the other downloads meet.
LEMMA FloChange ==
    ASSUME FloInv, NEW t \in Tasks, NEW r \in FloRequest,
           flo' = [OthersMet(t) EXCEPT ![t] = r],
           exports' \in Exports, exports <= exports',
           result' \in Exports, result' <= exports',
           contents' \in [Exports -> Exports],
           \A f \in Exports : contents'[f] = contents[f] \/ contents'[f] = exports',
           result' # 0 => contents'[result'] = exports',
           r.own <= exports', Download(t)'
    PROVE  FloInv'
<1>1. /\ FloTypeOK /\ Numbered
      /\ exports \in Nat /\ exports' \in Nat /\ result' \in Nat
  BY ExportsType DEF FloInv, FloTypeOK
<1>2. \A s \in Tasks : [flo[s] EXCEPT !.met = TRUE] \in FloRequest
  BY <1>1, MetFields DEF FloTypeOK
<1>3. OthersMet(t) \in [Tasks -> FloRequest]
  BY <1>1, <1>2 DEF FloTypeOK, OthersMet
<1>4. FloTypeOK'
  BY <1>3 DEF FloTypeOK
<1>5. flo'[t] = r
  BY <1>3
<1>6. ASSUME NEW s \in Tasks \ {t}
      PROVE  /\ flo'[s].pc = flo[s].pc /\ flo'[s].own = flo[s].own /\ flo'[s].file = flo[s].file
             /\ flo'[s].left = flo[s].left /\ flo'[s].seen = flo[s].seen
             /\ flo[s].pc \in {"stat", "open", "sending"} => flo'[s].met
             /\ flo[s].pc = "file" => flo'[s].met = flo[s].met
  <2>1. flo'[s] = IF FloPending(s) /\ flo[s].pc # "finding"
                  THEN [flo[s] EXCEPT !.met = TRUE] ELSE flo[s]
    BY <1>3 DEF OthersMet
  <2>2. flo[s] \in FloRequest
    BY <1>1 DEF FloTypeOK
  <2>3. CASE FloPending(s) /\ flo[s].pc # "finding"
    <3>1. flo'[s] = [flo[s] EXCEPT !.met = TRUE]
      BY <2>1, <2>3
    <3>2. flo[s].pc # "file"
      BY <2>3 DEF FloPending, FloPendingPcs
    <3>3. /\ flo'[s].pc = flo[s].pc /\ flo'[s].own = flo[s].own /\ flo'[s].file = flo[s].file
          /\ flo'[s].left = flo[s].left /\ flo'[s].seen = flo[s].seen
      BY <2>2, <3>1, MetFields
    <3>4. flo'[s].met = TRUE
      BY <2>2, <3>1, MetFields
    <3> QED BY <3>2, <3>3, <3>4
  <2>4. CASE ~(FloPending(s) /\ flo[s].pc # "finding")
    <3>1. flo'[s] = flo[s]
      BY <2>1, <2>4
    <3>2. flo[s].pc \notin {"stat", "open", "sending"}
      BY <2>4 DEF FloPending, FloPendingPcs
    <3> QED BY <3>1, <3>2
  <2> QED BY <2>3, <2>4
<1>7. Numbered'
  <2>1. \A f \in Exports : contents[f] \in Nat /\ contents'[f] <= exports'
    <3> SUFFICES ASSUME NEW f \in Exports PROVE contents[f] \in Nat /\ contents'[f] <= exports'
      OBVIOUS
    <3>1. contents[f] \in Nat /\ contents[f] <= exports
      BY <1>1, ExportsType DEF FloTypeOK, Numbered
    <3>2. contents'[f] = contents[f] \/ contents'[f] = exports'
      OBVIOUS
    <3> QED BY <3>1, <3>2, <1>1
  <2>2. ASSUME NEW s \in Tasks PROVE flo'[s].own <= exports'
    <3>1. flo[s].own \in Nat /\ flo[s].own <= exports
      BY <1>1, ExportsType DEF FloTypeOK, FloRequest, Numbered
    <3> QED BY <3>1, <1>1, <1>5, <1>6
  <2> QED BY <2>1, <2>2 DEF Numbered
<1>8. ASSUME NEW s \in Tasks \ {t} PROVE Download(s)'
  <2>1. /\ Download(s) /\ flo[s].own <= exports
        /\ flo[s].own \in Nat /\ flo[s].file \in Exports
    BY <1>1, ExportsType DEF FloInv, FloTypeOK, FloRequest, Numbered
  <2>2. flo[s].own <= exports'
    BY <2>1, <1>1
  <2>3. flo[s].pc \in {"stat", "open"} /\ result' # 0 => contents'[result'] >= flo[s].own
    BY <1>1, <2>1, <2>2
  <2>4. flo[s].pc = "sending" => contents'[flo[s].file] >= flo[s].own
    <3>1. flo[s].pc = "sending" => contents[flo[s].file] >= flo[s].own
      BY <2>1 DEF Download
    <3> QED BY <3>1, <2>1, <2>2, <1>1
  <2>5. flo[s].pc \in {"open", "sending", "file"} => \A n \in flo[s].seen : n >= flo[s].own
    BY <2>1 DEF Download
  <2>6. flo[s].pc = "file" /\ ~flo[s].met => flo[s].seen = {flo[s].own}
    BY <2>1 DEF Download
  <2>7. flo[s].pc \in FloPendingPcs => flo[s].left > 0
    BY <2>1 DEF Download
  <2> QED BY <2>3, <2>4, <2>5, <2>6, <2>7, <1>6 DEF Download
<1> QED BY <1>4, <1>7, <1>8 DEF FloInv

-----------------------------------------------------------------------------
\* A download begins.
LEMMA FloBeginInv ==
    ASSUME FloInv, NEW t \in Tasks, FloBegin(t)
    PROVE  FloInv'
<1>1. PICK route \in {"legacy", "v2"} : flo' = [flo EXCEPT ![t] = NewFlo(route)]
  BY DEF FloBegin
<1>2. NewFlo(route) \in FloRequest
  BY <1>1, NewFloType
<1>3. NewFlo(route).pc = "finding" /\ NewFlo(route).own = 0 /\ NewFlo(route).left = Chunks
  BY DEF NewFlo
<1>4. Chunks > 0 /\ 0 <= exports
  BY FloDownloadAssumption, ExportsType DEF FloInv, FloTypeOK
<1> QED BY <1>1, <1>2, <1>3, <1>4, FloReset DEF FloBegin

\* No run is found: the legacy route removes the file.
LEMMA FloFindsNoneInv ==
    ASSUME FloInv, NEW t \in Tasks, FloFindsNone(t)
    PROVE  FloInv'
<1>1. CASE flo[t].route = "legacy"
  <2> DEFINE r == [flo[t] EXCEPT !.pc = "nothing"]
  <2>1. /\ FloTypeOK /\ Numbered
        /\ exports' = exports /\ contents' = contents /\ result' = 0
        /\ flo' = [OthersMet(t) EXCEPT ![t].pc = "nothing"]
    BY <1>1 DEF FloInv, FloFindsNone
  <2>2. OthersMet(t) \in [Tasks -> FloRequest] /\ OthersMet(t)[t] = flo[t]
    BY <2>1, MetFields DEF FloTypeOK, OthersMet
  <2>3. r \in FloRequest /\ r.pc = "nothing" /\ r.own = flo[t].own
    BY <2>1 DEF FloTypeOK, FloRequest
  <2>4. flo' = [OthersMet(t) EXCEPT ![t] = r]
    BY <2>1, <2>2
  <2>5. Download(t)'
    BY <2>2, <2>3, <2>4 DEF Download, FloPendingPcs
  <2>6. exports \in Nat /\ exports' \in Exports /\ exports <= exports' /\ result' \in Exports
        /\ result' <= exports'
    BY <2>1, ExportsType DEF FloTypeOK
  <2>7. contents' \in [Exports -> Exports] /\ r.own <= exports'
    BY <2>1, <2>3 DEF FloTypeOK, Numbered
  <2> QED BY <2>1, <2>3, <2>4, <2>5, <2>6, <2>7, FloChange
<1>2. CASE flo[t].route # "legacy"
  BY <1>2, FloEnds DEF FloFindsNone
<1> QED BY <1>1, <1>2

\* The workbook is written to the file.
LEMMA FloExportsInv ==
    ASSUME FloInv, NEW t \in Tasks, FloExports(t)
    PROVE  FloInv'
<1> DEFINE n == exports + 1
           r == [flo[t] EXCEPT !.pc = "stat", !.own = n]
<1>1. /\ FloTypeOK /\ Numbered /\ Download(t) /\ flo[t].pc = "finding"
      /\ exports' = n
      /\ flo' = [OthersMet(t) EXCEPT ![t].pc = "stat", ![t].own = exports']
      /\ contents' = [contents EXCEPT ![result'] = exports']
      /\ result' = IF result = 0 THEN exports' ELSE result
  BY DEF FloInv, FloExports
<1>2. exports \in Nat /\ n \in Exports /\ n \in Nat /\ result \in Nat /\ result \in Exports
  BY <1>1, FloDownloadAssumption DEF FloTypeOK, FloExports, Exports
<1>3. OthersMet(t) \in [Tasks -> FloRequest] /\ OthersMet(t)[t] = flo[t]
  BY <1>1, MetFields DEF FloTypeOK, OthersMet
<1>4. r \in FloRequest /\ r.pc = "stat" /\ r.own = n /\ r.left = flo[t].left
  BY <1>1, <1>2 DEF FloTypeOK, FloRequest, FloPendingPcs
<1>5. flo' = [OthersMet(t) EXCEPT ![t] = r]
  BY <1>1, <1>3
<1>6. result' \in Exports /\ result' # 0 /\ result' <= exports'
  <2>1. result <= exports
    BY <1>1 DEF Numbered
  <2> QED BY <1>1, <1>2, <2>1
<1>7. /\ contents' \in [Exports -> Exports]
      /\ \A f \in Exports : contents'[f] = contents[f] \/ contents'[f] = exports'
      /\ contents'[result'] = exports'
  BY <1>1, <1>2, <1>6 DEF FloTypeOK
<1>8. r.left > 0
  BY <1>1, <1>4 DEF Download, FloPendingPcs
<1>9. flo'[t] = r
  BY <1>3, <1>5
<1>10. Download(t)'
  <2>1. contents'[result'] = r.own /\ contents'[result'] >= r.own
    BY <1>1, <1>2, <1>4, <1>7
  <2> QED BY <2>1, <1>4, <1>6, <1>8, <1>9 DEF Download
<1>11. exports <= exports' /\ r.own <= exports'
  BY <1>1, <1>2, <1>4
<1> QED BY <1>1, <1>2, <1>4, <1>5, <1>6, <1>7, <1>10, <1>11, FloChange

\* The response takes the file's size for its headers (FileResponse).
LEMMA FloStatInv ==
    ASSUME FloInv, NEW t \in Tasks, FloStat(t)
    PROVE  FloInv'
<1>1. CASE result = 0
  BY <1>1, FloEnds DEF FloStat
<1>2. CASE result # 0
  <2> DEFINE r == [flo[t] EXCEPT !.pc = "open", !.seen = {contents[result]}]
  <2>1. /\ FloTypeOK /\ Numbered /\ Download(t) /\ flo[t].pc = "stat"
        /\ flo' = [flo EXCEPT ![t].pc = "open", ![t].seen = {contents[result]}]
        /\ UNCHANGED <<exports, result, contents>>
    BY <1>2 DEF FloInv, FloStat
  <2>2. /\ r \in FloRequest /\ r.pc = "open" /\ r.own = flo[t].own /\ r.left = flo[t].left
        /\ r.met = flo[t].met /\ r.seen = {contents[result]}
    BY <2>1 DEF FloTypeOK, FloRequest, FloPendingPcs
  <2>3. flo' = [flo EXCEPT ![t] = r] /\ flo'[t] = r
    BY <2>1 DEF FloTypeOK
  <2>4. Download(t)'
    BY <2>1, <2>2, <2>3, <1>2 DEF Download, FloPendingPcs
  <2>5. r.own <= exports
    BY <2>1, <2>2 DEF Numbered
  <2> QED BY <2>1, <2>2, <2>3, <2>4, <2>5, FloMove
<1> QED BY <1>1, <1>2

\* The response opens the file.
LEMMA FloOpenInv ==
    ASSUME FloInv, NEW t \in Tasks, FloOpen(t)
    PROVE  FloInv'
<1>1. CASE result = 0
  BY <1>1, FloEnds DEF FloOpen
<1>2. CASE result # 0
  <2> DEFINE r == [flo[t] EXCEPT !.pc = "sending", !.file = result]
  <2>1. /\ FloTypeOK /\ Numbered /\ Download(t) /\ flo[t].pc = "open"
        /\ flo' = [flo EXCEPT ![t].pc = "sending", ![t].file = result]
        /\ UNCHANGED <<exports, result, contents>>
    BY <1>2 DEF FloInv, FloOpen
  <2>2. /\ r \in FloRequest /\ r.pc = "sending" /\ r.own = flo[t].own /\ r.left = flo[t].left
        /\ r.met = flo[t].met /\ r.seen = flo[t].seen /\ r.file = result
    BY <2>1 DEF FloTypeOK, FloRequest, FloPendingPcs
  <2>3. flo' = [flo EXCEPT ![t] = r] /\ flo'[t] = r
    BY <2>1 DEF FloTypeOK
  <2>4. Download(t)'
    BY <2>1, <2>2, <2>3, <1>2 DEF Download, FloPendingPcs
  <2>5. r.own <= exports
    BY <2>1, <2>2 DEF Numbered
  <2> QED BY <2>1, <2>2, <2>3, <2>4, <2>5, FloMove
<1> QED BY <1>1, <1>2

\* The response sends a part of the file.
LEMMA FloSendInv ==
    ASSUME FloInv, NEW t \in Tasks, FloSend(t)
    PROVE  FloInv'
<1> DEFINE part == contents[flo[t].file]
           pc == IF flo[t].left = 1 THEN "file" ELSE "sending"
           r == [flo[t] EXCEPT !.seen = flo[t].seen \cup {part}, !.left = flo[t].left - 1, !.pc = pc]
<1>1. /\ FloTypeOK /\ Numbered /\ Download(t) /\ flo[t].pc = "sending"
      /\ UNCHANGED <<exports, result, contents>>
  BY DEF FloInv, FloSend
<1>2. CASE flo' = [flo EXCEPT ![t].pc = "failed"]
  BY <1>1, <1>2, FloEnds
<1>3. CASE flo' = [flo EXCEPT ![t].seen = @ \cup {part}, ![t].left = @ - 1,
                              ![t].pc = IF flo[t].left = 1 THEN "file" ELSE @]
  <2>1. /\ flo[t] \in FloRequest /\ part \in Exports
        /\ flo[t].left \in 1..Chunks
    <3>1. flo[t] \in FloRequest
      BY <1>1 DEF FloTypeOK
    <3>2. flo[t].file \in Exports /\ flo[t].left \in 0..Chunks
      BY <3>1 DEF FloRequest
    <3>3. part \in Exports
      BY <1>1, <3>2 DEF FloTypeOK
    <3>4. flo[t].left > 0
      BY <1>1 DEF Download, FloPendingPcs
    <3> QED BY <3>1, <3>2, <3>3, <3>4, FloDownloadAssumption
  <2>2. flo[t].left - 1 \in 0..Chunks
    BY <2>1, FloDownloadAssumption
  <2>3. flo[t].seen \cup {part} \in SUBSET Exports
    BY <2>1 DEF FloRequest
  <2>4. pc \in FloPendingPcs \cup {"file"} /\ pc \in {"sending", "file"}
    BY DEF FloPendingPcs
  <2>5. /\ r \in FloRequest /\ r.pc = pc /\ r.own = flo[t].own /\ r.left = flo[t].left - 1
        /\ r.met = flo[t].met /\ r.seen = flo[t].seen \cup {part} /\ r.file = flo[t].file
    BY <2>1, <2>2, <2>3, <2>4 DEF FloRequest
  <2>6. flo' = [flo EXCEPT ![t] = r] /\ flo'[t] = r
    BY <1>1, <1>3 DEF FloTypeOK
  <2>7. r.pc = "sending" => r.left > 0
    BY <2>1, <2>5
  <2>8. part >= r.own /\ (~r.met => part = r.own)
    BY <1>1, <2>5 DEF Download
  <2>9. (\A n \in r.seen : n >= r.own) /\ (~r.met => r.seen = {r.own})
    BY <1>1, <2>5, <2>8 DEF Download
  <2>10. contents'[r.file] = part
    BY <1>1, <2>5
  <2>11. Download(t)'
    BY <2>4, <2>5, <2>6, <2>7, <2>8, <2>9, <2>10 DEF Download, FloPendingPcs
  <2>12. r.own <= exports
    BY <1>1, <2>5 DEF Numbered
  <2> HIDE DEF r
  <2> QED BY <1>1, <2>5, <2>6, <2>11, <2>12, FloMove
<1> QED BY <1>2, <1>3 DEF FloSend

\* Every step of the downloads keeps their invariant.
LEMMA FloStepInv ==
    ASSUME FloInv, NEW t \in Tasks, FloStep(t)
    PROVE  FloInv'
<1>1. CASE FloFindsNone(t)
  BY <1>1, FloFindsNoneInv
<1>2. CASE FloExports(t)
  BY <1>2, FloExportsInv
<1>3. CASE FloFails(t)
  BY <1>3, FloEnds DEF FloFails
<1>4. CASE FloStat(t)
  BY <1>4, FloStatInv
<1>5. CASE FloOpen(t)
  BY <1>5, FloOpenInv
<1>6. CASE FloSend(t)
  BY <1>6, FloSendInv
<1>7. CASE FloClientGone(t)
  BY <1>7, FloEnds DEF FloClientGone
<1> QED BY <1>1, <1>2, <1>3, <1>4, <1>5, <1>6, <1>7 DEF FloStep

-----------------------------------------------------------------------------
\* The two kinds together: whoever shares a slot leaves the other's state alone.
Inv == CsvInv /\ FloInv

\* The CSV requests do not depend on the downloads' variables.
LEMMA CsvStutter ==
    ASSUME CsvInv, UNCHANGED csvVars
    PROVE  CsvInv'
<1>1. journal' = journal /\ data' = data /\ req' = req
  BY DEF csvVars
<1>2. CsvTypeOK'
  BY <1>1 DEF CsvInv, CsvTypeOK
<1>3. \A t \in Tasks : (Dated(t) /\ OwnEntry(t) /\ EntryDated(t) /\ Taken(t))'
  BY <1>1 DEF CsvInv, Dated, OwnEntry, EntryDated, Taken, CsvPending
<1>4. \A s, t \in Tasks : Known(s, t)'
  BY <1>1 DEF CsvInv, Known, CsvPending
<1>5. NothingLeft'
  BY <1>1 DEF CsvInv, NothingLeft, Equals, CsvPending
<1>6. FailsOnlyTogether' /\ AnswerOwnOrMet'
  BY <1>1 DEF CsvInv, FailsOnlyTogether, AnswerOwnOrMet
<1> QED BY <1>2, <1>3, <1>4, <1>5, <1>6 DEF CsvInv

\* The downloads do not depend on the CSV requests' variables.
LEMMA FloStutter ==
    ASSUME FloInv, UNCHANGED floVars
    PROVE  FloInv'
BY DEF floVars, FloInv, FloTypeOK, Numbered, Download

\* Both invariants hold at the start.
LEMMA InitInv == Init => Inv
BY CsvInitInv, FloInitInv DEF Init, Inv

\* Every step keeps both.
LEMMA NextInv == Inv /\ [Next]_vars => Inv'
<1> SUFFICES ASSUME Inv, [Next]_vars PROVE Inv'
  OBVIOUS
<1>1. CsvInv /\ FloInv
  BY DEF Inv
<1>2. CASE Persist /\ UNCHANGED floVars
  BY <1>1, <1>2, PersistInv, FloStutter DEF Inv
<1>3. ASSUME NEW t \in Tasks, BeginCsv(t) PROVE Inv'
  <2>1. CsvInv'
    BY <1>1, <1>3, CsvBeginInv DEF BeginCsv
  <2>2. NoFlo \in FloRequest /\ NoFlo.pc = "free" /\ NoFlo.own = 0
    BY NewFloType DEF NoFlo, NewFlo
  <2>3. 0 <= exports
    BY <1>1, ExportsType DEF FloInv, FloTypeOK
  <2>4. FloInv'
    BY <1>1, <1>3, <2>2, <2>3, FloReset DEF BeginCsv
  <2> QED BY <2>1, <2>4 DEF Inv
<1>4. ASSUME NEW t \in Tasks, BeginFlo(t) PROVE Inv'
  <2>1. CsvInv'
    BY <1>1, <1>4, SlotFreed DEF BeginFlo
  <2>2. FloInv'
    BY <1>1, <1>4, FloBeginInv DEF BeginFlo
  <2> QED BY <2>1, <2>2 DEF Inv
<1>5. ASSUME NEW t \in Tasks, CsvGoesOn(t) PROVE Inv'
  BY <1>1, <1>5, CsvStepInv, FloStutter DEF CsvGoesOn, Inv
<1>6. ASSUME NEW t \in Tasks, FloGoesOn(t) PROVE Inv'
  BY <1>1, <1>6, FloStepInv, CsvStutter DEF FloGoesOn, Inv
<1>7. CASE UNCHANGED vars
  BY <1>1, <1>7, CsvStutter, FloStutter DEF vars, csvVars, floVars, Inv
<1> QED BY <1>2, <1>3, <1>4, <1>5, <1>6, <1>7 DEF Next

\* The inductive invariant of the process holds in every state.
LEMMA AlwaysInv == SafetySpec => []Inv
BY InitInv, NextInv, PTL DEF SafetySpec

\* Every state of the two kinds of requests has its types.
THEOREM TypeCorrect == SafetySpec => []TypeOK
<1>1. Inv => TypeOK
  BY DEF Inv, CsvInv, FloInv, TypeOK
<1> QED BY <1>1, AlwaysInv, PTL

\* Nothing is left in the dictionary by requests that are over, in whatever way and order
\* they end (get_csv's finally).
THEOREM NothingEverLeft == SafetySpec => []NothingLeft
<1>1. Inv => NothingLeft
  BY DEF Inv, CsvInv
<1> QED BY <1>1, AlwaysInv, PTL

\* A request that meets no equal one never misses its entry.
THEOREM AlwaysFailsOnlyTogether == SafetySpec => []FailsOnlyTogether
<1>1. Inv => FailsOnlyTogether
  BY DEF Inv, CsvInv
<1> QED BY <1>1, AlwaysInv, PTL

\* An answer has the readings of its own query, or none older than the first of the equal
\* requests it met.
THEOREM AnswerAlwaysOwnOrMet == SafetySpec => []AnswerOwnOrMet
<1>1. Inv => AnswerOwnOrMet
  BY DEF Inv, CsvInv
<1> QED BY <1>1, AlwaysInv, PTL

\* A download is of its own export, or of no earlier one if another request came between.
THEOREM DownloadAlwaysOwnOrMet == SafetySpec => []DownloadOwnOrMet
<1>1. FloInv => DownloadOwnOrMet
  BY DEF FloInv, Download, DownloadOwnOrMet
<1>2. Inv => DownloadOwnOrMet
  BY <1>1 DEF Inv
<1> QED BY <1>2, AlwaysInv, PTL
=============================================================================
