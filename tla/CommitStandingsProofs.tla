------------------------ MODULE CommitStandingsProofs ------------------------
(***************************************************************************)
(* Proofs about CommitStandings for any number of concurrent requests, any *)
(* commits, and any TTL and timeout.                                       *)
(***************************************************************************)
EXTENDS CommitStandings, FiniteSetTheorems, TLAPS

\* An entry's expiry is never more than a TTL after its answer was asked for, whoever
\* wrote it last: it is dated from the start of its request, the call came later.
CacheDated == \A c \in Commits : cache[c].expires <= cache[c].asOf + Ttl

\* A request that waits does so for a commit that is not dirty and still unresolved,
\* asked about after the request began.
Waiting(r) ==
    req[r].pc = "asking" =>
        /\ req[r].current \in req[r].left
        /\ req[r].left \cap Dirty = {}
        /\ req[r].started <= req[r].since
        /\ req[r].since <= now

\* Nothing but a dirty commit or a fresh answer is in a result.
Fresh(r) ==
    req[r].pc # "over" => \A c \in req[r].got \ Dirty : req[r].asOf[c] + Ttl > req[r].started

Counted(r) ==
    /\ req[r].pc = "answered" => req[r].got = req[r].commits
    /\ req[r].pc = "asking" => req[r].got \cup req[r].left = req[r].commits

Awaited(r) == req[r].pc # "asking" => req[r].current = NoCommit

Inv ==
    /\ TypeOK
    /\ CacheDated
    /\ \A c \in Dirty : cache[c] = NoEntry
    /\ \A r \in Requests : Waiting(r) /\ Fresh(r) /\ Counted(r) /\ Awaited(r)

\* No entry and no request are of their types.
LEMMA NoRequestType == NoRequest \in Request /\ NoEntry \in Entry
BY StandingsAssumption DEF NoRequest, Request, NoEntry, Entry, Time

\* A process starts in the invariant.
LEMMA InitInv == Init => Inv
<1> SUFFICES ASSUME Init PROVE Inv
  OBVIOUS
<1>1. TypeOK
  BY NoRequestType, StandingsAssumption DEF Init, TypeOK, Time
<1>2. CacheDated /\ \A c \in Dirty : cache[c] = NoEntry
  BY StandingsAssumption DEF Init, CacheDated, NoEntry
<1>3. \A r \in Requests : req[r].pc = "over" /\ req[r].current = NoCommit
  BY DEF Init, NoRequest
<1> QED BY <1>1, <1>2, <1>3 DEF Inv, Waiting, Fresh, Counted, Awaited

\* Dirty commits are not cached.
DirtyNotCached == \A c \in Dirty : cache[c] = NoEntry

\* One request's step keeps the invariant if it does for the request and the cache.
LEMMA OneRequest ==
    ASSUME Inv, NEW r \in Requests, NEW s \in Request, now' = now, req' = [req EXCEPT ![r] = s],
           cache' \in [Commits -> Entry], CacheDated', DirtyNotCached',
           Waiting(r)', Fresh(r)', Counted(r)', Awaited(r)'
    PROVE  Inv'
<1>1. req \in [Requests -> Request] /\ now \in Time
  BY DEF Inv, TypeOK
<1>2. req' \in [Requests -> Request] /\ \A q \in Requests : q # r => req'[q] = req[q]
  BY <1>1
<1>3. ASSUME NEW q \in Requests, q # r
      PROVE  Waiting(q)' /\ Fresh(q)' /\ Counted(q)' /\ Awaited(q)'
  <2>1. Waiting(q) /\ Fresh(q) /\ Counted(q) /\ Awaited(q) /\ req'[q] = req[q]
    BY <1>2, <1>3 DEF Inv
  <2> QED BY <2>1 DEF Waiting, Fresh, Counted, Awaited
<1>4. TypeOK'
  BY <1>1, <1>2 DEF TypeOK
<1> QED BY <1>3, <1>4 DEF Inv, DirtyNotCached

\* The fields of a request after the look at the cache.
LEMMA LookedFacts ==
    ASSUME Inv, NEW S \in SUBSET Commits
    PROVE  /\ Looked(S) \in Request
           /\ Looked(S).started = now
           /\ Looked(S).commits = S
           /\ Looked(S).current = NoCommit
           /\ Looked(S).got \cup Looked(S).left = S
           /\ Looked(S).left \cap Dirty = {}
           /\ \A c \in Looked(S).got \ Dirty : Looked(S).asOf[c] + Ttl > now
<1> DEFINE cached == {c \in S \ Settled(S) : Valid(c)}
           got == Settled(S) \cup cached
           left == S \ got
           asOf == [c \in Commits |-> IF c \in cached THEN cache[c].asOf ELSE 0]
<1>1. Settled(S) = S \cap Dirty /\ S \subseteq Commits
  BY DEF Settled
<1>2. now \in Time /\ cache \in [Commits -> Entry]
  BY DEF Inv, TypeOK
<1>3. asOf \in [Commits -> Time]
  BY <1>2, StandingsAssumption DEF Entry, Time
<1>4. \A c \in cached : asOf[c] + Ttl > now
  <2> SUFFICES ASSUME NEW c \in cached PROVE cache[c].asOf + Ttl > now
    BY <1>1
  <2>1. cache[c].expires > now /\ cache[c].expires <= cache[c].asOf + Ttl
    BY <1>1 DEF Valid, Inv, CacheDated
  <2>2. cache[c].expires \in Nat /\ cache[c].asOf \in Nat /\ now \in Nat /\ Ttl \in Nat
    BY <1>1, <1>2, StandingsAssumption DEF Entry, Time
  <2> QED BY <2>1, <2>2
<1>5. Looked(S) = [NoRequest EXCEPT !.commits = S, !.started = now, !.got = got,
                                    !.left = left, !.asOf = asOf]
  BY DEF Looked
<1>6. got \subseteq Commits /\ left \subseteq Commits /\ got \cup left = S
  BY <1>1
<1>7. left \cap Dirty = {} /\ got \ Dirty \subseteq cached
  BY <1>1
<1>8. NoRequest \in Request /\ NoRequest.current = NoCommit
  BY NoRequestType DEF NoRequest
<1> HIDE DEF cached, got, left, asOf
<1>9. Looked(S) = [pc |-> NoRequest.pc, commits |-> S, started |-> now, left |-> left,
                   current |-> NoRequest.current, since |-> NoRequest.since, got |-> got, asOf |-> asOf]
  BY <1>5 DEF NoRequest
<1>10. Looked(S) \in Request
  BY <1>1, <1>2, <1>3, <1>6, <1>8, <1>9 DEF Request
<1> QED BY <1>4, <1>6, <1>7, <1>8, <1>9, <1>10

\* standings up to its first await keeps it.
LEMMA BeginInv ==
    ASSUME Inv, NEW r \in Requests, NEW S \in SUBSET Commits, Begin(r, S)
    PROVE  Inv'
<1> DEFINE l == Looked(S)
<1>1. /\ l \in Request
      /\ l.started = now /\ l.commits = S /\ l.current = NoCommit
      /\ l.got \cup l.left = S /\ l.left \cap Dirty = {}
      /\ \A c \in l.got \ Dirty : l.asOf[c] + Ttl > now
  BY LookedFacts
<1>2. UNCHANGED <<now, cache>> /\ now \in Time /\ req \in [Requests -> Request]
  BY DEF Begin, Inv, TypeOK
<1>3. \/ l.left = {} /\ req' = [req EXCEPT ![r] = [l EXCEPT !.pc = "answered"]]
      \/ \E c \in l.left :
            req' = [req EXCEPT ![r] = [l EXCEPT !.pc = "asking", !.current = c, !.since = now]]
  BY DEF Begin
<1> HIDE DEF l
<1>4. now <= now
  BY <1>2, StandingsAssumption DEF Time
<1>5. cache' \in [Commits -> Entry] /\ CacheDated' /\ DirtyNotCached'
  BY <1>2 DEF Inv, TypeOK, CacheDated, DirtyNotCached
<1>6. CASE l.left = {} /\ req' = [req EXCEPT ![r] = [l EXCEPT !.pc = "answered"]]
  <2>1. /\ req'[r] = [l EXCEPT !.pc = "answered"]
        /\ req' \in [Requests -> Request]
        /\ \A q \in Requests : q # r => req'[q] = req[q]
    BY <1>1, <1>2, <1>6 DEF Request
  <2>2. /\ req'[r].pc = "answered" /\ req'[r].current = NoCommit
        /\ req'[r].got = S /\ req'[r].commits = S
        /\ req'[r].started = now /\ req'[r].asOf = l.asOf /\ req'[r].got = l.got
    BY <1>1, <1>6, <2>1 DEF Request
  <2>3. Waiting(r)' /\ Fresh(r)' /\ Counted(r)' /\ Awaited(r)'
    BY <1>1, <1>2, <2>2 DEF Waiting, Fresh, Counted, Awaited
  <2>4. [l EXCEPT !.pc = "answered"] \in Request
    BY <1>1 DEF Request
  <2> QED BY <1>2, <1>5, <1>6, <2>3, <2>4, OneRequest
<1>7. ASSUME NEW c \in l.left,
             req' = [req EXCEPT ![r] = [l EXCEPT !.pc = "asking", !.current = c, !.since = now]]
      PROVE  Inv'
  <2>1. /\ req'[r] = [l EXCEPT !.pc = "asking", !.current = c, !.since = now]
        /\ req' \in [Requests -> Request]
        /\ \A q \in Requests : q # r => req'[q] = req[q]
    BY <1>1, <1>2, <1>7 DEF Request
  <2>2. /\ req'[r].pc = "asking" /\ req'[r].current = c /\ req'[r].since = now
        /\ req'[r].left = l.left /\ req'[r].commits = S /\ req'[r].got = l.got
        /\ req'[r].started = now /\ req'[r].asOf = l.asOf
    BY <1>1, <2>1 DEF Request
  <2>3. Waiting(r)' /\ Fresh(r)' /\ Counted(r)' /\ Awaited(r)'
    BY <1>1, <1>2, <1>4, <1>7, <2>2 DEF Waiting, Fresh, Counted, Awaited
  <2>4. [l EXCEPT !.pc = "asking", !.current = c, !.since = now] \in Request
    BY <1>1, <1>2 DEF Request
  <2> QED BY <1>2, <1>5, <1>7, <2>3, <2>4, OneRequest
<1> QED BY <1>3, <1>6, <1>7

\* The fields of a request after the answer to its call.
LEMMA ResolvedFacts ==
    ASSUME Inv, NEW r \in Requests, req[r].pc = "asking"
    PROVE  /\ Resolved(r) \in Request
           /\ Resolved(r).pc = "asking"
           /\ Resolved(r).commits = req[r].commits /\ Resolved(r).started = req[r].started
           /\ Resolved(r).left = req[r].left \ {req[r].current}
           /\ Resolved(r).got = req[r].got \cup {req[r].current}
           /\ Resolved(r).asOf = [req[r].asOf EXCEPT ![req[r].current] = req[r].since]
<1>1. req[r] \in Request /\ req[r].current \in req[r].left
  BY DEF Inv, TypeOK, Waiting
<1>2. req[r].current \in Commits
  BY <1>1 DEF Request
<1> QED BY <1>1, <1>2 DEF Resolved, Request

\* An answer of GitHub keeps it, whoever else wrote the cache meanwhile.
LEMMA AnswerInv ==
    ASSUME Inv, NEW r \in Requests, Answer(r)
    PROVE  Inv'
<1> DEFINE n == Resolved(r)
           d == req[r].current
<1>1. /\ req[r].pc = "asking" /\ UNCHANGED now
      /\ cache' = [cache EXCEPT ![d] = EntryFor(r)]
      /\ \/ /\ n.left = {}
            /\ req' = [req EXCEPT ![r] = [n EXCEPT !.pc = "answered", !.current = NoCommit]]
         \/ \E c \in n.left :
               req' = [req EXCEPT ![r] = [n EXCEPT !.current = c, !.since = now]]
  BY DEF Answer
<1>2. /\ now \in Time /\ cache \in [Commits -> Entry] /\ req \in [Requests -> Request]
      /\ req[r] \in Request
  BY DEF Inv, TypeOK
<1>3. /\ d \in req[r].left /\ req[r].left \cap Dirty = {}
      /\ req[r].started <= req[r].since /\ req[r].since <= now
      /\ req[r].got \cup req[r].left = req[r].commits
      /\ \A c \in req[r].got \ Dirty : req[r].asOf[c] + Ttl > req[r].started
      /\ d \in Commits /\ d \notin Dirty
  BY <1>1, <1>2 DEF Inv, Waiting, Counted, Fresh, Request
<1>4. /\ req[r].started \in Nat /\ req[r].since \in Nat /\ now \in Nat
      /\ req[r].started <= MaxTime /\ Ttl \in Nat \ {0} /\ MaxTime \in Nat
  BY <1>2, StandingsAssumption DEF Request, Time
<1>5. /\ cache' \in [Commits -> Entry]
      /\ CacheDated'
      /\ DirtyNotCached'
  <2>1. EntryFor(r) \in Entry /\ EntryFor(r).expires <= EntryFor(r).asOf + Ttl
    BY <1>2, <1>3, <1>4 DEF EntryFor, Entry, Request, Time
  <2>2. \A c \in Commits : cache'[c] = IF c = d THEN EntryFor(r) ELSE cache[c]
    BY <1>1, <1>2
  <2> QED BY <1>1, <1>2, <1>3, <2>1, <2>2, StandingsAssumption DEF Inv, CacheDated, DirtyNotCached
<1>6. /\ n \in Request
      /\ n.pc = "asking" /\ n.commits = req[r].commits /\ n.started = req[r].started
      /\ n.left = req[r].left \ {d} /\ n.got = req[r].got \cup {d}
      /\ n.asOf = [req[r].asOf EXCEPT ![d] = req[r].since]
  BY <1>1, ResolvedFacts
<1>7. \A c \in n.got \ Dirty : n.asOf[c] + Ttl > n.started
  BY <1>2, <1>3, <1>4, <1>6 DEF Request
<1>8. n.got \cup n.left = n.commits /\ n.left \cap Dirty = {}
  BY <1>3, <1>6
<1> HIDE DEF n
<1>9. CASE /\ n.left = {}
           /\ req' = [req EXCEPT ![r] = [n EXCEPT !.pc = "answered", !.current = NoCommit]]
  <2>1. /\ req'[r] = [n EXCEPT !.pc = "answered", !.current = NoCommit]
        /\ req' \in [Requests -> Request]
        /\ \A q \in Requests : q # r => req'[q] = req[q]
    BY <1>2, <1>6, <1>9 DEF Request
  <2>2. /\ req'[r].pc = "answered" /\ req'[r].current = NoCommit
        /\ req'[r].got = n.got /\ req'[r].commits = n.commits /\ n.got = n.commits
        /\ req'[r].started = n.started /\ req'[r].asOf = n.asOf
    BY <1>6, <1>8, <1>9, <2>1 DEF Request
  <2>3. Waiting(r)' /\ Fresh(r)' /\ Counted(r)' /\ Awaited(r)'
    BY <1>7, <2>2 DEF Waiting, Fresh, Counted, Awaited
  <2>4. [n EXCEPT !.pc = "answered", !.current = NoCommit] \in Request
    BY <1>6 DEF Request
  <2> QED BY <1>1, <1>5, <1>9, <2>3, <2>4, OneRequest
<1>10. ASSUME NEW c \in n.left,
              req' = [req EXCEPT ![r] = [n EXCEPT !.current = c, !.since = now]]
       PROVE  Inv'
  <2>1. /\ req'[r] = [n EXCEPT !.current = c, !.since = now]
        /\ req' \in [Requests -> Request]
        /\ \A q \in Requests : q # r => req'[q] = req[q]
    BY <1>2, <1>6, <1>10 DEF Request
  <2>2. /\ req'[r].pc = "asking" /\ req'[r].current = c /\ req'[r].since = now
        /\ req'[r].left = n.left /\ req'[r].commits = n.commits /\ req'[r].got = n.got
        /\ req'[r].started = n.started /\ req'[r].asOf = n.asOf
    BY <1>6, <2>1 DEF Request
  <2>3. n.started <= now /\ now <= now
    BY <1>3, <1>4, <1>6
  <2>4. Waiting(r)' /\ Fresh(r)' /\ Counted(r)' /\ Awaited(r)'
    BY <1>1, <1>7, <1>8, <1>10, <2>2, <2>3 DEF Waiting, Fresh, Counted, Awaited
  <2>5. [n EXCEPT !.current = c, !.since = now] \in Request
    BY <1>2, <1>6 DEF Request
  <2> QED BY <1>1, <1>5, <1>10, <2>4, <2>5, OneRequest
<1> QED BY <1>1, <1>9, <1>10

\* A request that fails or is gone keeps it.
LEMMA FailInv ==
    ASSUME Inv, NEW r \in Requests, Fail(r)
    PROVE  Inv'
<1>1. UNCHANGED <<now, cache>> /\ req' = [req EXCEPT ![r] = NoRequest]
  BY DEF Fail
<1>2. /\ req' \in [Requests -> Request] /\ req'[r] = NoRequest
      /\ \A q \in Requests : q # r => req'[q] = req[q]
  BY <1>1, NoRequestType DEF Inv, TypeOK
<1>3. Waiting(r)' /\ Fresh(r)' /\ Counted(r)' /\ Awaited(r)'
  BY <1>2 DEF Waiting, Fresh, Counted, Awaited, NoRequest
<1> QED BY <1>1, <1>2, <1>3 DEF Inv, TypeOK, CacheDated, Waiting, Fresh, Counted, Awaited

\* And so does time.
LEMMA TickInv ==
    ASSUME Inv, Tick
    PROVE  Inv'
<1>1. now' = now + 1 /\ now < MaxTime /\ UNCHANGED <<cache, req>>
  BY DEF Tick
<1>2. now \in Nat /\ now' \in Time
  BY <1>1, StandingsAssumption DEF Inv, TypeOK, Time
<1>3. \A r \in Requests : req[r].since \in Nat
  BY StandingsAssumption DEF Inv, TypeOK, Request, Time
<1>4. \A r \in Requests : Waiting(r)'
  BY <1>1, <1>2, <1>3 DEF Inv, Waiting
<1> QED BY <1>1, <1>2, <1>4 DEF Inv, TypeOK, CacheDated, Fresh, Counted, Awaited

\* Every step keeps it.
LEMMA NextInv == Inv /\ [Next]_vars => Inv'
<1> SUFFICES ASSUME Inv, [Next]_vars PROVE Inv'
  OBVIOUS
<1>1. CASE UNCHANGED vars
  BY <1>1 DEF vars, Inv, TypeOK, CacheDated, Waiting, Fresh, Counted, Awaited
<1> QED BY <1>1, BeginInv, AnswerInv, FailInv, TickInv DEF Next

\* The strengthened invariant holds in every reachable state.
THEOREM AlwaysInv == Spec => []Inv
<1> QED BY InitInv, NextInv, PTL DEF Spec

\* The clock, the cache and every request keep their types.
THEOREM TypeCorrect == Spec => []TypeOK
<1>1. Inv => TypeOK
  BY DEF Inv
<1> QED BY <1>1, AlwaysInv, PTL

\* Every answered request has a standing for each of its commits and for no other
\* (commit_standing.py standings).
THEOREM AlwaysComplete == Spec => []Complete
<1>1. Inv => Complete
  BY DEF Inv, Complete, Counted
<1> QED BY <1>1, AlwaysInv, PTL

\* However many requests overlap, a dirty commit is never asked about or cached.
THEOREM DirtyNeverReachesGithub == Spec => []DirtyNeverAsked
<1>1. Inv => DirtyNeverAsked
  <2> SUFFICES ASSUME Inv, NEW c \in Dirty, NEW r \in Requests
               PROVE  cache[c] = NoEntry /\ req[r].current # c
    BY DEF DirtyNeverAsked, Inv
  <2>1. cache[c] = NoEntry
    BY DEF Inv
  <2>2. Waiting(r) /\ Awaited(r)
    BY DEF Inv
  <2> QED BY <2>1, <2>2, StandingsAssumption DEF Waiting, Awaited
<1> QED BY <1>1, AlwaysInv, PTL

\* No request is given a standing that was asked for a TTL or more before it began,
\* whatever order overlapping requests write the cache in.
THEOREM AnswersAlwaysFresh == Spec => []AnswersFresh
<1>1. Inv => AnswersFresh
  BY DEF Inv, AnswersFresh, Fresh
<1> QED BY <1>1, AlwaysInv, PTL

-----------------------------------------------------------------------------
(* How old a standing is when it is given out. *)

\* What a product of numbers does.
LEMMA Products ==
    /\ \A a, b \in Nat : a * b \in Nat
    /\ \A a, b \in Int : a * (b + 1) = a * b + a
    /\ \A a, b, c \in Nat : b <= c => a * b <= a * c
<1>1. \A a, b \in Nat : a * b \in Nat
  OBVIOUS
<1>2. \A a, b \in Int : a * (b + 1) = a * b + a
  OBVIOUS
<1>3. ASSUME NEW a \in Nat, NEW b \in Nat, NEW c \in Nat, b <= c PROVE a * b <= a * c
  <2>1. a * c = a * b + a * (c - b) /\ c - b \in Nat
    BY <1>3
  <2>2. a * b \in Nat /\ a * (c - b) \in Nat
    BY <1>1, <2>1
  <2> QED BY <2>1, <2>2
<1> QED BY <1>1, <1>2, <1>3

\* How many of r's commits have their standing.
Done(r) == Cardinality(req[r].commits) - Cardinality(req[r].left)

\* A request that waits has called for no longer than a timeout for each of its commits
\* that has a standing, and its call has not outlasted its own.
Paced(r) ==
    req[r].pc = "asking" =>
        /\ req[r].left \subseteq req[r].commits
        /\ req[r].since <= req[r].started + MaxCall * Done(r)
        /\ now <= req[r].since + MaxCall

PacedInv == Inv /\ \A r \in Requests : Paced(r)

\* Of some commits, those left are finitely many, and one less when one is taken away.
LEMMA LeftFacts ==
    ASSUME NEW S \in SUBSET Commits, NEW L \in SUBSET S
    PROVE  /\ Cardinality(S) \in Nat /\ Cardinality(L) \in Nat
           /\ Cardinality(S) - Cardinality(L) \in Nat
           /\ \A c \in L : Cardinality(L \ {c}) = Cardinality(L) - 1 /\ Cardinality(L) > 0
<1>1. IsFiniteSet(S)
  BY StandingsAssumption, FS_Subset
<1>2. IsFiniteSet(L) /\ Cardinality(L) <= Cardinality(S)
  BY <1>1, FS_Subset
<1>3. Cardinality(S) \in Nat /\ Cardinality(L) \in Nat
  BY <1>1, <1>2, FS_CardinalityType
<1>4. ASSUME NEW c \in L PROVE Cardinality(L \ {c}) = Cardinality(L) - 1 /\ Cardinality(L) # 0
  BY <1>2, <1>4, FS_RemoveElement, FS_EmptySet
<1> QED BY <1>2, <1>3, <1>4

\* A request's first call is made when it begins.
LEMMA BeginPaced ==
    ASSUME Inv, NEW r \in Requests, NEW S \in SUBSET Commits, Begin(r, S)
    PROVE  Paced(r)'
<1> DEFINE l == Looked(S)
<1>1. l \in Request /\ l.started = now /\ l.commits = S /\ l.got \cup l.left = S
  BY LookedFacts
<1>2. now' = now
  BY DEF Begin
<1>3. \/ req' = [req EXCEPT ![r] = [l EXCEPT !.pc = "answered"]]
      \/ \E c \in l.left :
            req' = [req EXCEPT ![r] = [l EXCEPT !.pc = "asking", !.current = c, !.since = now]]
  BY DEF Begin
<1>4. req \in [Requests -> Request] /\ now \in Nat /\ MaxCall \in Nat
  BY StandingsAssumption DEF Inv, TypeOK, Time
<1> HIDE DEF l
<1>5. CASE req' = [req EXCEPT ![r] = [l EXCEPT !.pc = "answered"]]
  <2>1. req'[r].pc = "answered"
    BY <1>1, <1>4, <1>5 DEF Request
  <2> QED BY <2>1 DEF Paced
<1>6. ASSUME NEW c \in l.left,
             req' = [req EXCEPT ![r] = [l EXCEPT !.pc = "asking", !.current = c, !.since = now]]
      PROVE  Paced(r)'
  <2>1. /\ req'[r].since = now /\ req'[r].started = now
        /\ req'[r].left = l.left /\ req'[r].commits = S /\ l.left \in SUBSET S
    BY <1>1, <1>4, <1>6 DEF Request
  <2>2. Cardinality(S) - Cardinality(l.left) \in Nat
    BY <2>1, LeftFacts
  <2>3. MaxCall * (Cardinality(S) - Cardinality(l.left)) \in Nat
    BY <1>4, <2>2, Products
  <2> QED BY <1>2, <1>4, <2>1, <2>3 DEF Paced, Done
<1> QED BY <1>3, <1>5, <1>6

\* An answer comes within a timeout of its call, and the next call is made at once.
LEMMA AnswerPaced ==
    ASSUME PacedInv, NEW r \in Requests, Answer(r)
    PROVE  /\ Paced(r)'
           /\ now <= req[r].started + MaxCall * Cardinality(req[r].commits)
<1> DEFINE n == Resolved(r)
           d == req[r].current
           S == req[r].commits
           L == req[r].left
           k == Cardinality(S) - Cardinality(L)
<1>1. /\ req[r].pc = "asking" /\ now' = now
      /\ \/ req' = [req EXCEPT ![r] = [n EXCEPT !.pc = "answered", !.current = NoCommit]]
         \/ \E c \in n.left :
               req' = [req EXCEPT ![r] = [n EXCEPT !.current = c, !.since = now]]
  BY DEF Answer
<1>2. /\ req \in [Requests -> Request] /\ req[r] \in Request /\ now \in Nat /\ MaxCall \in Nat
      /\ req[r].started \in Nat /\ req[r].since \in Nat /\ S \in SUBSET Commits
  BY StandingsAssumption DEF PacedInv, Inv, TypeOK, Time, Request
<1>3. /\ d \in L /\ L \in SUBSET S
      /\ req[r].since <= req[r].started + MaxCall * k /\ now <= req[r].since + MaxCall
  BY <1>1 DEF PacedInv, Inv, Waiting, Paced, Done
<1>4. n \in Request /\ n.commits = S /\ n.started = req[r].started /\ n.left = L \ {d}
  BY <1>1, ResolvedFacts DEF PacedInv
<1>5. /\ Cardinality(S) \in Nat /\ Cardinality(L) \in Nat /\ k \in Nat /\ k + 1 <= Cardinality(S)
      /\ Cardinality(S) - Cardinality(L \ {d}) = k + 1
  <2> HIDE DEF S, L
  <2>1. /\ Cardinality(S) \in Nat /\ Cardinality(L) \in Nat /\ Cardinality(L) > 0
        /\ Cardinality(S) - Cardinality(L) \in Nat
        /\ Cardinality(L \ {d}) = Cardinality(L) - 1
    BY <1>2, <1>3, LeftFacts
  <2> QED BY <2>1
<1>6. now <= req[r].started + MaxCall * (k + 1)
  <2>1. MaxCall * (k + 1) = MaxCall * k + MaxCall /\ MaxCall * k \in Nat
    BY <1>2, <1>5, Products
  <2> HIDE DEF k
  <2> QED BY <1>2, <1>3, <2>1
<1>7. now <= req[r].started + MaxCall * Cardinality(S)
  <2>1. /\ MaxCall * (k + 1) <= MaxCall * Cardinality(S)
        /\ MaxCall * (k + 1) \in Nat /\ MaxCall * Cardinality(S) \in Nat
    BY <1>2, <1>5, Products
  <2> HIDE DEF k, S
  <2> QED BY <1>2, <1>6, <2>1
<1> HIDE DEF n
<1>8. CASE req' = [req EXCEPT ![r] = [n EXCEPT !.pc = "answered", !.current = NoCommit]]
  <2>1. req'[r].pc = "answered"
    BY <1>2, <1>4, <1>8 DEF Request
  <2> QED BY <1>7, <2>1 DEF Paced
<1>9. ASSUME NEW c \in n.left,
             req' = [req EXCEPT ![r] = [n EXCEPT !.current = c, !.since = now]]
      PROVE  Paced(r)'
  <2>1. /\ req'[r].since = now /\ req'[r].started = req[r].started
        /\ req'[r].left = L \ {d} /\ req'[r].commits = S
    BY <1>2, <1>4, <1>9 DEF Request
  <2>2. now <= now + MaxCall /\ L \ {d} \subseteq S
    BY <1>2, <1>3
  <2>3. Done(r)' = k + 1
    BY <1>5, <2>1 DEF Done
  <2> HIDE DEF k, L, S, d
  <2> QED BY <1>1, <1>6, <2>1, <2>2, <2>3 DEF Paced
<1> QED BY <1>1, <1>7, <1>8, <1>9

\* No step makes a request wait longer than it may.
LEMMA NextPaced == PacedInv /\ [Next]_vars => PacedInv'
<1> SUFFICES ASSUME PacedInv, [Next]_vars PROVE PacedInv'
  OBVIOUS
<1>1. Inv'
  BY NextInv DEF PacedInv
<1>2. req \in [Requests -> Request]
  BY DEF PacedInv, Inv, TypeOK
<1>3. ASSUME NEW r \in Requests, now' = now, NEW s,
             req' = [req EXCEPT ![r] = s], Paced(r)'
      PROVE  PacedInv'
  <2>1. ASSUME NEW q \in Requests, q # r PROVE Paced(q)'
    <3>1. req'[q] = req[q] /\ Paced(q)
      BY <1>2, <1>3, <2>1 DEF PacedInv
    <3> QED BY <1>3, <3>1 DEF Paced, Done
  <2> QED BY <1>1, <1>3, <2>1 DEF PacedInv
<1>4. ASSUME NEW r \in Requests, NEW S \in SUBSET Commits, Begin(r, S) PROVE PacedInv'
  <2>1. Paced(r)'
    BY <1>4, BeginPaced DEF PacedInv
  <2>2. now' = now /\ \E s : req' = [req EXCEPT ![r] = s]
    BY <1>4 DEF Begin
  <2> QED BY <1>3, <2>1, <2>2
<1>5. ASSUME NEW r \in Requests, Answer(r) PROVE PacedInv'
  <2>1. Paced(r)'
    BY <1>5, AnswerPaced
  <2>2. now' = now /\ \E s : req' = [req EXCEPT ![r] = s]
    BY <1>5 DEF Answer
  <2> QED BY <1>3, <2>1, <2>2
<1>6. ASSUME NEW r \in Requests, Fail(r) PROVE PacedInv'
  <2>1. now' = now /\ req' = [req EXCEPT ![r] = NoRequest]
    BY <1>6 DEF Fail
  <2>2. req'[r] = NoRequest
    BY <1>2, <2>1
  <2>3. Paced(r)'
    BY <2>2 DEF Paced, NoRequest
  <2> QED BY <1>3, <2>1, <2>3
<1>7. CASE Tick
  <2>1. ASSUME NEW r \in Requests, req[r].pc = "asking" PROVE now + 1 <= req[r].since + MaxCall
    <3>1. now < req[r].since + MaxCall
      BY <1>7, <2>1 DEF Tick
    <3>2. now \in Nat /\ req[r].since \in Nat /\ MaxCall \in Nat
      BY StandingsAssumption DEF PacedInv, Inv, TypeOK, Request, Time
    <3> QED BY <3>1, <3>2
  <2>2. now' = now + 1 /\ req' = req
    BY <1>7 DEF Tick
  <2> QED BY <1>1, <2>1, <2>2 DEF PacedInv, Paced, Done
<1>8. CASE UNCHANGED vars
  BY <1>1, <1>8 DEF PacedInv, Paced, Done, vars
<1> QED BY <1>4, <1>5, <1>6, <1>7, <1>8 DEF Next

\* A standing that is given out is no older than a TTL and a timeout for each of the
\* request's commits, asked about one after the other (commit_standing.py standings).
THEOREM AnswerAgeAlways == Spec => AnswerAge
<1> DEFINE Young(r) == req[r].pc = "asking" /\ req'[r].pc = "answered" =>
                         \A c \in req'[r].commits \ Dirty :
                            now < req'[r].asOf[c] + Ttl + MaxCall * Cardinality(req'[r].commits)
<1>1. Init => PacedInv
  BY InitInv DEF Init, PacedInv, Paced, NoRequest
<1>2. ASSUME PacedInv, PacedInv', [Next]_vars, NEW r \in Requests PROVE Young(r)
  <2> SUFFICES ASSUME req[r].pc = "asking", req'[r].pc = "answered", NEW c \in req'[r].commits \ Dirty
               PROVE  now < req'[r].asOf[c] + Ttl + MaxCall * Cardinality(req'[r].commits)
    OBVIOUS
  <2>1. req \in [Requests -> Request] /\ req' \in [Requests -> Request]
    BY <1>2 DEF PacedInv, Inv, TypeOK
  <2>2. Answer(r)
    <3>1. \A q \in Requests : q # r => ~(\E s : req' = [req EXCEPT ![q] = s])
      BY <2>1
    <3>2. req' # req
      OBVIOUS
    <3>3. ~Fail(r)
      BY <2>1 DEF Fail, NoRequest
    <3>4. \A S \in SUBSET Commits : ~Begin(r, S)
      BY DEF Begin
    <3>5. ASSUME NEW q \in Requests, q # r
          PROVE  ~Answer(q) /\ ~Fail(q) /\ \A S \in SUBSET Commits : ~Begin(q, S)
      BY <3>1, <3>5 DEF Answer, Fail, Begin
    <3> QED BY <1>2, <3>2, <3>3, <3>4, <3>5 DEF Next, Tick, vars
  <2>3. req'[r].started = req[r].started /\ req'[r].commits = req[r].commits
    <3> DEFINE n == Resolved(r)
    <3>1. n \in Request /\ n.started = req[r].started /\ n.commits = req[r].commits /\ n.pc = "asking"
      BY <1>2, ResolvedFacts DEF PacedInv
    <3>2. \/ req' = [req EXCEPT ![r] = [n EXCEPT !.pc = "answered", !.current = NoCommit]]
          \/ \E q \in n.left : req' = [req EXCEPT ![r] = [n EXCEPT !.current = q, !.since = now]]
      BY <2>2 DEF Answer
    <3> HIDE DEF n
    <3>3. CASE req' = [req EXCEPT ![r] = [n EXCEPT !.pc = "answered", !.current = NoCommit]]
      <4>1. req'[r] = [n EXCEPT !.pc = "answered", !.current = NoCommit]
        BY <2>1, <3>3
      <4> QED BY <3>1, <4>1 DEF Request
    <3>4. ASSUME NEW q, req' = [req EXCEPT ![r] = [n EXCEPT !.current = q, !.since = now]]
          PROVE  req'[r].started = req[r].started /\ req'[r].commits = req[r].commits
      <4>1. req'[r] = [n EXCEPT !.current = q, !.since = now]
        BY <2>1, <3>4
      <4> QED BY <3>1, <4>1 DEF Request
    <3> QED BY <3>2, <3>3, <3>4
  <2>4. now <= req[r].started + MaxCall * Cardinality(req[r].commits)
    BY <1>2, <2>2, AnswerPaced
  <2>5. c \in req'[r].got \ Dirty
    BY <1>2 DEF PacedInv, Inv, Counted
  <2>6. req'[r].asOf[c] + Ttl > req'[r].started
    BY <1>2, <2>5 DEF PacedInv, Inv, Fresh
  <2> DEFINE m == MaxCall * Cardinality(req[r].commits)
  <2>7. /\ m \in Nat /\ now \in Nat /\ req[r].started \in Nat /\ Ttl \in Nat
        /\ req'[r].asOf[c] \in Nat
    <3>1. req[r].commits \in SUBSET Commits /\ c \in Commits
      BY <2>1, <2>3 DEF Request
    <3>2. Cardinality(req[r].commits) \in Nat
      BY <3>1, LeftFacts
    <3>3. m \in Nat
      BY <3>2, StandingsAssumption, Products
    <3> QED BY <1>2, <2>1, <3>1, <3>3, StandingsAssumption DEF PacedInv, Inv, TypeOK, Request, Time
  <2> HIDE DEF m
  <2>8. now < req'[r].asOf[c] + Ttl + m
    BY <2>3, <2>4, <2>6, <2>7 DEF m
  <2> QED BY <2>3, <2>8 DEF m
<1>3. PacedInv /\ PacedInv' /\ [Next]_vars => [\A r \in Requests : Young(r)]_vars
  BY <1>2
<1> QED BY <1>1, <1>3, NextPaced, PTL DEF Spec, AnswerAge
=============================================================================
