--------------------------- MODULE CommitStandings ---------------------------
(***************************************************************************)
(* The cache of commit standings that the summaries requests share         *)
(* (api/v2/commit_standing.py), on one asyncio loop: a request runs        *)
(* without a break up to its first call of GitHub, and from each answer to *)
(* the next call; other requests run while it awaits an answer.            *)
(*                                                                         *)
(* An answer is known by the time it was asked for: which of the standings *)
(* it is, Unknown after a timeout included, makes no difference to what is *)
(* cached, and for how long.  Time is time.monotonic in a unit in which    *)
(* Ttl is STANDING_TTL_SECONDS and a call takes at most MaxCall (the       *)
(* client's timeout); MaxTime bounds the clock.                            *)
(***************************************************************************)
EXTENDS Naturals, FiniteSets

CONSTANTS
    Requests,   \* request slots; a slot is used again once its request is over
    Commits,    \* what scadas announce, finitely many
    Dirty,      \* the commits that end in "-dirty"
    NoCommit,
    Ttl,
    MaxCall,
    MaxTime

ASSUME StandingsAssumption ==
    /\ IsFiniteSet(Commits) /\ Dirty \subseteq Commits
    /\ NoCommit \notin Commits
    /\ Ttl \in Nat \ {0}
    /\ MaxCall \in Nat
    /\ MaxTime \in Nat \ {0}

VARIABLES
    now,        \* time.monotonic
    cache,      \* cache[c]: when its answer was asked for, and when it expires
    req         \* the requests

vars == <<now, cache, req>>

Time == 0..MaxTime

\* No entry: one that expired before time began.
NoEntry == [asOf |-> 0, expires |-> 0]

Entry == [asOf : Time, expires : 0..(MaxTime + Ttl)]

\* commits: the argument; started: now, read once; left: unresolved commits without
\* an answer; current, since: the call that is awaited; got, asOf: result.
Request ==
    [pc : {"over", "asking", "answered"},
     commits : SUBSET Commits,
     started : Time,
     left : SUBSET Commits,
     current : Commits \cup {NoCommit},
     since : Time,
     got : SUBSET Commits,
     asOf : [Commits -> Time]]

NoRequest ==
    [pc |-> "over", commits |-> {}, started |-> 0, left |-> {}, current |-> NoCommit,
     since |-> 0, got |-> {}, asOf |-> [c \in Commits |-> 0]]

TypeOK ==
    /\ now \in Time
    /\ cache \in [Commits -> Entry]
    /\ req \in [Requests -> Request]

\* A process that has run for a while: the clock is not at zero.
Init ==
    /\ now = 1
    /\ cache = [c \in Commits |-> NoEntry]
    /\ req = [r \in Requests |-> NoRequest]

-----------------------------------------------------------------------------
\* A mutation: an entry is used however old it is.
EverValid(c) == cache[c] # NoEntry

\* The cached standing of c is still good.
Valid(c) == cache[c].expires > now

\* The commits with a standing of their own, that GitHub is never asked about.
Settled(S) == S \cap Dirty

\* The two loops over S before any call: what has a standing at once, and what not.
Looked(S) ==
    LET cached == {c \in S \ Settled(S) : Valid(c)} IN
    [NoRequest EXCEPT !.commits = S, !.started = now,
                      !.got = Settled(S) \cup cached,
                      !.left = S \ (Settled(S) \cup cached),
                      !.asOf = [c \in Commits |-> IF c \in cached THEN cache[c].asOf ELSE 0]]

\* standings, up to its first await.  With every commit settled or cached there is
\* none, and the request is answered at once.
Begin(r, S) ==
    LET looked == Looked(S) IN
    /\ req[r].pc # "asking"
    /\ \/ /\ looked.left = {}
          /\ req' = [req EXCEPT ![r] = [looked EXCEPT !.pc = "answered"]]
       \/ \E c \in looked.left :
             req' = [req EXCEPT ![r] = [looked EXCEPT !.pc = "asking", !.current = c,
                                                      !.since = now]]
    /\ UNCHANGED <<now, cache>>

\* A mutation: the entry is dated from when its answer came.
DatedOnAnswer(r) == [asOf |-> req[r].since, expires |-> now + Ttl]

\* The entry for an answer to r is dated from when r began.
EntryFor(r) == [asOf |-> req[r].since, expires |-> req[r].started + Ttl]

\* A mutation: the answer is cached and not put into the result.
OnlyCached(r) == [req[r] EXCEPT !.left = @ \ {req[r].current}]

\* r with the answer to its call in the result.
Resolved(r) ==
    [req[r] EXCEPT !.left = @ \ {req[r].current}, !.got = @ \cup {req[r].current},
                   !.asOf = [@ EXCEPT ![req[r].current] = req[r].since]]

\* The answer to the awaited call: it is cached over whatever is there, goes into the
\* result, and the next unresolved commit is asked about; after the last the request
\* is answered.
Answer(r) ==
    LET next == Resolved(r) IN
    /\ req[r].pc = "asking"
    /\ cache' = [cache EXCEPT ![req[r].current] = EntryFor(r)]
    /\ \/ /\ next.left = {}
          /\ req' = [req EXCEPT ![r] = [next EXCEPT !.pc = "answered", !.current = NoCommit]]
       \/ \E c \in next.left :
             req' = [req EXCEPT ![r] = [next EXCEPT !.current = c, !.since = now]]
    /\ UNCHANGED now

\* An answer that is no JSON raises out of standings, and the client who asked may go
\* away: what was resolved before stays cached.
Fail(r) ==
    /\ req[r].pc = "asking"
    /\ req' = [req EXCEPT ![r] = NoRequest]
    /\ UNCHANGED <<now, cache>>

\* Time passes; no call outlasts its timeout.
Tick ==
    /\ now < MaxTime
    /\ \A r \in Requests : req[r].pc = "asking" => now < req[r].since + MaxCall
    /\ now' = now + 1
    /\ UNCHANGED <<cache, req>>

Next ==
    \/ \E r \in Requests : (\E S \in SUBSET Commits : Begin(r, S)) \/ Answer(r) \/ Fail(r)
    \/ Tick

Spec == Init /\ [][Next]_vars

-----------------------------------------------------------------------------
(* Properties. *)

\* A request that is answered has a standing for exactly the commits it named, and
\* one that waits will have (commit_standing.py standings).
Complete ==
    \A r \in Requests :
        /\ req[r].pc = "answered" => req[r].got = req[r].commits
        /\ req[r].pc = "asking" => req[r].got \cup req[r].left = req[r].commits

\* GitHub is never asked about a dirty commit and none is cached (line 43, and the
\* first claim of tests/test_commit_standing.py).
DirtyNeverAsked ==
    \A c \in Dirty : cache[c] = NoEntry /\ \A r \in Requests : req[r].current # c

\* No standing given out was asked for a TTL or more before the request that gets it
\* began, whoever asked: requests that overlap write the cache in any order.
AnswersFresh ==
    \A r \in Requests : \A c \in req[r].got \ Dirty :
        req[r].pc # "over" => req[r].asOf[c] + Ttl > req[r].started

\* At the moment a request is answered its standings are no older than a TTL and the
\* time its own calls took, one after the other.
AnswerAge ==
    [][\A r \in Requests :
          req[r].pc = "asking" /\ req'[r].pc = "answered" =>
              \A c \in req'[r].commits \ Dirty :
                  now < req'[r].asOf[c] + Ttl + MaxCall * Cardinality(req'[r].commits)]_vars
=============================================================================
