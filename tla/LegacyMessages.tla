--------------------------- MODULE LegacyMessages ----------------------------
(***************************************************************************)
(* The legacy backend's list of messages (get_messages of                  *)
(* api/backend_api.py): problem events and glitches of some houses, the    *)
(* worst first, with a table of how many there are of each level.          *)
(*                                                                         *)
(* A journal is a sequence of messages in the order they were persisted.   *)
(* A message has the times it was persisted and created, its type, the     *)
(* house whose scada it is from, its level, and whether that is written    *)
(* with a capital.  What is asked is a journal, the types, the houses      *)
(* (none for all senders), start and end, and whether it runs locally.     *)
(***************************************************************************)
EXTENDS RouteAnswer, Ordered, SequencesExt, Functions

CONSTANT PlotDays   \* the days a DataRequest that is no CSV request may span

ASSUME LegacyMessagesAssumption == PlotDays \in Nat

\* What a message list's journal is.
IsPersisted(s) ==
    /\ s \in Seq(Range(s))
    /\ \A i \in DOMAIN s :
          s[i] \in [persisted : Int, created : Int, type : STRING, from : {s[i].from},
                    level : STRING, capital : BOOLEAN]

Levels == <<"critical", "error", "warning", "info", "debug", "trace">>

LevelRank(level) == CHOOSE i \in DOMAIN Levels : Levels[i] = level

\* A problem's level is looked up as it is written, a glitch's in lower case.
LevelKnown(m) ==
    /\ m.level \in Range(Levels)
    /\ m.type = "gridworks.event.problem" => ~m.capital

\* check_request: a messages request is a DataRequest, and no CSV request.
SpanRefused(q) == ~q.locally /\ q.end - q.start > PlotDays

\* What the statement selects, in the order persisted; whatever types were asked for.
Selected(q) ==
    LET from(m) == q.houses # {} => m.from \in q.houses
    IN Filtered(q.journal, {m \in Range(q.journal) :
                               m.persisted \in q.start..q.end /\ m.type \in q.types /\ from(m)})

\* A mutation: sorted by the time of creation alone.
CreatedBefore(m, n) == m.created < n.created

\* In the order of the sorts' keys.
WorseThan(m, n) ==
    \/ LevelRank(m.level) < LevelRank(n.level)
    \/ LevelRank(m.level) = LevelRank(n.level) /\ m.created < n.created

\* The places of s by level and time of creation; of equals the first persisted is first.
SortOrder(s) ==
    {p \in (DOMAIN s) \X (DOMAIN s) :
        LET m == s[p[1]]
            n == s[p[2]]
        IN WorseThan(m, n) \/ (~WorseThan(n, m) /\ p[1] < p[2])}

Sorted(s) ==
    LET order == Arranged(DOMAIN s, SortOrder(s))
    IN [k \in DOMAIN s |-> s[order[k]]]

OfType(s, type) == Filtered(s, {m \in Range(s) : m.type = type})

\* How many messages of a list are of a level.
Counted(s, level) == Cardinality({k \in DOMAIN s : s[k].level = level})

\* get_messages.  Messages of other types count as found and are not listed; one listed
\* whose level is not known fails the request.
MessageList(q) ==
    LET problems == OfType(Selected(q), "gridworks.event.problem")
        glitches == OfType(Selected(q), "glitch")
        listed == Sorted(problems) \o Sorted(glitches)
    IN IF SpanRefused(q) THEN Without("refused")
       ELSE IF Selected(q) = <<>> THEN Without("no data")
       ELSE IF \E m \in Range(problems \o glitches) : ~LevelKnown(m) THEN Without("error")
       ELSE Data([rows |-> listed, table |-> [level \in Range(Levels) |-> Counted(listed, level)]])
=============================================================================
