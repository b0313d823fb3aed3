------------------------------ MODULE SemaCodec ------------------------------
(***************************************************************************)
(* The codec of api/sema (codec.py, base.py) as the routes use it: strict, *)
(* from the dictionary of a message to an instance of its own version or   *)
(* of the latest.  A message is its type and version; that its fields are  *)
(* those of the version is taken for granted.                              *)
(***************************************************************************)
EXTENDS Integers, FiniteSets

\* The types that routes decode.
Types ==
    {"layout.lite", "snapshot.spaceheat", "gw.weather.forecast", "gw.weather.forecast.bundle.gt",
     "gw.house.operating.status", "glitch", "gridworks.event.problem"}

\* Their versions in the registry: the current one, the old ones, and those whose
\* upgrade() raises UpgradeRequiresContext.
Versions ==
    [type \in Types |->
        CASE type = "layout.lite" -> [current |-> 13, old |-> 1..12, refusing |-> (1..6) \cup {12}]
          [] type = "snapshot.spaceheat" -> [current |-> 3, old |-> 1..2, refusing |-> 1..2]
          [] type = "gw.weather.forecast" -> [current |-> 2, old |-> {1}, refusing |-> {1}]
          [] type = "gw.weather.forecast.bundle.gt" -> [current |-> 2, old |-> {}, refusing |-> {}]
          [] type = "gridworks.event.problem" -> [current |-> 1, old |-> {}, refusing |-> {}]
          [] OTHER -> [current |-> 0, old |-> {}, refusing |-> {}]]

Known(type) == Versions[type].old \cup {Versions[type].current}

\* Any of the exceptions.
Raises == -1

\* to_latest: each upgrade() of these types is to the next version, so the bound on its
\* steps is never met, and it gets there unless a version on the way refuses.
Upgraded(type, n) ==
    IF n..(Versions[type].current - 1) \cap Versions[type].refusing # {} THEN Raises
    ELSE Versions[type].current

\* _decode: an unknown type or version raises, the current version is as it is, an old
\* one is upgraded if that is asked for.
Decoded(type, n, upgrade) ==
    IF type \notin DOMAIN Versions THEN Raises
    ELSE IF n \notin Known(type) THEN Raises
    ELSE IF upgrade THEN Upgraded(type, n) ELSE n
=============================================================================
