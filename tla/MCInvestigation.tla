-------------------------- MODULE MCInvestigation ---------------------------
(* Small investigations for TLC: a day has 32 ticks, a second has two.     *)
EXTENDS Investigation

CONSTANTS host, domain, source, a, b

One == [q |-> [scope |-> "unset", body |-> {<<Entity, "bare">>, <<source, "default">>}]]
Three == [subject |-> [scope |-> "subject", body |-> {<<host, "default">>, <<source, "blank_default">>}],
          pivot |-> [scope |-> "unset", body |-> {<<domain, "bare">>}],
          all |-> [scope |-> "environment", body |-> {<<Entity, "default">>}]]

Given(names) == [n \in Names |-> IF n \in names THEN "given" ELSE "absent"]
Blank == [Given({source}) EXCEPT ![Entity] = "blank", ![host] = "blank"]

Event(at, key, value) == [at |-> at, key |-> key, value |-> value]

\* Events at the ends of the slices, a group in two slices, a value that is
\* missing in one of them, and a value that is repeated.
Backends == {
  {Event(4, a, 3), Event(31, a, 5), Event(32, a, 3)},
  {Event(15, a, 3), Event(16, a, Missing), Event(40, b, 7), Event(63, b, 7)},
  {Event(5, b, 3), Event(64, a, 9), Event(66, a, 5)}}

Window(start, end, days, dates) == [start |-> start, end |-> end, days |-> days, dates |-> dates]

Request(catalog, vs, w, kind, events) ==
  [catalog |-> catalog, vars |-> vs, start |-> w.start, end |-> w.end, days |-> w.days,
   dates |-> w.dates, kind |-> kind, events |-> events]

Windows == {Window(5, 69, 1, FALSE), Window(31, 65, 1, FALSE), Window(0, 64, 2, TRUE),
            Window(3, 45, 2, FALSE), Window(9, 9, 1, FALSE)}

MCRequests ==
  {Request(One, Given({}), w, "aggregate", events) : w \in Windows, events \in Backends}
  \cup {Request(One, Given({}), w, "rows", UNION Backends) : w \in Windows}
  \cup {Request(Three, vs, Window(0, 32, 1, TRUE), "aggregate", UNION Backends) :
     vs \in {Given({}), Given({host, source}), Given({source, domain}), Blank}}
=============================================================================
