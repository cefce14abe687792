---------------------------- MODULE DataflowWindows ----------------------------
(***************************************************************************)
(* The pipeline that build_domain attaches to a subscription of the topic: *)
(* parse and validate, windows, the latest event of each event id, append  *)
(* to a table.  Beam is external: the watermark moves as it likes, windows *)
(* fire by the default trigger, panes discard what they have output, and   *)
(* elements of expired windows are dropped.                                *)
(***************************************************************************)
EXTENDS TopicPublisher, Integers

CONSTANTS
    Modes,              \* window modes of the specs
    WindowSeconds,
    PeriodSeconds,
    SessionGap,
    AllowedLateness,
    MaxTime             \* bound on the watermark

ASSUME WindowAssumption ==
    /\ Modes \subseteq {"fixed", "sliding", "session"}
    /\ {WindowSeconds, PeriodSeconds, SessionGap} \subseteq Nat \ {0}
    /\ {AllowedLateness, MaxTime} \subseteq Nat

VARIABLES
    mode,               \* spec.window_mode
    watermark,
    taken,              \* offsets that have been read from the subscription
    refused,            \* [index, reason] written to the quarantine bucket
    panes,              \* open windows of event ids, with what they have not output yet
    rows,               \* the table
    late,               \* [index, start]: came after the end of its window
    dropped             \* [index, start]: came when its window had expired

dataflowVars == <<mode, watermark, taken, refused, panes, rows, late, dropped>>

Pane == [event_id: EventIds, start: Int, end: Int, members: SUBSET (1..MaxMessages)]

Element == [index: 1..MaxMessages, start: Int]

\* The checks of validate_event in their order, after the required fields.
Later == <<"INVALID_EVENT_TYPE", "UNSUPPORTED_SCHEMA_VERSION", "INVALID_EVENT_TIME",
           "PLAINTEXT_SENSITIVE_IDENTIFIER">>

Reasons ==
    {"INVALID_JSON", "MISSING_EVENT_ID", "MISSING_EVENT_TYPE", "MISSING_FIELD"}
        \union {Later[i] : i \in DOMAIN Later}

DataflowTypeOK ==
    /\ mode \in Modes
    /\ watermark \in 0..MaxTime
    /\ taken \subseteq 1..Len(topic)
    /\ refused \subseteq [index: taken, reason: Reasons]
    /\ \A p \in panes : p \in Pane /\ p.members \subseteq taken /\ p.start < p.end
    /\ \A r \in rows : r.pane \in Pane /\ r.pane.members \subseteq taken /\ r.index \in r.pane.members
    /\ late \subseteq Element
    /\ dropped \subseteq Element

DataflowInit ==
    /\ mode \in Modes
    /\ watermark = 0
    /\ taken = {}
    /\ refused = {}
    /\ panes = {}
    /\ rows = {}
    /\ late = {}
    /\ dropped = {}

-------------------------------------------------------------------------------
\* decode raises on these, and validate_event on JSON that is no object: the bundle is
\* tried again and again.
Raises(m) == m.origin = "not_text"

\* The reason of the first check that fails.  build_message writes an event_time, and
\* neither an event_type nor an event_ts.
Reason(m) ==
    CASE m.origin = "not_json" -> "INVALID_JSON"
      [] m.origin = "anonymous" -> "MISSING_EVENT_ID"
      [] m.origin = "built" -> "MISSING_EVENT_TYPE"
      [] m.origin = "gateway" -> "none"
      [] OTHER -> LET failing == {i \in DOMAIN Later : Later[i] \in m.defects}
                  IN IF failing = {} THEN "MISSING_FIELD"
                     ELSE Later[CHOOSE i \in failing : \A j \in failing : i <= j]

\* The windows that WindowInto assigns to a time.
Assigned(t) ==
    CASE mode = "fixed" -> LET start == t - (t % WindowSeconds)
                           IN {[start |-> start, end |-> start + WindowSeconds]}
      [] mode = "sliding" -> {[start |-> s, end |-> s + WindowSeconds] :
                                s \in {u \in (t - WindowSeconds + 1)..t : u % PeriodSeconds = 0}}
      [] mode = "session" -> {[start |-> t, end |-> t + SessionGap]}

Ended(w) == w.end <= watermark
Expired(w) == w.end + AllowedLateness <= watermark

\* LatestEvent.add_input: among equal times the later argument wins.
PickCandidate(current, candidate) == candidate

Pick(current, candidate) ==
    IF topic[candidate].time >= topic[current].time THEN candidate ELSE current

\* What merge_accumulators may select: inputs come in any order.
Selectable(members) ==
    {i \in members : \A j \in members : i \in {Pick(i, j), Pick(j, i)}}

\* The windows of one event id that an element's window joins: its own, or the sessions
\* it overlaps, which become one.
Joined(id, w) ==
    {p \in panes : /\ p.event_id = id
                   /\ IF mode = "session" THEN p.start < w.end /\ w.start < p.end
                      ELSE p.start = w.start}

Within(w, p) == p.start <= w.start /\ w.end <= p.end

Least(S) == CHOOSE n \in S : \A k \in S : n <= k
Greatest(S) == CHOOSE n \in S : \A k \in S : k <= n

\* Faulty: sessions that merge keep only the new element.
JoinedForgetful(id, w, i) ==
    [event_id |-> id,
     start |-> Least({w.start} \union {p.start : p \in Joined(id, w)}),
     end |-> Greatest({w.end} \union {p.end : p \in Joined(id, w)}),
     members |-> {i}]

PaneWith(id, w, i) ==
    [event_id |-> id,
     start |-> Least({w.start} \union {p.start : p \in Joined(id, w)}),
     end |-> Greatest({w.end} \union {p.end : p \in Joined(id, w)}),
     members |-> {i} \union UNION {p.members : p \in Joined(id, w)}]

\* ParseAndValidate, and for a valid event its windows.
Take(i) ==
    /\ i \notin taken /\ ~Raises(topic[i])
    /\ taken' = taken \union {i}
    /\ LET id == topic[i].event_id
           windows == Assigned(topic[i].time)
           open == {w \in windows : ~Expired(w)}
       IN IF Reason(topic[i]) = "none"
          THEN /\ panes' = (panes \ UNION {Joined(id, w) : w \in open})
                           \union {PaneWith(id, w, i) : w \in open}
               /\ late' = late \union {[index |-> i, start |-> w.start] : w \in {v \in windows : Ended(v)}}
               /\ dropped' = dropped \union {[index |-> i, start |-> w.start] : w \in windows \ open}
               /\ UNCHANGED refused
          ELSE /\ refused' = refused \union {[index |-> i, reason |-> Reason(topic[i])]}
               /\ UNCHANGED <<panes, late, dropped>>
    /\ UNCHANGED <<mode, watermark, rows>>

\* A pane that has output what it had.
Emptied(p) == [event_id |-> p.event_id, start |-> p.start, end |-> p.end, members |-> {}]

\* Faulty: a pane is output before its window has ended.
FireEarly(p) ==
    /\ p \in panes /\ p.members # {}
    /\ \E i \in Selectable(p.members) : rows' = rows \union {[index |-> i, pane |-> p]}
    /\ panes' = (panes \ {p}) \union {Emptied(p)}
    /\ UNCHANGED <<mode, watermark, taken, refused, late, dropped>>

\* The default trigger outputs a pane at the end of its window and again for what comes
\* late; the row is normalised and appended.  The window stays open, a session also to
\* merge with.
Fire(p) ==
    /\ p \in panes /\ p.members # {} /\ Ended(p)
    /\ \E i \in Selectable(p.members) : rows' = rows \union {[index |-> i, pane |-> p]}
    /\ panes' = (panes \ {p}) \union {Emptied(p)}
    /\ UNCHANGED <<mode, watermark, taken, refused, late, dropped>>

\* The state of a window is removed when it has expired and has nothing left to output.
Collect(p) ==
    /\ p \in panes /\ p.members = {} /\ Expired(p)
    /\ panes' = panes \ {p}
    /\ UNCHANGED <<mode, watermark, taken, refused, rows, late, dropped>>

\* The watermark does not wait for elements that are on their way.
AdvanceWatermark ==
    /\ watermark < MaxTime
    /\ watermark' = watermark + 1
    /\ UNCHANGED <<mode, taken, refused, panes, rows, late, dropped>>

DataflowNext ==
    \/ \E i \in DOMAIN topic : Take(i)
    \/ \E p \in panes : Fire(p) \/ Collect(p)
    \/ AdvanceWatermark

-------------------------------------------------------------------------------
\* A message that was read is in the quarantine bucket, or for each of its windows it
\* counts in an open pane or in a row of the table, or it came when that window had
\* expired and left no trace: merging sessions and firing panes lose nothing.
TakenIsAccounted ==
    \A i \in taken :
        \/ \E r \in refused : r.index = i
        \/ \A w \in Assigned(topic[i].time) :
            \/ \E p \in panes \union {r.pane : r \in rows} :
                    i \in p.members /\ Within(w, p)
            \/ [index |-> i, start |-> w.start] \in dropped

\* A row carries the latest event time of what its pane had, whatever the order in which
\* messages came and sessions merged.
RowIsLatest ==
    \A r \in rows : \A i \in r.pane.members : topic[i].time <= topic[r.index].time

\* A second row for an event id from one window comes of late elements only: what is
\* published twice in time appears once.  In sliding windows that is once per window.
SecondRowIsLate ==
    \A r, s \in rows :
        /\ r # s
        /\ Emptied(r.pane) = Emptied(s.pane)
        => \E t \in {r, s} : \A i \in t.pane.members :
                \E w \in Assigned(topic[i].time) :
                    Within(w, t.pane) /\ [index |-> i, start |-> w.start] \in late
===============================================================================
