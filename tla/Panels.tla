------------------------------- MODULE Panels -------------------------------
(***************************************************************************)
(* The panels of the vault page and the dashboard that read from the        *)
(* backend: each asks when it appears and again when its owner turns a      *)
(* knob, shows the answer that came last, and cancels nothing.  Performance *)
(* card and value chart share one time range.  Where a button is off while  *)
(* a request is under way there is one at most; elsewhere they overlap.     *)
(*                                                                         *)
(* Moments are the things that happen to a vault, in order: a snapshot of   *)
(* its value, a deposit, a slot defined in the editor, the context stored   *)
(* on chain.  The time of a moment is its place.                            *)
(***************************************************************************)
EXTENDS Integers, Sequences, FiniteSetsExt, SequencesExt

CONSTANTS
    Past,         \* what may have happened before the page is opened
    Days,         \* the range that is not "all", in moments
    MaxPoints,    \* MAX_HISTORY_POINTS
    MaxMoments,   \* bound: moments
    MaxUnderWay,  \* bound: requests of a panel under way
    MaxKnobs      \* bound: clicks, polls, failing requests

Kind == {"snapshot", "deposit", "slot", "context"}
ASSUME PanelsAssumption == Past \subseteq Seq(Kind) /\ Days \in Nat /\ MaxPoints \in Nat \ {0, 1}

VARIABLES
    moments, range, panels, requests, knobs,
    open          \* the panels looked at; the others stay away

panelVars == <<moments, range, panels, requests, knobs, open>>

Panel == {"card", "chart", "positions", "context", "portfolio", "status", "dashboard"}
Ranged == {"card", "chart"}
\* At most one request: the button is off, or shown with an error only.
Single == {"positions", "context", "dashboard"}
HistoryRange == {Days, 0}   \* 0 is "all"

Nothing == [asOf |-> -1]
Unserved == [asOf |-> -2]

\* `no`, `ok` and `since` are history: which request was answered last, how, and
\* when it had been sent.
Blank == [data |-> Nothing, loading |-> TRUE, refreshing |-> FALSE, error |-> FALSE,
          asked |-> 1, no |-> 0, ok |-> TRUE, since |-> 0]
Fetch(p, n, r, refresh) == [no |-> n, range |-> r, refresh |-> refresh, since |-> Len(moments),
                               got |-> Unserved]

PanelsInit ==
    /\ moments \in Past
    /\ open \in {Ranged, {"positions"}, {"context"}, {"portfolio"}, {"status"}, {"dashboard"}}
    /\ range = Days
    /\ panels = [p \in open |-> Blank]
    /\ requests = [p \in open |-> <<Fetch(p, 1, Days, FALSE)>>]
    /\ knobs = 0

Today == Len(moments)
Times(kind) == {t \in 1 .. Today : moments[t] = kind}

\* rangeToCutoff, and the rows at or after it.
InRange(times, r) == {t \in times : r # 0 => t >= Today - r}

\* The rows of a table by their time.
InOrder(times) ==
    [k \in 1 .. Cardinality(times) |-> CHOOSE t \in times : Cardinality({u \in times : u <= t}) = k]

\* Mutant: the last point is not kept.
downsample_Truncates(points, max) == SubSeq(points, 1, Min({max, Len(points)}))

\* Evenly thinned; Math.round of i * (n - 1) / (max - 1).
downsample(points, max) ==
    LET n == Len(points) m == max - 1 IN
    IF max < 2 \/ n <= max THEN points
    ELSE [i \in 1 .. max |-> points[1 + (2 * (i - 1) * (n - 1) + m) \div (2 * m)]]

\* getValueHistory: the points and the markers of a range.
getValueHistory(r) ==
    [asOf |-> Today, range |-> r,
     points |-> downsample(InOrder(InRange(Times("snapshot"), r)), MaxPoints),
     markers |-> InRange(Times("deposit"), r)]

\* PositionsView: the latest snapshot, or a live valuation when one is asked
\* for or there is none.
PositionsView(refresh) ==
    IF ~refresh /\ Times("snapshot") # {} THEN [asOf |-> Max(Times("snapshot")), live |-> FALSE]
    ELSE [asOf |-> Today, live |-> TRUE]

\* getContextSlots: what the editor defined beside what the chain stores, which
\* counts as empty when it cannot be read.
SlotsAt(t) == Cardinality({u \in 1 .. t : moments[u] = "slot"})
getContextSlots(readable) ==
    LET stored == Times("context") \cup {0}
        length == IF readable THEN SlotsAt(Max(stored)) ELSE 0
    IN  [asOf |-> Today, slots |-> SlotsAt(Today), contextLength |-> length,
         syncWarning |-> SlotsAt(Today) # length]

Answer(p, q) ==
    CASE p = "card" -> {[asOf |-> Today, range |-> q.range]}
      [] p = "chart" -> {getValueHistory(q.range)}
      [] p = "positions" -> {PositionsView(q.refresh)}
      [] p = "context" -> {getContextSlots(readable) : readable \in BOOLEAN}
      [] OTHER -> {[asOf |-> Today]}

\* What the chart draws: a curve of at least two points, and the markers that
\* lie on it.
Curve(answer) == IF Len(answer.points) >= 2 THEN answer.points ELSE <<>>
Markers(answer) ==
    IF Curve(answer) = <<>> THEN {}
    ELSE {t \in answer.markers : t >= Head(answer.points) /\ t <= Last(answer.points)}

---------------------------------------------------------------------------
Moment(kind) ==
    /\ Today < MaxMoments
    /\ kind \in {"slot", "context"} => open = {"context"}
    /\ moments' = Append(moments, kind)
    /\ UNCHANGED <<range, panels, requests, knobs, open>>

Knob == knobs < MaxKnobs /\ knobs' = knobs + 1

\* Mutant: the error of the last attempt is left standing.
Asks_KeepsError(ps, r, refresh) ==
    /\ \A p \in ps : Len(requests[p]) < MaxUnderWay
    /\ requests' = [p \in open |-> IF p \in ps
            THEN Append(requests[p], Fetch(p, panels[p].asked + 1, r, refresh)) ELSE requests[p]]
    /\ panels' = [p \in open |-> IF p \in ps
            THEN [panels[p] EXCEPT !.asked = @ + 1, !.loading = ~refresh, !.refreshing = refresh]
            ELSE panels[p]]

\* load: the panels ps ask, each for itself.  Polling neither shows that it is
\* loading nor that it failed.
Asks(ps, r, refresh) ==
    /\ \A p \in ps : Len(requests[p]) < MaxUnderWay
    /\ requests' = [p \in open |-> IF p \in ps
            THEN Append(requests[p], Fetch(p, panels[p].asked + 1, r, refresh)) ELSE requests[p]]
    /\ panels' = [p \in open |-> IF p \in ps
            THEN [panels[p] EXCEPT !.asked = @ + 1, !.error = FALSE,
                                   !.loading = ~refresh, !.refreshing = refresh]
            ELSE panels[p]]

\* Either toggle sets the range of the page; the effects of both panels run.
onRangeChange ==
    /\ open = Ranged
    /\ Knob
    /\ \E r \in HistoryRange \ {range} : range' = r /\ Asks(Ranged, r, FALSE)
    /\ UNCHANGED <<moments, open>>

\* The buttons Refresh and Retry.
refreshPanel(p) ==
    /\ p \in open \cap {"positions", "context"}
    /\ ~panels[p].loading /\ ~panels[p].refreshing
    /\ Knob
    /\ Asks({p}, range, p = "positions")
    /\ UNCHANGED <<moments, range, open>>

retryPanel(p) ==
    /\ p \in open \cap {"context", "portfolio", "dashboard"}
    /\ panels[p].error
    /\ Knob
    /\ Asks({p}, range, FALSE)
    /\ UNCHANGED <<moments, range, open>>

\* A deposit or withdrawal went through; the interval of the status.
askAgain(p) ==
    /\ p \in open \cap {"portfolio", "status"}
    /\ Knob
    /\ Asks({p}, range, FALSE)
    /\ UNCHANGED <<moments, range, open>>

\* The backend answers a request.
serve(p, i) ==
    /\ requests[p][i].got = Unserved
    /\ \E a \in Answer(p, requests[p][i]) : requests' = [requests EXCEPT ![p][i].got = a]
    /\ UNCHANGED <<moments, range, panels, knobs, open>>

\* Its answer, or its failure, reaches the panel.
receive(p, i, ok) ==
    LET q == requests[p][i]
        d == panels[p]
    IN  /\ IF ok THEN q.got # Unserved /\ UNCHANGED knobs ELSE Knob
        /\ requests' = [requests EXCEPT ![p] = RemoveAt(@, i)]
        /\ panels' = [panels EXCEPT ![p] =
             [d EXCEPT !.data = IF ok THEN q.got ELSE d.data,
                       !.error = d.error \/ (~ok /\ p # "status"),
                       !.loading = FALSE, !.refreshing = FALSE,
                       !.no = q.no, !.ok = ok, !.since = q.since]]
        /\ UNCHANGED <<moments, range, open>>

\* 403: the vault is somebody else's, the page gives way to the dashboard.
forbidden(i) ==
    /\ open = {"portfolio"}
    /\ open' = {"dashboard"}
    /\ panels' = [p \in {"dashboard"} |-> Blank]
    /\ requests' = [p \in {"dashboard"} |-> <<Fetch(p, 1, range, FALSE)>>]
    /\ UNCHANGED <<moments, range, knobs>>

PanelsNext ==
    \/ \E kind \in Kind : Moment(kind)
    \/ onRangeChange
    \/ \E p \in open : refreshPanel(p) \/ retryPanel(p) \/ askAgain(p)
    \/ \E p \in open : \E i \in DOMAIN requests[p] :
          serve(p, i) \/ receive(p, i, TRUE) \/ receive(p, i, FALSE)
    \/ "portfolio" \in open /\ \E i \in DOMAIN requests["portfolio"] : forbidden(i)

PanelsSpec == PanelsInit /\ [][PanelsNext]_panelVars

-----------------------------------------------------------------------------
\* Nothing is under way, and the request sent last was also the last answered.
AtRest(p) == requests[p] = <<>> /\ panels[p].no = panels[p].asked

\* A panel at rest shows what it last asked for, or that this failed, never a
\* spinner or an answer older than the question; a panel whose button waits is
\* busy exactly as long as its request, so nothing can overtake it and no error
\* of before is left (in the others an earlier request that fails late is).
AtRestTrue ==
    \A p \in open :
      LET d == panels[p] IN
        /\ p \in Single => Len(requests[p]) <= 1 /\ (requests[p] = <<>>) = ~(d.loading \/ d.refreshing)
        /\ AtRest(p) =>
             /\ ~d.loading /\ ~d.refreshing
             /\ p # "status" /\ ~d.ok => d.error
             /\ p \in Single => d.error = ~d.ok
             /\ d.ok => \/ d.data.asOf >= d.since
                        \/ p = "positions" /\ ~d.data.live

\* Card and chart at rest speak of the range that is selected, and the chart's
\* curve begins and ends with the first and last snapshot of it, in order,
\* whatever was left out in between (history.ts: "always keeping the first and
\* last point so the curve's endpoints are exact").
RangeTrue ==
    open = Ranged /\ (\A p \in Ranged : AtRest(p) /\ panels[p].ok) =>
      LET h == panels["chart"].data
          kept == {t \in 1 .. h.asOf : moments[t] = "snapshot" /\ (h.range # 0 => t >= h.asOf - h.range)}
      IN  /\ panels["card"].data.range = range /\ h.range = range
          /\ Cardinality(kept) >= 2 =>
               /\ Head(Curve(h)) = Min(kept) /\ Last(Curve(h)) = Max(kept)
               /\ Len(Curve(h)) = Min({MaxPoints, Cardinality(kept)})
          /\ \A i, j \in DOMAIN Curve(h) : i < j => Curve(h)[i] < Curve(h)[j]
          /\ Markers(h) \subseteq {t \in 1 .. h.asOf : moments[t] = "deposit"}

\* When the context view warns of nothing, the chain stores a value for every
\* slot that was defined when it asked.
WarningTrue ==
    open = {"context"} /\ panels["context"].data # Nothing /\ ~panels["context"].data.syncWarning =>
      LET d == panels["context"].data
          stored == {t \in 1 .. d.asOf : moments[t] = "context"}
      IN  d.slots = 0 \/ (stored # {} /\ \A t \in 1 .. d.asOf : moments[t] = "slot" => t < Max(stored))

PanelsTellTruth == AtRestTrue /\ RangeTrue /\ WarningTrue
=============================================================================
