----------------------------- MODULE Dashboard -----------------------------
(***************************************************************************)
(* What the dashboard shows of the request log (app/chart_ranges.py,       *)
(* app/db.py, app/main.py): statuses are classified in SQL conditions and  *)
(* in Python, requests are counted over windows and put into buckets, and  *)
(* the list is read page by page while requests are logged and deleted.    *)
(*                                                                         *)
(* Times are whole seconds of ages that are a fraction longer: a clock is  *)
(* never exactly a stored timestamp away from it.  Python's clock stamps   *)
(* and buckets, the database's selects; neither is set back.  What one     *)
(* answer tells is read in several statements, and requests are logged and *)
(* deleted, and time passes, between any two of them.  The provider's      *)
(* filter is left out.                                                     *)
(***************************************************************************)
EXTENDS Integers, FiniteSets, FiniteSetsExt, Sequences, SequencesExt

CONSTANTS
  Absent,        \* no status code: the request failed on the network
  Outcomes,      \* status codes, waits and delays of requests, see Record
  Steps,         \* seconds that may pass
  Skew,          \* the database's clock, less the process's
  MaxRows, MaxSteps,   \* bounds
  Limit          \* rows of a page, at least one

VARIABLES
  log,           \* request_stats: rows of an id, a time, a code and a wait
  now, ticks, lastId,
  pages,         \* a reader: the ids it got, the ids when it began, whether more
  chart,         \* a reader of a chart: the oldest time it read, its range and the
                 \* rows it selected; and (history) the rows that were there when
                 \* it read the oldest time and the clock's times on the way
  alert          \* evaluate_alerts: the counts so far; and (history) the rows they
                 \* are of, and those in the window at every statement

vars == <<log, now, ticks, lastId, pages, chart, alert>>

NotReading == [got |-> <<>>, base |-> {}, more |-> FALSE]
NoRange == [window |-> 0, size |-> 1, count |-> 0]
NoChart ==
  [stage |-> "none", oldest |-> Absent, range |-> NoRange, rows |-> {}, known |-> {}, read |-> 0, at |-> 0]
NoAlert == [counts |-> <<>>, rows |-> {}, throughout |-> {}]

Init ==
  /\ log = {} /\ now = 0 /\ ticks = 0 /\ lastId = 0
  /\ pages = NotReading /\ chart = NoChart /\ alert = NoAlert

Age(row) == now - row.time

-----------------------------------------------------------------------------
(* Statuses.  Comparisons with NULL are not true in SQL.                   *)

Below(code, bound) == code # Absent /\ code < bound

\* Mutant of SqlThrottled: a slow failure is throttled too.
SqlThrottledSlow(row) == row.code = 429 \/ (row.code # Absent /\ row.wait > 2000)

(* STATUS_CONDITIONS.                                                      *)
SqlError(row) == row.code = Absent \/ (~Below(row.code, 400) /\ row.code # 429)
SqlThrottled(row) == row.code = 429 \/ (Below(row.code, 400) /\ row.wait > 2000)
SqlSuccess(row) == Below(row.code, 400) /\ row.code # 429 /\ row.wait <= 2000

StatusLabel(code) ==
  CASE code = Absent -> "error"
    [] code # Absent /\ code = 429 -> "429"
    [] code # Absent /\ code >= 400 /\ code # 429 -> "error"
    [] OTHER -> "success"

(* chart_status_breakdown.                                                 *)
ChartStatus(row) ==
  CASE StatusLabel(row.code) = "error" -> "error"
    [] StatusLabel(row.code) = "429" \/ (StatusLabel(row.code) = "success" /\ row.wait > 2000)
         -> "throttled"
    [] OTHER -> "success"

(* classify_error_type: what kind of failure is stored with the request.   *)
ErrorType(code) ==
  CASE code = Absent -> "none"
    [] code # Absent /\ code = 429 -> "rate_limited"
    [] code # Absent /\ code >= 500 /\ code < 600 -> "server_error"
    [] code # Absent /\ code >= 400 /\ code < 500 /\ code # 429 -> "client_error"
    [] OTHER -> "none"

-----------------------------------------------------------------------------
(* Windows and buckets.                                                    *)

\* Selected by the database's clock.
Window(seconds) == {row \in log : Age(row) + Skew < seconds}

SqlStatus(row, status) ==
  \/ status = "error" /\ SqlError(row)
  \/ status = "throttled" /\ SqlThrottled(row)
  \/ status = "success" /\ SqlSuccess(row)

(* count_status_since: the rows it counts.                                 *)
StatusSince(status, seconds) == {row \in Window(seconds) : SqlStatus(row, status)}

RoundHalfEven(n, d) ==
  LET q == n \div d
      r == n % d
  IN IF 2 * r > d \/ (2 * r = d /\ q % 2 = 1) THEN q + 1 ELSE q

CeilDiv(n, d) == (n + d - 1) \div d

(* resolve_range of "all": the window is the age of the oldest request,    *)
(* rounded up, and about forty buckets cover it.                           *)
AllRange(oldest) ==
  LET window == IF oldest = Absent THEN 300 ELSE Max({60, oldest + 1})
      size == Max({10, RoundHalfEven(window, 40)})
  IN [window |-> window, size |-> size, count |-> CeilDiv(window, size)]

(* RANGE_PRESETS, and the hours of cost_per_hour_buckets.                  *)
Preset(window, size) == [window |-> window, size |-> size, count |-> window \div size]
Presets == {Preset(300, 10), Preset(1800, 60), Preset(3600, 120), Preset(21600, 600),
            Preset(86400, 1800)}
Hours == Preset(86400, 3600)

OldestTime == IF log = {} THEN Absent ELSE Min({row.time : row \in log})

(* The newest bucket comes last; a request that falls before the first one *)
(* is not counted.                                                         *)
BucketOf(range, row) == range.count - 1 - (Age(row) \div range.size)

(* What the chart tells if Python's clock is read now.                     *)
Bucket(b, status) ==
  Cardinality({row \in chart.rows : BucketOf(chart.range, row) = b /\ ChartStatus(row) = status})

Charted(status) ==
  SumFunction([b \in 0 .. chart.range.count - 1 |-> Bucket(b, status)])

\* The n newest rows of a set, newest first: ORDER BY id DESC LIMIT n.
Newer(rows, row) == Cardinality({other \in rows : other.id > row.id})
Newest(rows, n) ==
  [i \in 1 .. Min({n, Cardinality(rows)}) |-> CHOOSE row \in rows : Newer(rows, row) = i - 1]

AllFailed(n) ==
  Cardinality(log) >= n
    /\ \A i \in DOMAIN Newest(log, n) : StatusLabel(Newest(log, n)[i].code) = "error"

-----------------------------------------------------------------------------
(* The steps.                                                              *)

(* insert_request: a row is stamped, and there some time later.            *)
Record(outcome) ==
  /\ lastId < MaxRows /\ outcome.delay <= now
  /\ lastId' = lastId + 1
  /\ log' = log \cup {[id |-> lastId + 1, time |-> now - outcome.delay, code |-> outcome.code,
                       wait |-> outcome.wait]}
  /\ UNCHANGED <<now, ticks, pages, chart, alert>>

(* delete_request, delete_by_ids, the purge.                               *)
Erase ==
  /\ \E row \in log : log' = log \ {row}
  /\ UNCHANGED <<now, ticks, lastId, pages, chart, alert>>

Pass(seconds) ==
  /\ ticks < MaxSteps /\ ticks' = ticks + 1
  /\ now' = now + seconds
  /\ UNCHANGED <<log, lastId, pages, chart, alert>>

\* Mutant of Page: the last row of a page begins the next one.
PageInclusive(before) == Newest({row \in log : before = Absent \/ row.id <= before}, Limit)

(* recent_requests and search_requests.                                    *)
Page(before) == Newest({row \in log : before = Absent \/ row.id < before}, Limit)

Ids(rows) == [i \in DOMAIN rows |-> rows[i].id]
HasMore(rows) == Len(rows) = Limit

(* The dashboard asks for the first page, and for the one after the last   *)
(* row it has while the answer says there may be more.                     *)
ReadFirst ==
  /\ pages' = [got |-> Ids(Page(Absent)), base |-> {row.id : row \in log},
               more |-> HasMore(Page(Absent))]
  /\ UNCHANGED <<log, now, ticks, lastId, chart, alert>>

ReadNext ==
  /\ pages.more
  /\ LET page == Page(Last(pages.got)) IN
       pages' = [pages EXCEPT !.got = @ \o Ids(page), !.more = HasMore(page)]
  /\ UNCHANGED <<log, now, ticks, lastId, chart, alert>>

(* get_charts.  The range of "all" takes the oldest timestamp in one       *)
(* statement, and then Python's clock.                                     *)
ChooseRange(range) ==
  /\ chart.stage \in {"none", "selected"}
  /\ chart' = [NoChart EXCEPT !.stage = "ranged", !.range = range]
  /\ UNCHANGED <<log, now, ticks, lastId, pages, alert>>

ReadOldest ==
  /\ chart.stage \in {"none", "selected"}
  /\ chart' = [NoChart EXCEPT !.stage = "oldest", !.oldest = OldestTime, !.known = log]
  /\ UNCHANGED <<log, now, ticks, lastId, pages, alert>>

SizeRange ==
  /\ chart.stage = "oldest"
  /\ chart' = [chart EXCEPT !.stage = "ranged", !.read = now,
       !.range = AllRange(IF chart.oldest = Absent THEN Absent ELSE now - chart.oldest)]
  /\ UNCHANGED <<log, now, ticks, lastId, pages, alert>>

(* chart_status_breakdown: the statement.                                  *)
SelectRows ==
  /\ chart.stage = "ranged"
  /\ chart' = [chart EXCEPT !.stage = "selected", !.rows = Window(chart.range.window),
                            !.known = @ \cap log, !.at = now]
  /\ UNCHANGED <<log, now, ticks, lastId, pages, alert>>

(* evaluate_alerts: the failures and the requests of the last five minutes *)
(* that the error rate is of, a statement for each status.                 *)
AlertWindow == 300
AlertOrder == <<"error", "success", "throttled">>

EvaluateAlerts ==
  /\ Len(alert.counts) \in {0, 3}
  /\ LET rows == StatusSince(AlertOrder[1], AlertWindow) IN
       alert' = [counts |-> <<Cardinality(rows)>>, rows |-> rows, throughout |-> Window(AlertWindow)]
  /\ UNCHANGED <<log, now, ticks, lastId, pages, chart>>

CountNext ==
  /\ Len(alert.counts) \in {1, 2}
  /\ LET rows == StatusSince(AlertOrder[Len(alert.counts) + 1], AlertWindow) IN
       alert' = [counts |-> Append(alert.counts, Cardinality(rows)), rows |-> alert.rows \cup rows,
                 throughout |-> alert.throughout \cap Window(AlertWindow)]
  /\ UNCHANGED <<log, now, ticks, lastId, pages, chart>>

LogNext ==
  \/ \E outcome \in Outcomes : Record(outcome)
  \/ Erase
  \/ \E seconds \in Steps : Pass(seconds)

PagesNext == ReadFirst \/ ReadNext

ChartNext ==
  \/ \E range \in Presets \cup {Hours} : ChooseRange(range)
  \/ ReadOldest
  \/ SizeRange
  \/ SelectRows

AlertNext == EvaluateAlerts \/ CountNext

Next == LogNext \/ PagesNext \/ ChartNext \/ AlertNext

Spec == Init /\ [][Next]_vars

-----------------------------------------------------------------------------
(* Properties.                                                             *)

Statuses == {"error", "throttled", "success"}

(* Whatever the range and whenever Python's clock is read, every request   *)
(* that was selected is counted in one bucket and under one status, the    *)
(* one that the SQL conditions of filters and counters give it; except     *)
(* that it is not counted if it has grown older than the buckets cover     *)
(* since it was selected: those at the old edge.  The buckets cover the    *)
(* window.                                                                 *)
ChartsExact ==
  chart.stage = "selected" =>
    LET covered == chart.range.count * chart.range.size IN
    /\ chart.range.window <= covered
    /\ \A status \in Statuses :
         Charted(status)
           = Cardinality({row \in chart.rows : SqlStatus(row, status) /\ Age(row) < covered})

(* The range of "all" has every request that was there when its oldest     *)
(* timestamp was read and still is, unless a second has passed since the   *)
(* clock was read, or the database's clock is ahead: then the oldest ones  *)
(* may be missing.  One that is stamped before that and logged after is    *)
(* not among them.                                                         *)
AllExact ==
  chart.stage = "selected" /\ chart.at + Skew <= chart.read => chart.known \subseteq chart.rows

(* The error rate is a share: the three counts together count no request   *)
(* twice, and every one once that is in the window at all three            *)
(* statements.  One that is logged, deleted or outlived between them may   *)
(* count or not.                                                           *)
ErrorRateTrue ==
  Len(alert.counts) = 3 =>
    /\ alert.counts[1] + alert.counts[2] + alert.counts[3] = Cardinality(alert.rows)
    /\ alert.throughout \subseteq alert.rows

(* "The last 3 upstream requests failed" is said only when the last three  *)
(* requests were failures, and a request that got an answer below 400, or  *)
(* a 429, is none.                                                         *)
DownIsDown ==
  AllFailed(3) =>
    Cardinality({row \in log : SqlError(row) /\ Newer(log, row) < 3}) = 3

(* A failure the error breakdown has no kind for is a network failure or   *)
(* outside of HTTP: every logged status that counts as an error has one.   *)
ErrorsHaveTypes ==
  \A row \in log : row.code # Absent => (ErrorType(row.code) # "none" <=> ~Below(row.code, 400))

(* Charts, counters and alerts tell the same of the log, up to the         *)
(* requests at the edges of their windows, and none counts twice.          *)
StatisticsAgree ==
  ChartsExact /\ AllExact /\ ErrorRateTrue /\ DownIsDown /\ ErrorsHaveTypes

(* A reader who pages to the end while requests are logged and deleted has *)
(* got every request that was there when it began and still is, in order,  *)
(* and none twice.                                                         *)
PagesComplete ==
  /\ \A i, j \in DOMAIN pages.got : i < j => pages.got[i] > pages.got[j]
  /\ ~pages.more => pages.base \cap {row.id : row \in log} \subseteq ToSet(pages.got)
=============================================================================
