--------------------------- MODULE TelegramReport ---------------------------
(***************************************************************************)
(* TelegramReportService: the summary of the queue.  getStats() runs five  *)
(* statements one after the other, each on the table as it is then, while  *)
(* the worker and the CLI go on; here they are JobLifecycle, which the     *)
(* queue implements (one worker, a database that answers).  A count is the *)
(* set it counts.                                                          *)
(***************************************************************************)
EXTENDS JobLifecycle, Naturals

VARIABLES
    recent,  \* done jobs with finished_at >= now() - interval '1 hour'
    report   \* getStats under way: the next statement, QueueStats so far, history

reportVars == <<recent, report>>

Fields == {"doneLastHour", "doneTotal", "failedTotal", "remaining", "avgDurationSec"}

\* FAULTY: what is left is counted before what is done.
RemainingFirst == <<"remaining", "doneLastHour", "doneTotal", "failedTotal", "avgDurationSec">>

\* The statements in the order they are awaited.
Statements == <<"doneLastHour", "doneTotal", "failedTotal", "remaining", "avgDurationSec">>

\* The rows a statement ranges over; the average is null when there are none.
Selected(f) ==
    CASE f \in {"doneLastHour", "avgDurationSec"} -> recent
      [] f = "doneTotal" -> done
      [] f = "failedTotal" -> failed
      [] f = "remaining" -> waiting \cup current

\* next: 1 .. 5 the statement to come, 6 all are answered, 0 no report.
\* wasOpen, wasDone, wasFailed, requeued: history, the jobs unsettled, done and
\* failed when the report began, and those put back since by queue:requeue-failed.
NoReport == [next |-> 0, stats |-> [f \in Fields |-> {}],
             wasOpen |-> {}, wasDone |-> {}, wasFailed |-> {}, requeued |-> {}]

Report == [next: 0 .. 6, stats: [Fields -> SUBSET JobIds], wasOpen: SUBSET JobIds,
           wasDone: SUBSET JobIds, wasFailed: SUBSET JobIds, requeued: SUBSET JobIds]

Begun == [next |-> 1, stats |-> NoReport.stats, wasOpen |-> waiting \cup current,
          wasDone |-> done, wasFailed |-> failed, requeued |-> {}]

\* The next statement is answered.
Read ==
    LET f == Statements[report.next] IN
    /\ report.next \in 1 .. 5
    /\ report' = [report EXCEPT !.next = @ + 1, !.stats[f] = Selected(f)]

Complete == report.next = 6

\* The worker, a client or the CLI moves a job; a job that is done has just
\* been finished.
QueueMoves ==
    /\ Next
    /\ recent' = done' \cap (recent \cup (done' \ done))
    /\ report' = IF report.next = 0 THEN report
                 ELSE [report EXCEPT !.requeued = @ \cup (failed \ failed')]

\* A done job's finished_at is an hour ago.
HourPasses(j) ==
    /\ j \in recent
    /\ recent' = recent \ {j}
    /\ UNCHANGED <<vars, report>>

ReportInit == Init /\ recent = {} /\ report = NoReport

\* formatEta: which estimate the text gives.
Eta(s) ==
    IF s.remaining = {} THEN "queue is empty"
    ELSE IF s.doneLastHour # {} THEN "by jobs per hour"
    ELSE IF s.avgDurationSec # {} THEN "by average duration"
    ELSE "not enough data"

-----------------------------------------------------------------------------
(* Properties of a report that is complete                                 *)

CountedTwice(s) ==
    (s.doneTotal \cap (s.failedTotal \cup s.remaining)) \cup (s.failedTotal \cap s.remaining)

Missed(s) ==
    (report.wasOpen \cup report.wasDone \cup report.wasFailed)
      \ (s.doneTotal \cup s.failedTotal \cup s.remaining)

\* Five statements are no snapshot, yet the counts of a report fit: the jobs of
\* the last hour are among all that are done, a job is counted twice only if it
\* was requeued meanwhile, and a job of the table that no count has was requeued
\* meanwhile or was unsettled when the report began and is settled now.
CountsFit ==
    Complete => LET s == report.stats IN
                /\ s.doneLastHour \subseteq s.doneTotal
                /\ CountedTwice(s) \subseteq report.requeued
                /\ Missed(s) \ report.requeued \subseteq report.wasOpen \cap (done \cup failed)

\* formatEta falls back to the average duration only when no job was done in
\* the last hour, and the average is of the same hour: the estimate is given
\* only for a job that finished between the first statement and the last.
AverageIsOfALateFinish ==
    Complete /\ Eta(report.stats) = "by average duration" =>
        report.stats.avgDurationSec \cap report.wasDone = {}
=============================================================================
