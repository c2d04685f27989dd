------------------------- MODULE TelegramBotProofs -------------------------
(***************************************************************************)
(* Theorems about TelegramBot, for any updates, admins, jobs and bounds.   *)
(***************************************************************************)
EXTENDS TelegramBot, TLAPS

-----------------------------------------------------------------------------
(* The report: what the statements answered so far have to do with the     *)
(* queue as it is now.                                                     *)

\* A job is in one place, and the jobs of the last hour are done.
InOnePlace ==
    /\ waiting \cap current = {} /\ waiting \cap done = {} /\ waiting \cap failed = {}
    /\ current \cap done = {} /\ current \cap failed = {} /\ done \cap failed = {}

QueueOK ==
    /\ waiting \subseteq JobIds /\ current \subseteq JobIds
    /\ done \subseteq JobIds /\ failed \subseteq JobIds
    /\ InOnePlace
    /\ recent \subseteq done

DoneOK ==
    LET s == report.stats IN
    /\ report.next > 0 => report.wasDone \subseteq done
    /\ report.next > 1 => /\ s.doneLastHour \subseteq done
                          /\ recent \cap report.wasDone \subseteq s.doneLastHour
    /\ report.next > 2 => /\ s.doneLastHour \subseteq s.doneTotal
                          /\ s.doneTotal \subseteq done
                          /\ report.wasDone \subseteq s.doneTotal

OthersOK ==
    LET s == report.stats IN
    /\ report.next > 3 => /\ s.failedTotal \cap s.doneTotal = {}
                          /\ s.failedTotal \ failed \subseteq report.requeued
    /\ report.next > 4 => /\ s.remaining \cap s.doneTotal = {}
                          /\ s.failedTotal \cap s.remaining \subseteq report.requeued
    /\ report.next > 5 => s.avgDurationSec \cap report.wasDone \subseteq s.doneLastHour

\* Where the jobs are that were failed or unsettled when the report began.
MissedOK ==
    LET s == report.stats IN
    /\ report.next > 0 =>
          /\ report.wasFailed \subseteq failed \cup report.requeued
          /\ report.wasOpen \subseteq waiting \cup current \cup done \cup failed
    /\ report.next > 3 => report.wasFailed \subseteq s.failedTotal \cup report.requeued
    /\ report.next > 4 =>
          report.wasOpen \subseteq s.remaining \cup done \cup failed \cup report.requeued

ReportInv == QueueOK /\ report \in Report /\ DoneOK /\ OthersOK /\ MissedOK

\* What a step of the bot, the queue or the clock may do to a report.
ReportStep ==
    \/ UNCHANGED <<vars, recent>> /\ report' \in {report, NoReport, Begun}
    \/ UNCHANGED <<vars, recent>> /\ Read
    \/ QueueMoves
    \/ \E j \in JobIds : HourPasses(j)

LEMMA ReportStarts == ASSUME ReportInit PROVE ReportInv
BY DEF ReportInit, Init, ReportInv, QueueOK, InOnePlace, Report, DoneOK, OthersOK, MissedOK, NoReport

\* A done job stays done, and a job is in one place.
LEMMA LifecycleStep ==
    ASSUME QueueOK, Next
    PROVE  /\ done \subseteq done' /\ InOnePlace'
           /\ waiting \cup current \cup failed \subseteq waiting' \cup current' \cup done' \cup failed'
           /\ waiting' \subseteq JobIds /\ current' \subseteq JobIds
           /\ done' \subseteq JobIds /\ failed' \subseteq JobIds
<1> USE DEF QueueOK, InOnePlace
<1>1. CASE \E j \in JobIds : Submit(j) BY <1>1 DEF Submit
<1>2. CASE \E j \in JobIds : Start(j) BY <1>2 DEF Start
<1>3. CASE Succeed BY <1>3 DEF Succeed
<1>4. CASE GiveUp BY <1>4 DEF GiveUp
<1>5. CASE PutBack BY <1>5 DEF PutBack
<1>6. CASE \E S \in SUBSET failed : S # {} /\ Resubmit(S) BY <1>6 DEF Resubmit
<1> QED BY <1>1, <1>2, <1>3, <1>4, <1>5, <1>6 DEF Next

LEMMA ReportKept == ASSUME ReportInv, ReportStep PROVE ReportInv'
<1>1. CASE UNCHANGED <<vars, recent>> /\ report' = report
  BY <1>1 DEF vars, ReportInv, QueueOK, InOnePlace, Report, DoneOK, OthersOK, MissedOK
<1>2. CASE UNCHANGED <<vars, recent>> /\ report' = NoReport
  BY <1>2 DEF vars, ReportInv, QueueOK, InOnePlace, Report, DoneOK, OthersOK, MissedOK, NoReport
<1>3. CASE UNCHANGED <<vars, recent>> /\ report' = Begun
  <2>1. /\ report' \in Report /\ report'.next = 1 /\ report'.wasDone = done
        /\ report'.wasFailed = failed /\ report'.wasOpen = waiting \cup current
    <3>1. NoReport.stats \in [Fields -> SUBSET JobIds] BY DEF NoReport
    <3> QED BY <1>3, <3>1 DEF Begun, ReportInv, QueueOK, Report
  <2>2. QueueOK' /\ UNCHANGED <<waiting, current, done, failed>> BY <1>3 DEF vars, ReportInv, QueueOK, InOnePlace
  <2> QED BY <2>1, <2>2 DEF ReportInv, DoneOK, OthersOK, MissedOK
<1>4. CASE UNCHANGED <<vars, recent>> /\ Read
  <2> DEFINE f == Statements[report.next]
  <2>1. /\ report'.next = report.next + 1 /\ report'.wasDone = report.wasDone
        /\ report'.wasFailed = report.wasFailed /\ report'.wasOpen = report.wasOpen
        /\ report'.requeued = report.requeued /\ report.next \in 1 .. 5
        /\ report'.stats = [report.stats EXCEPT ![f] = Selected(f)]
    BY <1>4 DEF Read, ReportInv, Report
  <2>2. f \in Fields /\ report.stats \in [Fields -> SUBSET JobIds]
    BY <2>1 DEF Statements, Fields, ReportInv, Report
  <2>3. \A g \in Fields : report'.stats[g] = IF g = f THEN Selected(f) ELSE report.stats[g]
    BY <2>1, <2>2
  <2>4. /\ UNCHANGED <<waiting, current, done, failed, recent>>
        /\ QueueOK' /\ QueueOK /\ DoneOK /\ OthersOK /\ MissedOK
    BY <1>4 DEF ReportInv, QueueOK, InOnePlace, vars
  <2>5. Selected(f) \in SUBSET JobIds
    BY <2>2, <2>4 DEF Selected, Fields, QueueOK
  <2>6. report' \in Report
    <3>1. report'.stats \in [Fields -> SUBSET JobIds] BY <2>1, <2>2, <2>5
    <3> DEFINE more == [report EXCEPT !.next = report.next + 1]
    <3>2. more \in Report BY <2>1 DEF ReportInv, Report
    <3>3. report' = [more EXCEPT !.stats = report'.stats] BY <1>4, <2>1 DEF Read, ReportInv, Report
    <3> QED BY <3>1, <3>2, <3>3 DEF Report
  <2>7. CASE report.next = 1
    <3>1. f = "doneLastHour" /\ Selected(f) = recent BY <2>7 DEF Statements, Selected
    <3> QED BY <2>1, <2>3, <2>4, <2>7, <2>6, <3>1 DEF ReportInv, QueueOK, InOnePlace, DoneOK, OthersOK, MissedOK, Fields
  <2>8. CASE report.next = 2
    <3>1. f = "doneTotal" /\ Selected(f) = done BY <2>8 DEF Statements, Selected
    <3> QED BY <2>1, <2>3, <2>4, <2>8, <2>6, <3>1 DEF ReportInv, QueueOK, InOnePlace, DoneOK, OthersOK, MissedOK, Fields
  <2>9. CASE report.next = 3
    <3>1. f = "failedTotal" /\ Selected(f) = failed BY <2>9 DEF Statements, Selected
    <3> QED BY <2>1, <2>3, <2>4, <2>9, <2>6, <3>1 DEF ReportInv, QueueOK, InOnePlace, DoneOK, OthersOK, MissedOK, Fields
  <2>10. CASE report.next = 4
    <3>1. f = "remaining" /\ Selected(f) = waiting \cup current BY <2>10 DEF Statements, Selected
    <3> QED BY <2>1, <2>3, <2>4, <2>10, <2>6, <3>1 DEF ReportInv, QueueOK, InOnePlace, DoneOK, OthersOK, MissedOK, Fields
  <2>11. CASE report.next = 5
    <3>1. f = "avgDurationSec" /\ Selected(f) = recent BY <2>11 DEF Statements, Selected
    <3> QED BY <2>1, <2>3, <2>4, <2>11, <2>6, <3>1 DEF ReportInv, QueueOK, InOnePlace, DoneOK, OthersOK, MissedOK, Fields
  <2> QED BY <2>1, <2>7, <2>8, <2>9, <2>10, <2>11
<1>5. CASE QueueMoves
  <2>1. /\ QueueOK' /\ done \subseteq done'
        /\ waiting \cup current \cup failed \subseteq waiting' \cup current' \cup done' \cup failed'
        /\ recent' \subseteq recent \cup (done' \ done)
    BY <1>5, LifecycleStep DEF QueueMoves, QueueOK, ReportInv
  <2>2. /\ report'.next = report.next /\ report'.stats = report.stats
        /\ report'.wasDone = report.wasDone /\ report'.wasFailed = report.wasFailed
        /\ report'.wasOpen = report.wasOpen /\ report' \in Report
        /\ report.next > 0 => report'.requeued = report.requeued \cup (failed \ failed')
    BY <1>5 DEF QueueMoves, ReportInv, QueueOK, Report
  <2>3. DoneOK' BY <2>1, <2>2 DEF ReportInv, Report, DoneOK, QueueOK
  <2>4. OthersOK' BY <2>1, <2>2 DEF ReportInv, Report, OthersOK
  <2>5. MissedOK' BY <2>1, <2>2 DEF ReportInv, Report, MissedOK
  <2> QED BY <2>1, <2>2, <2>3, <2>4, <2>5 DEF ReportInv
<1>6. CASE \E j \in JobIds : HourPasses(j)
  BY <1>6 DEF HourPasses, vars, ReportInv, QueueOK, InOnePlace, Report, DoneOK, OthersOK, MissedOK
<1> QED BY <1>1, <1>2, <1>3, <1>4, <1>5, <1>6 DEF ReportStep

LEMMA BotStepIsReportStep == ASSUME [TgNext]_tgVars PROVE ReportStep
<1> USE DEF ReportStep
<1>1. CASE UNCHANGED tgVars BY <1>1 DEF tgVars, reportVars
<1>2. CASE Arrive \/ Boot \/ Stop \/ CronFires \/ CronEnds
  BY <1>2 DEF Arrive, Boot, Stop, CronFires, CronEnds, reportVars
<1>3. CASE Crash \/ StopDone BY <1>3 DEF Crash, StopDone, Gone
<1>4. CASE Poll \/ PollReply \/ BatchEnds \/ Wakes
  BY <1>4 DEF Poll, Asks, AskFrom, PollReply, BatchEnds, Wakes, reportVars
<1>5. CASE \E u \in Updates : Take(u) BY <1>5 DEF Take, TakeTo
<1>6. CASE ReadStats BY <1>6 DEF ReadStats
<1>7. CASE Send \/ Throws BY <1>7 DEF Send, Throws
<1>8. CASE Environment BY <1>8 DEF Environment
<1>9. CASE AnHourLater BY <1>9 DEF AnHourLater
<1> QED BY <1>1, <1>2, <1>3, <1>4, <1>5, <1>6, <1>7, <1>8, <1>9 DEF TgNext, LoopStep

THEOREM ReportInvariant == TgSpec => []ReportInv
<1>1. TgInit => ReportInv BY ReportStarts DEF TgInit
<1>2. ReportInv /\ [TgNext]_tgVars => ReportInv' BY ReportKept, BotStepIsReportStep
<1> QED BY <1>1, <1>2, PTL DEF TgSpec

\* CountsFit: the five counts of a report fit however the queue moves on between
\* its statements.
THEOREM ReportsFit == TgSpec => []CountsFit
<1>1. ReportInv => CountsFit
  BY DEF ReportInv, Report, DoneOK, OthersOK, MissedOK, CountsFit, Complete, CountedTwice, Missed
<1> QED BY <1>1, ReportInvariant, PTL

\* AverageIsOfALateFinish: the branch of formatEta for an hour without results is
\* taken only when a job finished while the report was made.
THEOREM AverageIsRare == TgSpec => []AverageIsOfALateFinish
<1>1. ReportInv => AverageIsOfALateFinish
  BY DEF ReportInv, Report, DoneOK, OthersOK, MissedOK, AverageIsOfALateFinish, Complete, Eta
<1> QED BY <1>1, ReportInvariant, PTL

-----------------------------------------------------------------------------
(* The polling loop                                                        *)

\* How far the loop and the process are fits.
ProcessOK ==
    /\ life = "down" <=> pc = "off"
    /\ life = "down" => offset = 0
    /\ batch # {} => pc \in {"batch"} \cup Handling
    /\ pc = "asked" => offset <= confirmed

\* What is left of a batch: nothing between the offset, or the first update not
\* confirmed, and the last of the batch is missing.
BatchOK ==
    \A u \in batch :
        /\ offset <= u /\ confirmed <= u /\ u <= arrived
        /\ \A v \in Updates : offset <= v /\ confirmed <= v /\ v <= u => v \in batch

\* The update at hand is of the kind its handling says.
HandlingOK ==
    /\ pc \in Handling => cur < offset /\ confirmed <= cur
    /\ pc = "answer" => FirstAwait(cur) = "answer"
    /\ pc \in {"stats", "channel", "ack"} => FirstAwait(cur) = "stats"
    /\ pc = "ack" => "report" \in heard[cur] /\ From[cur] # Channel

HeardOK == \A u \in Updates : heard[u] \subseteq Promised(u)

\* An update behind the offset is settled or being handled.
OffsetOK == \A u \in Updates : u < offset => Settled(u) \/ (u = cur /\ pc \in Handling)

\* A process has not taken what is not behind its offset.
TakenOK ==
    \A u \in Updates : /\ taken[u] <= boots
                       /\ life # "down" /\ offset <= u => taken[u] < boots

BotInv ==
    /\ TgTypeOK /\ ProcessOK /\ BatchOK /\ HandlingOK /\ HeardOK /\ OffsetOK
    /\ ConfirmedIsSettled /\ TakenOK

LEMMA BotStarts == ASSUME TgInit PROVE BotInv
BY TelegramAssumption
   DEF TgInit, BotInv, TgTypeOK, ProcessOK, BatchOK, HandlingOK, HeardOK, OffsetOK,
       ConfirmedIsSettled, TakenOK, Handling, Updates

\* A message the loop sends is one that is promised, and the last one settles the
\* update.
LEMMA SentIsPromised ==
    ASSUME BotInv, pc \in {"answer", "channel", "ack"}
    PROVE  /\ cur \in Updates /\ Message \in Promised(cur) /\ Message \in Messages
           /\ AfterSend = "batch" => heard[cur] \cup {Message} = Promised(cur)
           /\ AfterSend = "ack" => Message = "report" /\ pc = "channel" /\ From[cur] # Channel
           /\ AfterSend \in {"batch", "ack"}
<1> USE DEF BotInv, HandlingOK, FirstAwait, Promised, IsAdmin, Message, AfterSend, Handling
<1>1. cur \in Updates BY DEF TgTypeOK
<1>2. heard[cur] \subseteq Promised(cur) BY <1>1 DEF HeardOK
<1>3. CASE pc = "answer" BY <1>1, <1>2, <1>3 DEF Messages
<1>4. CASE pc = "channel" BY <1>1, <1>2, <1>4 DEF Messages
<1>5. CASE pc = "ack" BY <1>1, <1>2, <1>5 DEF Messages
<1> QED BY <1>3, <1>4, <1>5

\* More messages that are promised leave what is settled settled.
LEMMA DeliveryKeeps ==
    ASSUME BotInv, pc \in {"answer", "channel", "ack"},
           heard' = Delivered, thrown \subseteq thrown'
    PROVE  /\ heard' \in [Updates -> SUBSET Messages] /\ HeardOK'
           /\ \A u \in Updates : heard[u] \subseteq heard'[u] /\ (Settled(u) => Settled(u)')
           /\ heard'[cur] = heard[cur] \cup {Message}
<1>1. heard \in [Updates -> SUBSET Messages] BY DEF BotInv, TgTypeOK
<1>2. cur \in Updates /\ Message \in Promised(cur) /\ Message \in Messages BY SentIsPromised
<1>3. \A u \in Updates : heard'[u] = IF u = cur THEN heard[cur] \cup {Message} ELSE heard[u]
  BY <1>1, <1>2 DEF Delivered
<1>4. \A u \in Updates : heard[u] \subseteq Promised(u) BY DEF BotInv, HeardOK
<1>5. \A u \in Updates : Promised(u)' = Promised(u) BY DEF Promised, IsAdmin
<1>6. heard' \in [Updates -> SUBSET Messages] BY <1>1, <1>2 DEF Delivered
<1>7. HeardOK' BY <1>2, <1>3, <1>4, <1>5 DEF HeardOK
<1>8. \A u \in Updates : Settled(u) => Settled(u)' BY <1>2, <1>3, <1>4, <1>5 DEF Settled
<1> QED BY <1>2, <1>3, <1>6, <1>7, <1>8

\* Steps of the loop and of the process, each in front of the conjuncts it can
\* disturb.
LEMMA BootKeeps == ASSUME BotInv, Boot PROVE BotInv'
<1> USE DEF Boot, BotInv, loopVars, server, history
<1>1. TgTypeOK' BY DEF TgTypeOK, Handling
<1>2. ProcessOK' /\ BatchOK' /\ HandlingOK'
  BY DEF ProcessOK, BatchOK, HandlingOK, Handling, TgTypeOK
<1>3. HeardOK' /\ OffsetOK' /\ ConfirmedIsSettled'
  BY DEF HeardOK, OffsetOK, ConfirmedIsSettled, Settled, Promised, IsAdmin, ProcessOK, TgTypeOK,
         Updates, Handling
<1>4. TakenOK' BY DEF TakenOK, TgTypeOK
<1> QED BY <1>1, <1>2, <1>3, <1>4

LEMMA GoneKeeps ==
    ASSUME BotInv, Gone, UNCHANGED counters PROVE BotInv'
<1> USE DEF Gone, BotInv, server, history, counters
<1>1. TgTypeOK' BY TelegramAssumption DEF TgTypeOK, Handling
<1>2. ProcessOK' /\ BatchOK' /\ HandlingOK' BY DEF ProcessOK, BatchOK, HandlingOK, Handling
<1>3. HeardOK' /\ OffsetOK' /\ ConfirmedIsSettled'
  BY DEF HeardOK, OffsetOK, ConfirmedIsSettled, Settled, Promised, IsAdmin, Updates
<1>4. TakenOK' BY DEF TakenOK
<1> QED BY <1>1, <1>2, <1>3, <1>4

\* The poll confirms what is behind the offset: nothing is being handled then.
LEMMA PollKeeps == ASSUME BotInv, Poll PROVE BotInv'
<1> USE DEF Poll, Asks, AskFrom, BotInv, loopVars, history, counters
<1>1. TgTypeOK' BY TelegramAssumption DEF TgTypeOK, Handling
<1>2. ProcessOK' /\ BatchOK' /\ HandlingOK' 
  BY DEF ProcessOK, BatchOK, HandlingOK, Handling, TgTypeOK
<1>3. \A u \in Updates : Settled(u)' = Settled(u) BY DEF Settled, Promised, IsAdmin
<1>4. ConfirmedIsSettled' /\ OffsetOK'
  BY <1>3 DEF ConfirmedIsSettled, OffsetOK, Handling, TgTypeOK, Updates
<1>5. HeardOK' BY DEF HeardOK, Promised, IsAdmin
<1>6. TakenOK' BY DEF TakenOK
<1> QED BY <1>1, <1>2, <1>4, <1>5, <1>6

LEMMA ReplyKeeps == ASSUME BotInv, PollReply PROVE BotInv'
<1> USE DEF PollReply, BotInv, server, history, counters
<1>1. TgTypeOK' BY DEF TgTypeOK, Handling
<1>2. ProcessOK' /\ HandlingOK' BY DEF ProcessOK, HandlingOK, Handling
<1>3. BatchOK' BY DEF BatchOK, ProcessOK, TgTypeOK, Updates
<1>4. HeardOK' /\ OffsetOK' /\ ConfirmedIsSettled'
  BY DEF HeardOK, OffsetOK, ConfirmedIsSettled, Settled, Promised, IsAdmin, Handling
<1>5. TakenOK' BY DEF TakenOK
<1> QED BY <1>1, <1>2, <1>3, <1>4, <1>5

\* Steps that leave the batch, the offset and what is settled alone.
LEMMA QuietKeeps ==
    ASSUME BotInv,
           Arrive \/ Stop \/ BatchEnds \/ ReadStats \/ Wakes \/ CronFires \/ CronEnds
             \/ Environment \/ AnHourLater \/ UNCHANGED tgVars
    PROVE  BotInv'
<1>1. /\ UNCHANGED <<offset, batch, cur, confirmed, taken, heard, thrown, boots>>
      /\ arrived <= arrived' /\ arrived' \in 0 .. MaxUpdates
      /\ life' \in {"up", "down", "stopping"} /\ (life = "down" <=> life' = "down")
      /\ faults' \in Nat /\ hours' \in Nat /\ cron' \in {"off", "report"}
      /\ \/ pc' = pc
         \/ pc = "stats" /\ pc' \in {"stats", "channel"}
         \/ pc \in {"batch", "sleep"} /\ batch = {} /\ pc' = "loop"
  <2> USE DEF loopVars, server, history, counters, BotInv, TgTypeOK
  <2>1. CASE Arrive BY <2>1, TelegramAssumption DEF Arrive
  <2>2. CASE Stop BY <2>2 DEF Stop
  <2>3. CASE BatchEnds BY <2>3 DEF BatchEnds
  <2>4. CASE ReadStats BY <2>4 DEF ReadStats
  <2>5. CASE Wakes BY <2>5 DEF Wakes, ProcessOK, Handling
  <2>6. CASE CronFires BY <2>6 DEF CronFires
  <2>7. CASE CronEnds BY <2>7 DEF CronEnds
  <2>8. CASE Environment \/ AnHourLater BY <2>8 DEF Environment, AnHourLater
  <2>9. CASE UNCHANGED tgVars BY <2>9 DEF tgVars
  <2> QED BY <2>1, <2>2, <2>3, <2>4, <2>5, <2>6, <2>7, <2>8, <2>9
<1>2. TgTypeOK' BY <1>1 DEF BotInv, TgTypeOK, Handling
<1>3. ProcessOK' /\ HandlingOK'
  BY <1>1 DEF BotInv, ProcessOK, HandlingOK, Handling, FirstAwait, IsAdmin, TgTypeOK
<1>4. BatchOK' BY <1>1 DEF BotInv, BatchOK, TgTypeOK, Updates
<1>5. HeardOK' /\ OffsetOK' /\ ConfirmedIsSettled'
  BY <1>1 DEF BotInv, HeardOK, OffsetOK, ConfirmedIsSettled, Settled, Promised, IsAdmin, Handling
<1>6. TakenOK'
  <2>1. taken' = taken /\ boots' = boots /\ offset' = offset /\ (life' # "down" => life # "down")
    BY <1>1
  <2> QED BY <2>1 DEF BotInv, TakenOK
<1> QED BY <1>2, <1>3, <1>4, <1>5, <1>6 DEF BotInv

\* The offset moves past an update as its handling begins, and what asks for
\* nothing is settled by that.
LEMMA TakeKeeps == ASSUME BotInv, NEW u \in Updates, Take(u) PROVE BotInv'
<1> USE DEF Take, TakeTo, server, counters
<1>1. /\ u \in Nat /\ offset \in Nat /\ confirmed \in Nat /\ arrived \in Nat
      /\ MaxUpdates \in Nat /\ Updates \subseteq Nat /\ batch \subseteq Updates
      /\ offset' = u + 1 /\ offset <= u /\ confirmed <= u /\ u <= arrived
  BY TelegramAssumption DEF BotInv, TgTypeOK, Updates, BatchOK
<1>2. FirstAwait(u) \in {"answer", "stats", "batch"} BY DEF FirstAwait
<1>3. TgTypeOK' BY <1>1, <1>2 DEF BotInv, TgTypeOK, Handling, Updates
<1>4. ProcessOK' BY <1>1, <1>2 DEF BotInv, ProcessOK, Handling
<1>5. BatchOK' BY <1>1 DEF BotInv, BatchOK
<1>6. HandlingOK' BY <1>1, <1>2 DEF HandlingOK, Handling, FirstAwait, IsAdmin
<1>7. \A v \in Updates : Settled(v)' = Settled(v) BY DEF Settled, Promised, IsAdmin
<1>8. HeardOK' BY DEF BotInv, HeardOK, Promised, IsAdmin
<1>9. ConfirmedIsSettled' BY <1>7 DEF BotInv, ConfirmedIsSettled
<1>10. ASSUME NEW v \in Updates, v < u PROVE Settled(v)
  <2>1. CASE v < offset BY <2>1 DEF BotInv, OffsetOK, Handling
  <2>2. CASE v < confirmed BY <2>2 DEF BotInv, ConfirmedIsSettled
  <2>3. CASE offset <= v /\ confirmed <= v
    <3>1. v \in batch BY <1>1, <1>10, <2>3 DEF BotInv, BatchOK
    <3> QED BY <1>1, <1>10, <3>1
  <2> QED BY <1>1, <2>1, <2>2, <2>3
<1>11. Settled(u) \/ FirstAwait(u) \in Handling
  BY DEF BotInv, HeardOK, Settled, Promised, FirstAwait, IsAdmin, Handling
<1>12. OffsetOK' BY <1>1, <1>7, <1>10, <1>11 DEF OffsetOK
<1>13. TakenOK'
  <2>1. taken \in [Updates -> Nat] /\ boots \in Nat /\ life # "down"
    BY DEF BotInv, TgTypeOK, ProcessOK
  <2> QED BY <1>1, <2>1 DEF BotInv, TakenOK
<1> QED BY <1>3, <1>4, <1>5, <1>6, <1>8, <1>9, <1>12, <1>13 DEF BotInv

LEMMA SendKeeps == ASSUME BotInv, Send PROVE BotInv'
<1> USE DEF Send, loopVars, server, counters
<1>1. /\ pc \in {"answer", "channel", "ack"} /\ heard' = Delivered
      /\ thrown' = thrown /\ pc' = AfterSend
      /\ UNCHANGED <<life, offset, batch, cur, confirmed, arrived, taken, boots, faults, hours, cron>>
  OBVIOUS
<1>2. /\ cur \in Updates /\ pc' \in {"batch", "ack"}
      /\ pc' = "batch" => heard[cur] \cup {Message} = Promised(cur)
      /\ pc' = "ack" => Message = "report" /\ pc = "channel" /\ From[cur] # Channel
  BY <1>1, SentIsPromised
<1>3. /\ heard' \in [Updates -> SUBSET Messages] /\ HeardOK'
      /\ \A u \in Updates : heard[u] \subseteq heard'[u] /\ (Settled(u) => Settled(u)')
      /\ heard'[cur] = heard[cur] \cup {Message}
  BY <1>1, DeliveryKeeps
<1> HIDE DEF Send
<1>4. TgTypeOK' BY <1>1, <1>2, <1>3 DEF BotInv, TgTypeOK, Handling
<1>5. ProcessOK' /\ BatchOK'
  BY <1>1, <1>2 DEF BotInv, ProcessOK, BatchOK, Handling
<1>6. HandlingOK' BY <1>1, <1>2, <1>3 DEF BotInv, HandlingOK, Handling, FirstAwait, IsAdmin
<1>7. pc' = "batch" => Settled(cur)'
  BY <1>1, <1>2, <1>3 DEF Settled, Promised, IsAdmin
<1>8. OffsetOK' BY <1>1, <1>2, <1>3, <1>7 DEF BotInv, OffsetOK, Handling
<1>9. ConfirmedIsSettled' BY <1>1, <1>3 DEF BotInv, ConfirmedIsSettled
<1>10. TakenOK' BY <1>1 DEF BotInv, TakenOK
<1> QED BY <1>3, <1>4, <1>5, <1>6, <1>8, <1>9, <1>10 DEF BotInv

LEMMA ThrowsKeeps == ASSUME BotInv, Throws PROVE BotInv'
<1>1. /\ pc' = "sleep" /\ batch' = {}
      /\ thrown' = IF pc \in Handling THEN thrown \cup {cur} ELSE thrown
      /\ UNCHANGED <<arrived, confirmed, life, offset, cur, cron, taken, boots, hours>>
      /\ faults' = faults + 1
      /\ life # "down" /\ (pc \in Handling => cur \in Updates)
  BY DEF Throws, server, BotInv, ProcessOK, TgTypeOK
<1>2. /\ heard' \in [Updates -> SUBSET Messages] /\ HeardOK'
      /\ \A u \in Updates : Settled(u) => Settled(u)'
  <2>1. CASE heard' = heard
    BY <1>1, <2>1 DEF BotInv, TgTypeOK, HeardOK, Settled, Promised, IsAdmin
  <2>2. CASE heard' = Delivered /\ pc \in {"answer", "channel", "ack"}
    BY <1>1, <2>2, DeliveryKeeps
  <2> QED BY <2>1, <2>2 DEF Throws
<1>3. TgTypeOK' BY <1>1, <1>2 DEF BotInv, TgTypeOK, Handling
<1>4. ProcessOK' /\ BatchOK' /\ HandlingOK'
  BY <1>1 DEF BotInv, ProcessOK, BatchOK, HandlingOK, Handling
<1>5. pc \in Handling => Settled(cur)' BY <1>1 DEF Settled
<1>6. OffsetOK' BY <1>1, <1>2, <1>5 DEF BotInv, OffsetOK, Handling
<1>7. ConfirmedIsSettled' BY <1>1, <1>2 DEF BotInv, ConfirmedIsSettled
<1>8. TakenOK' BY <1>1 DEF BotInv, TakenOK
<1> QED BY <1>2, <1>3, <1>4, <1>6, <1>7, <1>8 DEF BotInv

THEOREM BotInvariant == TgSpec => []BotInv
<1>1. TgInit => BotInv BY BotStarts
<1>2. BotInv /\ [TgNext]_tgVars => BotInv'
  <2> SUFFICES ASSUME BotInv, [TgNext]_tgVars PROVE BotInv'
    OBVIOUS
  <2>1. CASE Boot BY <2>1, BootKeeps
  <2>2. CASE Crash \/ StopDone BY <2>2, GoneKeeps DEF Crash, StopDone, Gone
  <2>3. CASE Poll BY <2>3, PollKeeps
  <2>4. CASE PollReply BY <2>4, ReplyKeeps
  <2>5. CASE \E u \in Updates : Take(u) BY <2>5, TakeKeeps
  <2>6. CASE Send BY <2>6, SendKeeps
  <2>7. CASE Throws BY <2>7, ThrowsKeeps
  <2> QED BY <2>1, <2>2, <2>3, <2>4, <2>5, <2>6, <2>7, QuietKeeps DEF TgNext, LoopStep
<1> QED BY <1>1, <1>2, PTL DEF TgSpec

\* TgTypeOK: the bot's variables keep their types.
THEOREM BotTypes == TgSpec => []TgTypeOK
<1>1. BotInv => TgTypeOK BY DEF BotInv
<1> QED BY <1>1, BotInvariant, PTL

\* TakenOncePerLife: a process handles an update at most once.
THEOREM NothingTwice == TgSpec => []TakenOncePerLife
<1>1. BotInv => TakenOncePerLife BY DEF BotInv, TakenOK, TakenOncePerLife
<1> QED BY <1>1, BotInvariant, PTL

\* ConfirmedIsSettled: what Telegram will not give out again has been answered, or
\* an error has ended its handling.
THEOREM NothingLost == TgSpec => []ConfirmedIsSettled
<1>1. BotInv => ConfirmedIsSettled BY DEF BotInv
<1> QED BY <1>1, BotInvariant, PTL
=============================================================================
