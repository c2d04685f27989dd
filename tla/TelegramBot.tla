----------------------------- MODULE TelegramBot -----------------------------
(***************************************************************************)
(* TelegramBotService: a process that polls Telegram for updates, answers  *)
(* the commands in them and posts a report of the queue, on command and    *)
(* every hour.                                                             *)
(*                                                                         *)
(* pollLoop is sequential; pc is the await it is at.  The hourly report is *)
(* a second thread of control in the same process; the counts followed are *)
(* those of the loop's report, since the two share nothing.  Telegram is   *)
(* modelled from how it is used: getUpdates(offset) confirms the updates   *)
(* below offset for good and returns those not confirmed, in order.  A     *)
(* request may fail before or after it had its effect.  The process is     *)
(* configured (token and chat id are set).                                 *)
(***************************************************************************)
EXTENDS TelegramReport

CONSTANTS
    MaxUpdates,   \* bound: updates Telegram has for the bot; their ids are 1 .. MaxUpdates
    From,         \* String(message.chat.id) of an update
    Text,         \* parseCommand of its text: a command, or "none"
    Admins,       \* TELEGRAM_ADMIN_IDS
    Channel,      \* TELEGRAM_CHAT_ID
    MaxBoots,     \* bound: lives of the process
    MaxFaults,    \* bound: requests and statements that fail
    MaxHours      \* bound: hourly reports

Updates == 1 .. MaxUpdates

ASSUME TelegramAssumption ==
    /\ MaxUpdates \in Nat /\ MaxBoots \in Nat /\ MaxFaults \in Nat /\ MaxHours \in Nat
    /\ DOMAIN From = Updates /\ DOMAIN Text = Updates

VARIABLES
    arrived, confirmed,     \* Telegram: the last update so far, the first not confirmed
    life,                   \* "down", "up", or "stopping" (running is false)
    pc, offset, batch, cur, \* pollLoop: its await, this.offset, updates to come, update
    cron,                   \* is hourlyReport under way?
    taken, heard, thrown,   \* history: how often an update was taken, which messages
                            \* it led to, the updates whose handling threw
    boots, faults, hours    \* how much of each bound is used

loopVars == <<offset, batch, cur>>
server == <<arrived, confirmed>>
history == <<taken, heard, thrown>>
counters == <<boots, faults, hours>>
tgVars == <<vars, reportVars, server, life, pc, loopVars, cron, history, counters>>

Handling == {"answer", "stats", "channel", "ack"}
Messages == {"chatId", "pong", "report", "ack"}

TgTypeOK ==
    /\ arrived \in 0 .. MaxUpdates /\ confirmed \in 1 .. MaxUpdates + 1
    /\ life \in {"down", "up", "stopping"}
    /\ pc \in {"off", "loop", "asked", "batch", "sleep"} \cup Handling
    /\ offset \in 0 .. MaxUpdates + 1 /\ batch \subseteq Updates
    /\ cur \in 0 .. MaxUpdates
    /\ pc \in Handling => cur \in Updates
    /\ cron \in {"off", "report"}
    /\ taken \in [Updates -> Nat] /\ heard \in [Updates -> SUBSET Messages]
    /\ thrown \subseteq Updates
    /\ boots \in Nat /\ faults \in Nat /\ hours \in Nat

TgInit ==
    /\ ReportInit
    /\ arrived = 0 /\ confirmed = 1
    /\ life = "down" /\ pc = "off" /\ offset = 0 /\ batch = {} /\ cur = 0
    /\ cron = "off"
    /\ taken = [u \in Updates |-> 0] /\ heard = [u \in Updates |-> {}] /\ thrown = {}
    /\ boots = 0 /\ faults = 0 /\ hours = 0

-----------------------------------------------------------------------------
(* The process                                                             *)

\* Somebody writes to the bot.
Arrive ==
    /\ arrived < MaxUpdates
    /\ arrived' = arrived + 1
    /\ UNCHANGED <<vars, reportVars, confirmed, life, pc, loopVars, cron, history, counters>>

\* onModuleInit of a new process; this.offset starts at 0.
Boot ==
    /\ life = "down"
    /\ life' = "up" /\ pc' = "loop" /\ boots' = boots + 1
    /\ UNCHANGED <<vars, reportVars, server, loopVars, cron, history, faults, hours>>

\* The process is gone, with its offset, its batch and its reports.
Gone ==
    /\ life' = "down" /\ pc' = "off" /\ offset' = 0 /\ batch' = {} /\ cur' = 0
    /\ cron' = "off" /\ report' = NoReport
    /\ UNCHANGED <<vars, recent, server, history, counters>>

Crash == life # "down" /\ boots < MaxBoots /\ Gone

\* SIGTERM: onModuleDestroy sets running to false and waits for pollLoop ...
Stop ==
    /\ life = "up" /\ boots < MaxBoots
    /\ life' = "stopping"
    /\ UNCHANGED <<vars, reportVars, server, pc, loopVars, cron, history, counters>>

\* ... which looks at running between two polls only.
StopDone == life = "stopping" /\ pc = "loop" /\ Gone

-----------------------------------------------------------------------------
(* pollLoop                                                                *)

\* getUpdates is sent and reaches Telegram.
AskFrom(first) ==
    /\ pc = "loop"
    /\ confirmed' = IF first > confirmed THEN first ELSE confirmed
    /\ pc' = "asked"
    /\ UNCHANGED <<vars, reportVars, arrived, life, loopVars, cron, history, counters>>

\* FAULTY: the id behind the offset, which is one past the last update already.
AsksPastOffset == AskFrom(offset + 1)

\* Without the test of running (FAULTY: while (true)) it would be a step of its own.
Asks == AskFrom(offset)

Poll == life = "up" /\ Asks

\* Telegram replies, after 30 seconds with nothing.
PollReply ==
    /\ pc = "asked"
    /\ batch' = {u \in Updates : confirmed <= u /\ u <= arrived}
    /\ pc' = "batch"
    /\ UNCHANGED <<vars, reportVars, server, life, offset, cur, cron, history, counters>>

BatchEnds ==
    /\ pc = "batch" /\ batch = {}
    /\ pc' = "loop"
    /\ UNCHANGED <<vars, reportVars, server, life, loopVars, cron, history, counters>>

IsAdmin(u) == From[u] \in Admins

\* handleUpdate as far as its first await: /start is for everybody, the rest
\* for admins.
FirstAwait(u) ==
    CASE Text[u] = "/start" -> "answer"
      [] Text[u] = "/ping" /\ IsAdmin(u) -> "answer"
      [] Text[u] = "/sendreport" /\ IsAdmin(u) -> "stats"
      [] OTHER -> "batch"

\* The oldest update of the batch, and the offset it leaves.
TakeTo(u, next) ==
    /\ pc = "batch" /\ u \in batch /\ \A v \in batch : u <= v
    /\ offset' = next /\ batch' = batch \ {u} /\ cur' = u
    /\ pc' = FirstAwait(u)
    /\ report' = IF FirstAwait(u) = "stats" THEN Begun ELSE report
    /\ taken' = [taken EXCEPT ![u] = @ + 1]
    /\ UNCHANGED <<vars, recent, server, life, cron, heard, thrown, counters>>

\* FAULTY: the id of the update, not the next one.
TakeOffByOne(u) == TakeTo(u, u)

\* FAULTY: one too far.
TakeSkipsOne(u) == TakeTo(u, u + 2)

\* FAULTY: past the whole batch at once.
TakePassesBatch(u) ==
    \E last \in batch : (\A v \in batch : v <= last) /\ TakeTo(u, last + 1)

Take(u) == TakeTo(u, u + 1)

ReadStats ==
    /\ pc = "stats" /\ Read
    /\ pc' = IF report.next = 5 THEN "channel" ELSE "stats"
    /\ UNCHANGED <<vars, recent, server, life, loopVars, cron, history, counters>>

\* The message the loop is about to send, and where it goes on afterwards.
Message == CASE pc = "answer" -> IF Text[cur] = "/start" THEN "chatId" ELSE "pong"
             [] pc = "channel" -> "report"
             [] pc = "ack" -> "ack"
Delivered == [heard EXCEPT ![cur] = @ \cup {Message}]
AfterSend == IF pc = "channel" /\ From[cur] # Channel THEN "ack" ELSE "batch"

Send ==
    /\ pc \in {"answer", "channel", "ack"}
    /\ heard' = Delivered
    /\ pc' = AfterSend
    /\ report' = NoReport
    /\ UNCHANGED <<vars, recent, server, life, loopVars, cron, taken, thrown, counters>>

\* An error anywhere in the loop's body gives up the rest of the batch.  A poll
\* that fails before it reaches Telegram confirms nothing.
Throws ==
    /\ faults < MaxFaults /\ faults' = faults + 1
    /\ \/ pc = "loop" /\ life = "up" /\ UNCHANGED heard
       \/ pc \in {"asked", "stats"} /\ UNCHANGED heard
       \/ pc \in {"answer", "channel", "ack"} /\ heard' \in {heard, Delivered}
    /\ thrown' = IF pc \in Handling THEN thrown \cup {cur} ELSE thrown
    /\ pc' = "sleep" /\ batch' = {}
    /\ report' = NoReport
    /\ UNCHANGED <<vars, recent, server, life, offset, cur, cron, taken, boots, hours>>

Wakes ==
    /\ pc = "sleep"
    /\ pc' = "loop"
    /\ UNCHANGED <<vars, reportVars, server, life, loopVars, cron, history, counters>>

-----------------------------------------------------------------------------
(* hourlyReport                                                            *)

CronFires ==
    /\ life # "down" /\ cron = "off" /\ hours < MaxHours
    /\ cron' = "report" /\ hours' = hours + 1
    /\ UNCHANGED <<vars, reportVars, server, life, pc, loopVars, history, boots, faults>>

\* It is in the channel, or an error was logged.
CronEnds ==
    /\ cron = "report"
    /\ cron' = "off"
    /\ faults' \in {faults} \cup IF faults < MaxFaults THEN {faults + 1} ELSE {}
    /\ UNCHANGED <<vars, reportVars, server, life, pc, loopVars, history, boots, hours>>

-----------------------------------------------------------------------------
LoopStep ==
    \/ Poll \/ PollReply \/ BatchEnds \/ (\E u \in Updates : Take(u))
    \/ ReadStats \/ Send \/ Wakes

Environment ==
    /\ QueueMoves
    /\ UNCHANGED <<server, life, pc, loopVars, cron, history, counters>>

AnHourLater ==
    /\ \E j \in JobIds : HourPasses(j)
    /\ UNCHANGED <<server, life, pc, loopVars, cron, history, counters>>

TgNext ==
    \/ Arrive \/ Boot \/ Crash \/ Stop \/ StopDone
    \/ LoopStep \/ Throws
    \/ CronFires \/ CronEnds
    \/ Environment \/ AnHourLater

TgSpec == TgInit /\ [][TgNext]_tgVars

\* Fairness: the container restarts, a process that may exit does, and Telegram
\* and the database answer, since no request has a timeout of its own.
TgFairSpec == TgSpec /\ WF_tgVars(Boot) /\ WF_tgVars(StopDone) /\ WF_tgVars(LoopStep)

-----------------------------------------------------------------------------
(* Properties                                                              *)

\* README, CHANGELOG: /start is answered for everybody; /ping and /sendReport
\* for admins only, the latter in the channel and, from elsewhere, with a reply.
Promised(u) ==
    IF Text[u] = "/start" THEN {"chatId"}
    ELSE IF ~IsAdmin(u) THEN {}
    ELSE IF Text[u] = "/ping" THEN {"pong"}
    ELSE IF Text[u] # "/sendreport" THEN {}
    ELSE {"report"} \cup IF From[u] = Channel THEN {} ELSE {"ack"}

Settled(u) == u \in thrown \/ heard[u] = Promised(u)

\* A process handles an update at most once: errors, abandoned batches and polls
\* that confirm nothing never bring one back, only a new process may.
TakenOncePerLife == \A u \in Updates : taken[u] <= boots

\* Telegram never gives out a confirmed update again, so none is confirmed
\* before all it asks for was sent, or an error has ended its handling: a crash
\* or a failing poll loses no command.
ConfirmedIsSettled == \A u \in Updates : u < confirmed => Settled(u)

\* Every command is answered in the end, unless handling it met an error, even
\* one whose batch another command's error has ended.
EveryCommandSettles == \A u \in Updates : u <= arrived ~> Settled(u)

\* onModuleDestroy gets what it waits for.
ShutdownEnds == life = "stopping" ~> life = "down"
=============================================================================
