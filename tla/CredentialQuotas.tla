-------------------------- MODULE CredentialQuotas --------------------------
(***************************************************************************)
(* What the quota reports of an upstream credential say: the quota it has  *)
(* now (LatestQuotaReports and observedAuthQuota) and the periods of each  *)
(* of its windows (QuotaWindowPeriods).                                    *)
(*                                                                         *)
(* A report is stored at the instant its request began, so what a request  *)
(* read late stands before what another read early.  Both functions read   *)
(* the reports in the order of those instants, and of their arrival where  *)
(* they are equal.                                                         *)
(*                                                                         *)
(* Instants are positive, 0 is none.  Usage is in percent.  The plans of a *)
(* period and the balance of a credential are left out: they are kept with *)
(* the reports as its plan is.                                             *)
(***************************************************************************)
EXTENDS Integers, FiniteSets, Sequences, SequencesExt

CONSTANTS
  Windows,   \* windows, by limit and length
  LimitOf,   \* the limit of each
  LengthOf,  \* the length of each
  Jitter,    \* quotaBoundaryJitter
  Horizon    \* quotaReorderHorizon

ASSUME CredentialQuotasAssumption ==
  /\ LengthOf \in [Windows -> Nat \ {0}]
  /\ DOMAIN LimitOf = Windows /\ "plan" \notin Windows
  /\ Jitter \in Nat /\ Horizon \in Nat

MinimumPrior == 5   \* quotaResetMinimumPriorPercent
NearZero == 1       \* quotaResetNearZeroPercent
LargeDrop == 20     \* quotaResetLargeDropPercent

Later(a, b) == IF a > b THEN a ELSE b
Earlier(a, b) == IF a < b THEN a ELSE b
Distance(a, b) == IF a > b THEN a - b ELSE b - a

----------------------------------------------------------------------------
(* Periods *)

NoPeriod == [start |-> 0, end |-> 0, resetAt |-> 0, reason |-> "", used |-> 0]
NoReset == [at |-> 0, resetAt |-> 0, prior |-> 0, moved |-> FALSE]

\* The periods that have ended, the one that runs, the report before, and the latest early
\* reset while its order is in doubt.
NoReports == [periods |-> <<>>, current |-> NoPeriod, last |-> [at |-> 0, used |-> 0, resetAt |-> 0], reset |-> NoReset]

Runs(history) == history.current # NoPeriod

\* A reset time that had passed says nothing about the window.
Scheduled(report) == report.resetAt > report.at

Begins(length, report) ==
  IF Scheduled(report) THEN Earlier(report.at, report.resetAt - length) ELSE report.at

\* end: a period never runs past its schedule, nor ends before its start
Ended(history, at, reason) ==
  LET current == history.current
      due == current.resetAt # 0 /\ at >= current.resetAt
      ended == [current EXCEPT !.end = Later(IF due THEN current.resetAt ELSE at, current.start),
                               !.reason = IF due THEN "scheduled" ELSE reason]
  IN  [history EXCEPT !.periods = Append(@, ended), !.current = NoPeriod, !.reset = NoReset]

CounterReset(previous, used) ==
  /\ previous >= MinimumPrior
  /\ used < previous
  /\ used <= NearZero \/ (previous - used >= LargeDrop /\ 2 * used <= previous)

\* mutant of ShowsOld: only a reset time tells that a report is late
ShowsOldByTime(history, report) ==
  LET reset == history.reset
  IN  /\ Runs(history) /\ reset.at # 0
      /\ report.at < reset.at + Horizon
      /\ reset.moved /\ Scheduled(report) /\ Distance(report.resetAt, reset.resetAt) <= Jitter

\* The report shows the window as it was before the reset: its request began first.
ShowsOld(history, report) ==
  LET reset == history.reset
  IN  /\ Runs(history) /\ reset.at # 0
      /\ report.at < reset.at + Horizon
      /\ IF reset.moved THEN Scheduled(report) /\ Distance(report.resetAt, reset.resetAt) <= Jitter
                        ELSE report.used >= reset.prior - NearZero

\* The period before the reset goes on.
Rejoined(history, report) ==
  IF ~ShowsOld(history, report) THEN history
  ELSE [history EXCEPT !.periods = Front(@), !.reset = NoReset,
          !.current = [Last(history.periods) EXCEPT !.end = 0, !.reason = "", !.used = Later(@, history.current.used)]]

Moved(current, report) ==
  Scheduled(report) /\ current.resetAt # 0 /\ Distance(report.resetAt, current.resetAt) > Jitter

ResetEarly(history, report) ==
  \/ CounterReset(history.last.used, report.used)
  \/ /\ Moved(history.current, report)
     /\ report.resetAt > history.current.resetAt
     /\ report.used < history.last.used /\ report.used <= NearZero

\* An early reset ends the period, at the latest when it was scheduled to end.
EndedEarly(length, history, report) ==
  LET moved == Moved(history.current, report)
      next == Ended(history, IF moved THEN Later(Begins(length, report), history.last.at) ELSE report.at, "early_reset")
  IN  IF Last(next.periods).reason # "early_reset" THEN next
      ELSE [next EXCEPT !.reset = [at |-> Last(next.periods).end, resetAt |-> history.current.resetAt,
                                   prior |-> history.last.used, moved |-> moved]]

\* A window nothing has used yet begins anew with each report.
Rescheduled(length, history, report) ==
  [history EXCEPT !.current.resetAt = report.resetAt,
                  !.current.start = IF history.current.used = 0 THEN Later(@, Begins(length, report)) ELSE @]

\* What the report says of the period that runs.
Judged(length, history, report) ==
  LET current == history.current
  IN  CASE Moved(current, report) /\ Begins(length, report) >= current.resetAt - Jitter ->
             Ended(history, current.resetAt, "scheduled")
        [] ~(Moved(current, report) /\ Begins(length, report) >= current.resetAt - Jitter)
           /\ ResetEarly(history, report) -> EndedEarly(length, history, report)
        [] OTHER -> IF Moved(current, report) \/ (current.resetAt = 0 /\ Scheduled(report))
                      THEN Rescheduled(length, history, report) ELSE history

\* mutant of Opened: a period starts where its schedule says
OpenedAnywhere(length, before, history, report) ==
  IF Runs(history) THEN history
  ELSE [history EXCEPT !.current = [NoPeriod EXCEPT !.start = Begins(length, report),
                                                   !.resetAt = IF Scheduled(report) THEN report.resetAt ELSE 0]]

\* A new period starts no earlier than the last one ended, and after an early reset
\* where it did.
Opened(length, before, history, report) ==
  IF Runs(history) THEN history
  ELSE LET early == Runs(before) /\ ~(Moved(before.current, report)
                                        /\ Begins(length, report) >= before.current.resetAt - Jitter)
           ended == IF history.periods = <<>> THEN 0 ELSE Last(history.periods).end
       IN  [history EXCEPT !.current =
              [NoPeriod EXCEPT !.start = IF early THEN ended ELSE Later(Begins(length, report), ended),
                               !.resetAt = IF Scheduled(report) THEN report.resetAt ELSE 0]]

\* One report more.
Absorbed(length, history, report) ==
  LET before == Rejoined(history, report)
      judged == IF Runs(before) THEN Judged(length, before, report) ELSE before
      opened == Opened(length, before, judged, report)
  IN  [opened EXCEPT !.current.used = Later(@, report.used), !.last = report]

\* What a report says of a window it lists.  Reports are [at, plan, windows], plan "" for none,
\* and of each window listed its use and reset time.
Reported(report, w) ==
  [at |-> report.at, used |-> report.windows[w].used, resetAt |-> report.windows[w].resetAt]

\* QuotaWindowHistories: of the reports, oldest first, those that list the window count.
History(w, reports) ==
  LET history[n \in 0 .. Len(reports)] ==
        IF n = 0 THEN NoReports
        ELSE IF w \in DOMAIN reports[n].windows
          THEN Absorbed(LengthOf[w], history[n - 1], Reported(reports[n], w))
        ELSE history[n - 1]
  IN  history[Len(reports)]

\* QuotaWindowPeriods
Periods(w, reports, now) ==
  LET history == History(w, reports)
      current == history.current
      over == Runs(history) /\ current.resetAt # 0 /\ now >= current.resetAt
  IN  IF over THEN Ended(history, current.resetAt, "scheduled").periods
      ELSE IF Runs(history) THEN Append(history.periods, current) ELSE history.periods

----------------------------------------------------------------------------
(* The quota now *)

LastOf(indices) == CHOOSE i \in indices : \A j \in indices : j <= i

\* What a report may be the newest of: each window it lists, and the plan
Items == Windows \cup {"plan"}

Tells(report, item) == IF item = "plan" THEN report.plan # "" ELSE item \in DOMAIN report.windows

Newest(reports, item) ==
  LET telling == {i \in DOMAIN reports : Tells(reports[i], item)}
  IN  {i \in telling : \A j \in telling : reports[j].at <= reports[i].at}

\* What report i is picked for.
Reduced(report, pick, i) ==
  LET kept == {w \in DOMAIN report.windows : pick[w] = i}
  IN  [at |-> report.at, plan |-> IF pick["plan"] = i THEN report.plan ELSE "",
       windows |-> [w \in kept |-> report.windows[w]]]

\* mutant of Latest: a report that is not the newest of its plan is left out
LatestOfPlan(reports, pick) ==
  LET latest[n \in 0 .. Len(reports)] ==
        IF n = 0 THEN <<>>
        ELSE LET report == Reduced(reports[n], pick, n)
             IN  IF report.plan # "" THEN Append(latest[n - 1], report) ELSE latest[n - 1]
  IN  latest[Len(reports)]

\* LatestQuotaReports: each report keeps only the windows, and the plan, it is the newest
\* report of, and one that keeps nothing is left out.  Of reports of the same instant the
\* database picks any.
Latest(reports, pick) ==
  LET latest[n \in 0 .. Len(reports)] ==
        IF n = 0 THEN <<>>
        ELSE LET report == Reduced(reports[n], pick, n)
             IN  IF report.plan # "" \/ DOMAIN report.windows # {} THEN Append(latest[n - 1], report)
                 ELSE latest[n - 1]
  IN  latest[Len(reports)]

Picks(reports) ==
  {pick \in [Items -> 0..Len(reports)] :
     \A item \in Items : LET newest == Newest(reports, item)
                         IN  IF newest = {} THEN pick[item] = 0 ELSE pick[item] \in newest}

NothingObserved == [fetchedAt |-> 0, plan |-> "", planAt |-> 0, rows |-> {}]

\* Each report updates just the windows it lists.
Updated(quota, report) ==
  [fetchedAt |-> report.at,
   plan |-> IF report.plan # "" THEN report.plan ELSE quota.plan,
   planAt |-> IF report.plan # "" THEN report.at ELSE quota.planAt,
   rows |-> {row \in quota.rows : row.window \notin DOMAIN report.windows}
              \cup {[window |-> w, at |-> report.at, used |-> report.windows[w].used,
                     resetAt |-> report.windows[w].resetAt] : w \in DOMAIN report.windows}]

\* A window drops out once its limit is reported, without it, after its reset time.
Dropped(rows, row) ==
  LET reported == LastOf({other.at : other \in {r \in rows : LimitOf[r.window] = LimitOf[row.window]}})
  IN  row.resetAt # 0 /\ reported > row.at /\ reported >= row.resetAt

\* observedAuthQuota
Observed(reports) ==
  LET quotas[n \in 0 .. Len(reports)] == IF n = 0 THEN NothingObserved ELSE Updated(quotas[n - 1], reports[n])
      quota == quotas[Len(reports)]
  IN  [quota EXCEPT !.rows = {row \in @ : ~Dropped(quota.rows, row)}]
=============================================================================
