---------------------------- MODULE UsageReports ----------------------------
(***************************************************************************)
(* usage.handle: what a response tells of its tokens and of its            *)
(* credential's quota.                                                     *)
(*                                                                         *)
(* The upstream and the host are external.  A window of the upstream runs  *)
(* for its length from its first use, ends then, and may be reset early,   *)
(* for as long as it would have run or anew.  Requests overlap: each reads *)
(* the windows when it is answered, and is stored when it was begun.  The  *)
(* host flattens what was used into counts, with or without their total.   *)
(***************************************************************************)
EXTENDS Usage, CredentialQuotas

CONSTANTS
  Requests,    \* requests in flight
  Plans,       \* plans a response may name, "" for none
  Offered,     \* sets of windows a plan has
  Shares,      \* how much of a window a request uses, in percent
  Elsewhere,   \* how much is used elsewhere
  Truths,      \* parts a response may have used
  Garbled,     \* counts of any kind
  Prices,      \* prices: rates of short and of long input, and the threshold
  MaxReports, MaxTime, MaxResets   \* bounds of the model

\* The counts of a use and its reasoning once more fit an integer: an accounting that has
\* reasoning in the output is tried with it beside the output first.
ASSUME UsageReportsAssumption ==
  /\ \A p \in Truths :
       /\ p \in [Parts -> Nat]
       /\ p["uncached"] + p["cacheRead"] + p["cacheWrite"] + p["nonReasoning"] + 2 * p["reasoning"] <= MaxTokens
  /\ \A d \in Garbled :
       /\ d \in [input : Int, output : Int, reasoning : Int, cached : Int, cacheRead : Int, cacheWrite : Int, total : Int]
       /\ d.total <= MaxTokens
  /\ Shares \subseteq Nat /\ Elsewhere \subseteq Nat
  /\ \A price \in Prices : \A rates \in {price.short, price.long} :
       rates \in [input : Nat, cacheRead : Nat \cup {-1}, cacheWrite : Nat \cup {-1}, output : Nat]

VARIABLES
  clock,
  upstream,    \* of each window: its use, its reset time if it runs, its resets
  offered,     \* the windows the upstream has now
  begun,       \* of each request: when it began, 0 for none
  reports,     \* the stored quota reports, in their order
  answer,      \* what all responses of a behaviour report, and its price: see Answers
  event        \* the last request event

vars == <<clock, upstream, offered, begun, reports, answer, event>>

----------------------------------------------------------------------------
(* What the host reports of a use *)

\* Where input is independent, reasoning is part of the output or beside it.
Accountings == Semantics \cup {"beside"}

\* usageSemantics of a provider that accounts like this
SemanticsOf(accounting) == IF accounting = "beside" THEN "independent" ELSE accounting

\* The counts of parts p under each accounting, the total told or not: that reasoning is
\* beside independent output, it alone can tell.
Flattened(p, accounting, told) ==
  LET cache == p["cacheRead"] + p["cacheWrite"]
      whole == p["nonReasoning"] + p["reasoning"]
  IN  [input |-> IF accounting \in {"independent", "beside"} THEN p["uncached"] ELSE p["uncached"] + cache,
       output |-> IF accounting \in {"separate", "beside"} THEN p["nonReasoning"] ELSE whole,
       reasoning |-> p["reasoning"], cached |-> p["cacheRead"],
       cacheRead |-> p["cacheRead"], cacheWrite |-> p["cacheWrite"],
       total |-> IF told \/ accounting = "beside" THEN p["uncached"] + cache + whole ELSE 0]

\* What a response used and under which accounting, the one the plugin takes it for, and
\* the counts it sees; or counts that no accounting gives.
Answers ==
  {[parts |-> p, semantics |-> "unknown", detail |-> Flattened(p, a, told), price |-> price] :
     p \in Truths, a \in Accountings, told \in BOOLEAN, price \in Prices}
  \cup {[parts |-> p, semantics |-> SemanticsOf(a), detail |-> Flattened(p, a, told), price |-> price] :
     p \in Truths, a \in Accountings, told \in BOOLEAN, price \in Prices}
  \cup {[parts |-> NoParts, semantics |-> s, detail |-> d, price |-> price] :
     s \in Semantics \cup {"unknown"}, d \in Garbled, price \in Prices}

----------------------------------------------------------------------------
(* Upstream *)

Fresh == [used |-> 0, resetAt |-> 0, resets |-> 0]

\* What a response says at this instant: an unused window would run from now.
Shown(state, w) ==
  [used |-> state.used, resetAt |-> IF state.resetAt = 0 THEN clock + LengthOf[w] ELSE state.resetAt]

UpstreamUse(share) ==
  upstream' = [w \in Windows |->
                 IF share = 0 \/ w \notin offered THEN upstream[w]
                 ELSE [upstream[w] EXCEPT !.used = @ + share, !.resetAt = IF @ = 0 THEN clock + LengthOf[w] ELSE @]]

\* Uses outside this plugin: much, only while none of its requests is in flight, since the
\* plugin takes reports to be slightly out of order at most.
UseElsewhere ==
  /\ \A r \in Requests : begun[r] = 0
  /\ \E share \in Elsewhere : UpstreamUse(share)
  /\ \A w \in Windows : upstream'[w].used <= 100
  /\ UNCHANGED <<clock, offered, begun, reports, answer, event>>

UpstreamReset(w, anew) ==
  /\ upstream[w].used > 0
  /\ upstream[w].resets < MaxResets
  /\ upstream' = [upstream EXCEPT ![w] = [used |-> 0, resetAt |-> IF anew THEN 0 ELSE @.resetAt, resets |-> @.resets + 1]]
  /\ UNCHANGED <<clock, offered, begun, reports, answer, event>>

PlanChanges(windows) ==
  /\ offered' = windows
  /\ UNCHANGED <<clock, upstream, begun, reports, answer, event>>

\* A window whose time has come is unused.
Tick ==
  /\ clock < MaxTime
  /\ clock' = clock + 1
  /\ upstream' = [w \in Windows |->
                    IF upstream[w].resetAt = clock' THEN [Fresh EXCEPT !.resets = upstream[w].resets + 1] ELSE upstream[w]]
  /\ UNCHANGED <<offered, begun, reports, answer, event>>

----------------------------------------------------------------------------
(* Requests *)

Begin(r) ==
  /\ begun[r] = 0
  /\ begun' = [begun EXCEPT ![r] = clock]
  /\ UNCHANGED <<clock, upstream, offered, reports, answer, event>>

\* insertQuotaReport: in the order of the requests' instants, and of arrival
Inserted(report) ==
  InsertAt(reports, 1 + Cardinality({i \in DOMAIN reports : reports[i].at <= report.at}), report)

Event(a) ==
  LET b == UsageBreakdown(a.detail, a.semantics)
  IN  [breakdown |-> b, cost |-> ComputeCost(a.price, b), charged |-> ChargedTokens(b)]

NoEvent == [breakdown |-> Unreported, cost |-> 0, charged |-> 0]

\* handleUsage: the request has used its share when its answer tells the windows; what it
\* does not tell is not stored, as all of a credential that is no account's.
HandleUsage(r, share, plan, windows) ==
  /\ begun[r] # 0
  /\ Len(reports) < MaxReports
  /\ windows \subseteq offered
  /\ windows = {} => share = 0
  /\ UpstreamUse(share)
  /\ UNCHANGED <<clock, offered, answer>>
  /\ event' = Event(answer)
  /\ begun' = [begun EXCEPT ![r] = 0]
  /\ IF plan = "" /\ windows = {} THEN UNCHANGED reports
     ELSE reports' = Inserted([at |-> begun[r], plan |-> plan, windows |-> [w \in windows |-> Shown(upstream'[w], w)]])

----------------------------------------------------------------------------
(* Specification *)

Init ==
  /\ clock = 1
  /\ upstream = [w \in Windows |-> Fresh]
  /\ offered \in Offered
  /\ begun = [r \in Requests |-> 0]
  /\ reports = <<>>
  /\ answer \in Answers
  /\ event = NoEvent

Next ==
  \/ \E r \in Requests : Begin(r)
  \/ \E r \in Requests, share \in Shares, plan \in Plans, windows \in SUBSET Windows :
        HandleUsage(r, share, plan, windows)
  \/ UseElsewhere
  \/ \E w \in Windows, anew \in BOOLEAN : UpstreamReset(w, anew)
  \/ \E windows \in Offered : PlanChanges(windows)
  \/ Tick

Spec == Init /\ [][Next]_vars

----------------------------------------------------------------------------
(* Properties: tokens and cost *)

\* A price that charges every kind of token the same.
Uniform(rates) == \A kind \in DOMAIN rates : rates[kind] \in {rates.input, -1}

\* Whatever counts arrive, the parts recorded are counts, they and what is unclassified make
\* up the total, a total that was reported is the total recorded, and when all parts are
\* known each of these tokens is paid for once, at the rate for input of that length.
PaidInFull ==
  LET b == event.breakdown
      rates == IF InputTotal(b) > answer.price.threshold THEN answer.price.long ELSE answer.price.short
  IN  /\ b # Unreported => Valid(b) /\ b.total <= MaxTokens
      /\ event # NoEvent /\ answer.detail.total > 0 => b.total = answer.detail.total
      /\ Uniform(rates) => event.cost = IF Billable(b) THEN rates.input * b.total ELSE 0

\* A response is billed for the parts it used or not at all: an accounting the plugin
\* does not know is never taken for another.  Whether reasoning is in the output, or beside
\* it, the total tells where input is independent.
PartsRecovered ==
  event # NoEvent /\ answer.parts # NoParts
    => /\ Billable(event.breakdown) => event.breakdown.parts = answer.parts
       /\ answer.semantics # "unknown" => Billable(event.breakdown)

----------------------------------------------------------------------------
(* Properties: quotas *)

\* The quota shown is that of all reports, though only the newest of each window and
\* value are read; reports of the same instant may stand for each other.
LatestAgrees ==
  (\A i, j \in DOMAIN reports : reports[i].at = reports[j].at => i = j)
    => \A pick \in Picks(reports) : Observed(Latest(reports, pick)) = Observed(reports)

PeriodsOf(w) == Periods(w, reports, clock)

\* Periods of a window follow each other, and only the last one may still run.
PeriodsOrdered ==
  \A w \in Windows : LET periods == PeriodsOf(w) IN
    \A i \in DOMAIN periods :
      /\ periods[i].end = 0 => i = Len(periods)
      /\ periods[i].end # 0 => periods[i].start <= periods[i].end
      /\ i > 1 => periods[i - 1].end <= periods[i].start

\* Late reports do not invent periods: a window has ended no more often than the upstream
\* ended or reset it, in whatever order overlapping requests were answered.
NoneInvented ==
  \A w \in Windows :
    Cardinality({i \in DOMAIN PeriodsOf(w) : PeriodsOf(w)[i].end # 0 /\ PeriodsOf(w)[i].used > 0}) <= upstream[w].resets
=============================================================================
