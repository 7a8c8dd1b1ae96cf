----------------------------- MODULE Migrations -----------------------------
(***************************************************************************)
(* Databases of schema 10 to 25 and the steps that bring an old one up to  *)
(* date.                                                                   *)
(*                                                                         *)
(* A database is its version, its columns and tables (those that some step *)
(* adds or drops), its indexes, and what the steps convert: a plan, one    *)
(* key with its cycle and its bindings, the routes, one event with the     *)
(* stored credential it was sent with, and the configured credentials.     *)
(* Rows are converted each by itself, so one of each kind is enough.       *)
(* Of other damage to its rows a database tells who refuses it: steps, or  *)
(* "load".  Groups refuse IDs that trimming makes one and names and models *)
(* a route may not have, bindings what a key may not be bound to, prices   *)
(* models that differ in case only, credentials what is no text, and       *)
(* currencies windows that are no JSON.                                    *)
(* A length of time is in days.                                            *)
(***************************************************************************)
EXTENDS Integers, FiniteSets, Sequences

CONSTANTS
  Nil,
  Routes,     \* IDs of routes and of the model groups they were made from
  SystemAll,  \* the ID "system:all"
  MaxPeriod   \* maxPeriodSeconds

\* Kinds of periods, until version 11.
PeriodKinds == {"daily", "weekly", "monthly", "custom", "never"}

ASSUME MigrationsAssumption ==
  /\ SystemAll \in Routes /\ Nil \notin Routes \cup PeriodKinds
  /\ MaxPeriod \in Nat /\ MaxPeriod >= 365

SchemaVersion == 25

NoCycle == [plan |-> Nil, start |-> 0, end |-> 0, spent |-> 0]

NoBindings == [routes |-> {}, models |-> {}, credentials |-> {}, providers |-> {}]

----------------------------------------------------------------------------
(* Columns and tables that the steps add and drop *)

ModelGroupsStep ==
  [adds |-> {"routes", "api_keys.route_bindings_json"},
   drops |-> {"key_model_groups", "key_allowed_models", "model_group_models", "model_groups"}]

LegacyRouteBindingsStep == [adds |-> {}, drops |-> {}]

SubscriptionPeriodsStep == [adds |-> {}, drops |-> {"plans.period_kind"}]

ModelPricingStep ==
  [adds |-> {"prices.model_id", "reference_prices_metadata", "reference_prices"}, drops |-> {"prices.pattern"}]

QuotaWindowsStep ==
  [adds |-> {"plans.windows_json", "api_keys.cycles_json"},
   drops |-> {"plans.amount_usd", "plans.period_seconds", "api_keys.cycle_plan_id", "api_keys.cycle_start_at",
              "api_keys.cycle_end_at", "api_keys.cycle_spent_usd"}]

CredentialsStep == [adds |-> {"request_events.account", "config_credentials"}, drops |-> {"credentials"}]

ResponseHeadersStep == [adds |-> {"request_events.response_headers_json"}, drops |-> {}]

RequestErrorReasonStep == [adds |-> {}, drops |-> {"request_errors.reason"}]

UpstreamResponseReportsStep ==
  [adds |-> {"request_events.response_service_tier", "request_events.response_model"}, drops |-> {}]

RequestInfoStep ==
  [adds |-> {"request_events.endpoint", "request_events.transport", "request_events.stream"}, drops |-> {}]

ExecutionMetadataStep == [adds |-> {"request_events.execution_json"}, drops |-> {}]

QuotaReportsStep ==
  [adds |-> {"quota_reports", "quota_report_windows"}, drops |-> {"request_events.response_headers_json"}]

ClientHeadersStep == [adds |-> {"request_events.user_agent", "request_events.x_forwarded_for"}, drops |-> {}]

ConfiguredProvidersStep ==
  [adds |-> {"config_credentials.auth_index", "config_credentials.type", "config_credentials.name",
             "config_credentials.base_url", "config_credentials.priority", "config_credentials.weight",
             "config_credentials.balance_json"},
   drops |-> {}]

CredentialNotesStep == [adds |-> {"config_credentials.config_ref", "config_credentials.note"}, drops |-> {}]

CurrenciesStep ==
  [adds |-> {"prices.currency", "plans.currency", "request_events.currency",
             "request_events.total_cost", "request_events.uncached_input_cost", "request_events.cache_read_cost",
             "request_events.cache_write_cost", "request_events.output_cost"},
   drops |-> {"request_events.total_usd", "request_events.uncached_input_usd", "request_events.cache_read_usd",
              "request_events.cache_write_usd", "request_events.output_usd"}]

SharedQuotasStep == [adds |-> {"plans.shared_quota", "plans.cycles_json"}, drops |-> {}]

Change ==
  [modelGroups |-> ModelGroupsStep, legacyRouteBindings |-> LegacyRouteBindingsStep,
   subscriptionPeriods |-> SubscriptionPeriodsStep, modelPricing |-> ModelPricingStep,
   quotaWindows |-> QuotaWindowsStep, credentials |-> CredentialsStep,
   responseHeaders |-> ResponseHeadersStep, requestErrorReason |-> RequestErrorReasonStep,
   upstreamResponseReports |-> UpstreamResponseReportsStep, requestInfo |-> RequestInfoStep,
   executionMetadata |-> ExecutionMetadataStep, quotaReports |-> QuotaReportsStep,
   clientHeaders |-> ClientHeadersStep, configuredProviders |-> ConfiguredProvidersStep,
   credentialNotes |-> CredentialNotesStep, currencies |-> CurrenciesStep, sharedQuotas |-> SharedQuotasStep]

\* The columns and tables of a new database, of those above.
SchemaColumns ==
  {"routes", "api_keys.route_bindings_json", "api_keys.cycles_json",
   "plans.windows_json", "plans.shared_quota", "plans.cycles_json", "plans.currency",
   "prices.model_id", "prices.currency", "reference_prices_metadata", "reference_prices",
   "config_credentials", "config_credentials.auth_index", "config_credentials.type", "config_credentials.name",
   "config_credentials.base_url", "config_credentials.priority", "config_credentials.weight",
   "config_credentials.balance_json", "config_credentials.config_ref", "config_credentials.note",
   "request_events.account", "request_events.response_service_tier", "request_events.response_model",
   "request_events.total_cost", "request_events.uncached_input_cost", "request_events.cache_read_cost",
   "request_events.cache_write_cost", "request_events.output_cost",
   "request_events.endpoint", "request_events.transport", "request_events.stream",
   "request_events.execution_json", "request_events.user_agent", "request_events.x_forwarded_for",
   "request_events.currency", "quota_reports", "quota_report_windows"}

----------------------------------------------------------------------------
(* What a step refuses, and what it converts *)

Bound(db) == db.key.plan # Nil

\* QuotaCycles.Validate for the only window of the plan
ValidCycle(db) ==
  LET c == db.key.cycle
  IN  c # NoCycle =>
        /\ Bound(db) /\ c.plan = db.key.plan /\ c.start > 0 /\ c.end = c.start + db.plan.period

ValidPlan(plan) == plan.id # Nil => plan.limit = "amount" /\ plan.period \in 1 .. MaxPeriod

\* A key of a plan that does not exist is refused.
ValidKey(db) == db.key.plan \in {Nil, db.plan.id} /\ ValidCycle(db)

\* A binding to a group without models is dropped.
ModelGroups(db) ==
  [db EXCEPT !.key.bindings.routes = {g \in @ : g \in DOMAIN db.routes /\ db.routes[g] # {}}]

LegacyKinds == {"route", "model", "credential", "credential_provider"}

\* Version 11 kept a list of bindings of a kind; a category without its provider has no value.
ReadableBindings(db) == \A b \in db.key.list : b.kind \in LegacyKinds /\ b.value # Nil

LegacyRouteBindings(db) ==
  LET values(kind) == {b.value : b \in {c \in db.key.list : c.kind = kind}}
  IN  [db EXCEPT !.key.list = {},
                 !.key.bindings = [routes |-> values("route"), models |-> values("model"),
                                   credentials |-> values("credential"), providers |-> values("credential_provider")],
                 !.routes = [r \in DOMAIN @ \ {SystemAll} |-> @[r]]]

ReadablePeriod(plan) ==
  plan.id # Nil =>
    /\ plan.kind \in PeriodKinds
    /\ plan.kind = "custom" => plan.period \in 1 .. MaxPeriod

SubscriptionPeriods(db) ==
  [db EXCEPT !.plan.kind = Nil,
             !.plan.period = CASE db.plan.kind = "daily" -> 1
                               [] db.plan.kind = "weekly" -> 7
                               [] db.plan.kind = "monthly" -> 30
                               [] db.plan.kind = "custom" -> @
                               [] OTHER -> 0]

\* The limit becomes a window; a plan that never renewed renews after a year.
QuotaWindows(db) ==
  LET never == db.plan.period = 0 /\ db.key.plan = db.plan.id
      c == db.key.cycle
      plan == [db.plan EXCEPT !.limit = "amount", !.period = IF @ = 0 THEN 365 ELSE @]
  IN  [db EXCEPT !.plan = plan,
                 !.key.cycle.end = IF never /\ c.start # 0 /\ c.end = 0 THEN c.start + 365 ELSE c.end]

ReadableWindows(db) ==
  LET converted == QuotaWindows(db)
  IN  ValidPlan(converted.plan) /\ ValidKey(converted)

\* mutant of Credentials: the provider of the credential replaces that of the event
CredentialsStored(db) ==
  [db EXCEPT !.event = IF db.stored = Nil THEN @
                       ELSE [@ EXCEPT !.account = db.stored.account, !.provider = db.stored.provider],
             !.stored = Nil]

\* An event takes the account of its credential, and its provider if it has none.
Credentials(db) ==
  LET event == IF db.stored = Nil THEN db.event
               ELSE [db.event EXCEPT !.account = db.stored.account,
                                     !.provider = IF @ = Nil THEN db.stored.provider ELSE @]
  IN  [db EXCEPT !.event = event, !.stored = Nil]

\* Headers that report nothing leave no report.
QuotaReports(db) == [db EXCEPT !.event.report = db.event.headers = "quota", !.event.headers = "none"]

CredentialNotes(db) == [db EXCEPT !.noted = db.configured]

\* Windows made from schema 12 in the same run name their amount already.
Currencies(db) == [db EXCEPT !.plan.limit = IF @ = "amount_usd" THEN "amount" ELSE @]

Readable(step, db) ==
  /\ step \notin db.damaged
  /\ CASE step = "legacyRouteBindings" -> ReadableBindings(db)
       [] step = "subscriptionPeriods" -> ReadablePeriod(db.plan)
       [] step = "quotaWindows" -> ReadableWindows(db)
       [] step = "credentials" -> "credentials.unknown_field" \notin db.columns
       [] step = "quotaReports" -> db.event.headers # "damaged"
       [] OTHER -> TRUE

Converted(step, db) ==
  CASE step = "modelGroups" -> ModelGroups(db)
    [] step = "legacyRouteBindings" -> LegacyRouteBindings(db)
    [] step = "subscriptionPeriods" -> SubscriptionPeriods(db)
    [] step = "quotaWindows" -> QuotaWindows(db)
    [] step = "credentials" -> Credentials(db)
    [] step = "quotaReports" -> QuotaReports(db)
    [] step = "credentialNotes" -> CredentialNotes(db)
    [] step = "currencies" -> Currencies(db)
    [] OTHER -> db

\* SQLite refuses to add what is there and to drop what is not.
Applies(step, db) ==
  /\ Change[step].adds \cap db.columns = {} /\ Change[step].drops \subseteq db.columns
  /\ Readable(step, db)

Applied(step, db) ==
  [Converted(step, db) EXCEPT !.columns = (@ \ Change[step].drops) \cup Change[step].adds]

----------------------------------------------------------------------------
(* migrateSchema *)

\* mutant of StepsFrom: the windows are converted before the periods are
StepsFromSwapped(version) ==
  LET since(last, steps) == IF version <= last THEN steps ELSE <<>>
  IN  (IF version = 10 THEN <<"modelGroups">> ELSE since(11, <<"legacyRouteBindings">>))
        \o since(12, <<"modelPricing", "quotaWindows">>)
        \o since(11, <<"subscriptionPeriods">>)
        \o since(13, <<"credentials">>) \o since(14, <<"responseHeaders">>)
        \o since(15, <<"requestErrorReason">>) \o since(16, <<"upstreamResponseReports">>)
        \o since(17, <<"requestInfo">>) \o since(18, <<"executionMetadata">>)
        \o since(19, <<"quotaReports">>) \o since(20, <<"clientHeaders">>)
        \o since(21, <<"configuredProviders">>) \o since(22, <<"credentialNotes">>)
        \o since(23, <<"currencies">>) \o <<"sharedQuotas">>

StepsFrom(version) ==
  LET since(last, steps) == IF version <= last THEN steps ELSE <<>>
  IN  (IF version = 10 THEN <<"modelGroups">> ELSE since(11, <<"legacyRouteBindings">>))
        \o since(11, <<"subscriptionPeriods">>)
        \o since(12, <<"modelPricing", "quotaWindows">>)
        \o since(13, <<"credentials">>) \o since(14, <<"responseHeaders">>)
        \o since(15, <<"requestErrorReason">>) \o since(16, <<"upstreamResponseReports">>)
        \o since(17, <<"requestInfo">>) \o since(18, <<"executionMetadata">>)
        \o since(19, <<"quotaReports">>) \o since(20, <<"clientHeaders">>)
        \o since(21, <<"configuredProviders">>) \o since(22, <<"credentialNotes">>)
        \o since(23, <<"currencies">>) \o <<"sharedQuotas">>

Migratable == 10 .. SchemaVersion - 1

\* syncTableIndexes drops and creates indexes named after a table of this module, no others.
SyncedIndexes(found) == {i \in found : i.name = Nil} \cup {[name |-> "request_events_at", current |-> TRUE]}

\* A table may have taken the name of an index.
IndexNamesFree(db) == "request_events_at" \notin db.columns

\* What Load accepts.
Loads(db) ==
  /\ "load" \notin db.damaged
  /\ ValidPlan(db.plan) /\ ValidKey(db)
  /\ db.key.bindings.routes \subseteq DOMAIN db.routes
=============================================================================
