----------------------------- MODULE Revisions -----------------------------
(***************************************************************************)
(* The Alembic revisions from b92fe567be5b (retention rules, July 2022) to *)
(* the head, as data: what every upgrade() and downgrade() asks of the     *)
(* database, statement by statement. Module Migrations executes them.      *)
(*                                                                         *)
(* A schema object is <<t>> (a table), <<t, n>> (a column, constraint or   *)
(* index n of the table t), <<t, n, k>> (the CHECK constraint with the     *)
(* bare name n and k prefixes "ck_<t>_" before it) or <<"type", n>> (an    *)
(* enum type). Only the objects some statement names are kept.             *)
(***************************************************************************)
EXTENDS Integers, Sequences

(***************************************************************************)
(* Statements                                                              *)
(***************************************************************************)
\* One statement: the tables it locks until the end of the transaction, the
\* objects it expects and takes away, those it adds, what the rows must
\* satisfy (or which rows it rewrites), and the check or secret it is about.
Statement(op, locks, drops, adds, about) ==
  [op |-> op, locks |-> locks, drops |-> drops, adds |-> adds, about |-> about]

On(t, names) == {<<t, n>> : n \in names}

Create(locks, objs)          == Statement("ddl", locks, {}, objs, "nothing")
Drop(locks, objs)            == Statement("ddl", locks, objs, {}, "nothing")
Validated(locks, objs, rows) == Statement("ddl", locks, {}, objs, rows)
Swap(locks, old, new, rows)  == Statement("ddl", locks, old, new, rows)
\* Statements that only read or rewrite rows.
Rows(op, about)              == Statement(op, {}, {}, {}, about)

\* metadata_obj's naming convention puts one "ck_<table>_" before the name it
\* is given, both when a CHECK is created and when it is dropped by name.
Expanded(t, n, k) == <<t, n, k + 1>>
CreateCheck(t, n, k, rows) ==
  Statement("check", {t}, {}, {Expanded(t, n, k)}, rows)
DropCheck(t, n, k) == Drop({t}, {Expanded(t, n, k)})

Months    == "quota_period_months_positive"
Identity  == "idp_identity_complete"
Webhook   == "gitlab_webhook_secret_complete"

(***************************************************************************)
(* 377cfbfccf75 to 86435bb00714                                            *)
(***************************************************************************)
\* Mutated: the downgrade leaves the log entries of pending rules behind.
PendingStatus_KeepsLog ==
  [up   |-> << Create({"workspace_retention_rule"}, {<<"type", "pending">>}) >>,
   down |-> << Rows("activate_pending", "nothing"),
               Drop({"workspace_retention_rule"}, {<<"type", "pending">>}) >>]

PendingStatus ==
  [up   |-> << Create({"workspace_retention_rule"}, {<<"type", "pending">>}),
               Create({"workspace_retention_audit_log"}, {}) >>,
   down |-> << Rows("activate_pending", "nothing"),
               Validated({"workspace_retention_rule"}, {}, "no pending rule"),
               Rows("forget_pending", "nothing"),
               Swap({"workspace_retention_audit_log"}, {<<"type", "pending">>},
                    {}, "no pending log") >>]

MajorMinor == On("workflow", {"run_number_major", "run_number_minor"})
RunNumberConstraint == On("workflow", {"_user_workflow_run_uc"})

SplitRunNumber ==
  [up   |-> << Create({"workflow"}, MajorMinor),
               Rows("split_numbers", "nothing"),
               Drop({"workflow"}, RunNumberConstraint),
               Drop({"workflow"}, On("workflow", {"run_number"})),
               Validated({"workflow"}, RunNumberConstraint, "numbers unique"),
               Rows("renumber_restarts", "numbers unique") >>,
   down |-> << Drop({"workflow"}, RunNumberConstraint),
               Create({"workflow"}, On("workflow", {"run_number"})),
               Rows("refuse_if", "ten restarts"),
               Rows("combine_numbers", "nothing"),
               Drop({"workflow"}, MajorMinor),
               Validated({"workflow"}, RunNumberConstraint, "numbers unique") >>]

\* constraints: <<table, name so far, name by the convention>>.
constraints == {
  <<"workflow", "workflow_pkey", "pk_workflow">>,
  <<"workflow", "_user_workflow_run_uc", "uq_workflow_name">>,
  <<"workflow", "workflow_owner_id_fkey", "fk_workflow_owner_id_user_">>,
  <<"user_", "user__pkey", "pk_user_">>,
  <<"user_", "user__id__key", "uq_user__id_">>,
  <<"user_", "user__email_key", "uq_user__email">>,
  <<"user_token", "user_token_pkey", "pk_user_token">>,
  <<"user_token", "user_token_token_key", "uq_user_token_token">>,
  <<"user_token", "user_token_user_id_fkey", "fk_user_token_user_id_user_">>,
  <<"interactive_session", "interactive_session_pkey", "pk_interactive_session">>,
  <<"interactive_session", "_interactive_session_uc", "uq_interactive_session_name">>,
  <<"interactive_session", "interactive_session_owner_id_fkey", "fk_interactive_session_owner_id_user_">>,
  <<"job", "job_pkey", "pk_job">>,
  <<"job_cache", "job_cache_pkey", "pk_job_cache">>,
  <<"job_cache", "job_cache_job_id_fkey", "fk_job_cache_job_id_job">>,
  <<"audit_log", "audit_log_pkey", "pk_audit_log">>,
  <<"audit_log", "audit_log_user_id_fkey", "fk_audit_log_user_id_user_">>,
  <<"user_resource", "user_resource_pkey", "pk_user_resource">>,
  <<"user_resource", "user_resource_resource_id_fkey", "fk_user_resource_resource_id_resource">>,
  <<"user_resource", "user_resource_user_id_fkey", "fk_user_resource_user_id_user_">>,
  <<"resource", "resource_pkey", "pk_resource">>,
  <<"resource", "resource_name_key", "uq_resource_name">>,
  <<"workflow_session", "workflow_session_pkey", "pk_workflow_session">>,
  <<"workflow_session", "workflow_session_session_id_fkey", "fk_workflow_session_session_id_interactive_session">>,
  <<"workflow_session", "workflow_session_workflow_id_fkey", "fk_workflow_session_workflow_id_workflow">>,
  <<"workspace_retention_rule", "workspace_retention_rule_pkey", "pk_workspace_retention_rule">>,
  <<"workspace_retention_rule", "_workspace_retention_rule_uc", "uq_workspace_retention_rule_workflow_id">>,
  <<"workspace_retention_rule", "workspace_retention_rule_workflow_id_fkey", "fk_workspace_retention_rule_workflow_id_workflow">>,
  <<"workflow_resource", "workflow_resource_pkey", "pk_workflow_resource">>,
  <<"workflow_resource", "workflow_resource_resource_id_fkey", "fk_workflow_resource_resource_id_resource">>,
  <<"workflow_resource", "workflow_resource_workflow_id_fkey", "fk_workflow_resource_workflow_id_workflow">>,
  <<"interactive_session_resource", "interactive_session_resource_pkey", "pk_interactive_session_resource">>,
  <<"interactive_session_resource", "interactive_session_resource_resource_id_fkey", "fk_interactive_session_resource_resource_id_resource">>,
  <<"interactive_session_resource", "interactive_session_resource_session_id_fkey", "fk_interactive_session_resource_session_id_interactive_session">>,
  <<"workspace_retention_audit_log", "workspace_retention_audit_log_pkey", "pk_workspace_retention_audit_log">>,
  <<"workspace_retention_audit_log", "workspace_retention_audit_log_workspace_retention_rule_id_fkey", "fk_workspace_retention_audit_log_workspace_retention_ru_7253">>}

OldNames == {<<c[1], c[2]>> : c \in constraints}
NewNames == {<<c[1], c[3]>> : c \in constraints}
Renamed  == {c[1] : c \in constraints}

EnforceNamingConvention ==
  [up   |-> << Swap(Renamed, OldNames, NewNames, "nothing") >>,
   down |-> << Swap(Renamed, NewNames, OldNames, "nothing") >>]

\* Mutated: the constraint is dropped by the name it had before the convention.
ImproveIndexesUsage_FormerName ==
  [up   |-> << Swap({"workflow"}, RunNumberConstraint,
                    On("workflow", {"uq_workflow_owner_id"}), "numbers unique") >>,
   down |-> << Swap({"workflow"}, On("workflow", {"uq_workflow_owner_id"}),
                    RunNumberConstraint, "numbers unique") >>]

ImproveIndexesUsage ==
  LET former  == On("workflow", {"uq_workflow_name"})
      latter  == On("workflow", {"uq_workflow_owner_id"})
      ofJob   == On("job", {"ix___reana_job_workflow_uuid"})
      ofState == On("workflow", {"ix___reana_workflow_status"})
  IN [up   |-> << Swap({"workflow"}, former, latter, "numbers unique"),
                  Create({"job"}, ofJob), Create({"workflow"}, ofState) >>,
      down |-> << Drop({"workflow"}, ofState), Drop({"job"}, ofJob),
                  Swap({"workflow"}, latter, former, "numbers unique") >>]

\* Mutated: the references of the deleted jobs stay in the cache, whose key is
\* not enabled again.
JobForeignKey_NoCacheDelete ==
  LET cacheKey == On("job_cache", {"fk_job_cache_job_id_job"})
      key      == On("job", {"fk_job_workflow_uuid_workflow"})
  IN [up   |-> << Drop({"job_cache"}, cacheKey), Rows("delete_jobs", "nothing"),
                  Validated({"job"}, {}, "no null workflow"),
                  Validated({"job", "workflow"}, key, "workflows exist") >>,
      down |-> << Drop({"job", "workflow"}, key), Create({"job_cache"}, cacheKey) >>]

JobForeignKey ==
  LET cacheKey == On("job_cache", {"fk_job_cache_job_id_job"})
      key      == On("job", {"fk_job_workflow_uuid_workflow"})
  IN [up   |-> << Swap({"job_cache"}, cacheKey, cacheKey, "nothing"),
                  Rows("delete_jobs", "nothing"),
                  Rows("delete_cache", "nothing"),
                  Swap({"job_cache"}, cacheKey, cacheKey, "cached jobs exist"),
                  Validated({"job"}, {}, "no null workflow"),
                  Validated({"job", "workflow"}, key, "workflows exist") >>,
      down |-> << Drop({"job", "workflow"}, key), Create({"job"}, {}) >>]

(***************************************************************************)
(* 2e82f33ee37d to f7c88ca6b713                                            *)
(***************************************************************************)
WorkflowSharing ==
  LET added == {<<"user_workflow">>, <<"type", "accesstype">>}
      locks == {"user_workflow", "user_", "workflow"}
  IN [up |-> << Create(locks, added) >>, down |-> << Drop(locks, added) >>]

ServiceTables ==
  LET service == {<<"service">>, <<"type", "servicestatus">>,
                  <<"type", "servicetype">>}
      linked  == {<<"workflow_service">>}
  IN [up   |-> << Create({"service", "user_"}, service),
                  Create({"workflow_service", "service", "workflow"}, linked) >>,
      down |-> << Drop({"workflow_service", "service", "workflow"}, linked),
                  Drop({"service", "user_"}, service) >>]

ServiceLogs ==
  [up   |-> << Create({"service_logs", "service"}, {<<"service_logs">>}) >>,
   down |-> << Drop({"service_logs", "service"}, {<<"service_logs">>}) >>]

\* The name is passed with its prefix, which the convention adds once more.
QuotaPeriods ==
  LET months == On("user_resource", {"quota_period_months"})
      start  == On("user_resource", {"quota_period_start_at"})
  IN [up   |-> << Create({"user_resource"}, months),
                  CreateCheck("user_resource", Months, 1, "nothing"),
                  Create({"user_resource"}, start) >>,
      down |-> << Drop({"user_resource"}, start),
                  DropCheck("user_resource", Months, 1),
                  Drop({"user_resource"}, months) >>]

IdpIdentity ==
  LET added == On("user_", {"idp_issuer", "idp_subject", "uq_user__idp_identity"})
  IN [up   |-> << Create({"user_"}, added) >>,
      down |-> << Drop({"user_"}, added), Rows("erase_identities", "nothing") >>]

SessionAndWebhookSecrets ==
  LET session == On("interactive_session", {"session_secret"})
      webhook == On("user_", {"gitlab_webhook_secret",
                              "uq_user__gitlab_webhook_secret"})
  IN [up   |-> << Create({"interactive_session"}, session),
                  Create({"user_"}, webhook) >>,
      down |-> << Drop({"user_"}, webhook), Rows("erase_secrets", "user_"),
                  Drop({"interactive_session"}, session),
                  Rows("erase_secrets", "interactive_session") >>]

\* Mutated: the count alone is trusted, the check is NOT VALID.
RequireCompleteIdentity_NotValid ==
  [up   |-> << Rows("refuse_if", "partial identity"),
               CreateCheck("user_", Identity, 0, "nothing") >>,
   down |-> << Statement("drop_or_refuse", {"user_"}, {<<"user_", Identity, 1>>},
                         {}, "nothing") >>]

RequireCompleteIdentity ==
  [up   |-> << Rows("refuse_if", "partial identity"),
               CreateCheck("user_", Identity, 0, "identities complete") >>,
   down |-> << Statement("drop_or_refuse", {"user_"}, {<<"user_", Identity, 1>>},
                         {}, "nothing") >>]

ExpireWebhookSecrets ==
  LET added == On("user_", {"gitlab_webhook_secret_expires_at"})
  IN [up |-> << Create({"user_"}, added) >>, down |-> << Drop({"user_"}, added) >>]

UserResourceIndex ==
  LET added == On("user_resource", {"ix___reana_user_resource_resource_id"})
  IN [up   |-> << Create({"user_resource"}, added) >>,
      down |-> << Drop({"user_resource"}, added) >>]

(***************************************************************************)
(* 8ae7b67c2d41 to 8f24fcf45930                                            *)
(***************************************************************************)
WebhookDigest == On("user_", {"gitlab_webhook_secret_digest"})
UniqueCiphertext == On("user_", {"uq_user__gitlab_webhook_secret"})
UniqueDigest == On("user_", {"uq_user__gitlab_webhook_secret_digest"})

\* Mutated: the secrets are selected before the column is added.
HardenWebhookSecrets_SelectFirst ==
  << Rows("fetch", "user_"), Create({"user_"}, WebhookDigest),
     Rows("convert_to_gcm", "user_"),
     Swap({"user_"}, UniqueCiphertext, UniqueDigest, "digests unique"),
     CreateCheck("user_", Webhook, 0, "digests complete") >>

HardenWebhookSecrets ==
  << Create({"user_"}, WebhookDigest),
     Rows("fetch", "user_"), Rows("convert_to_gcm", "user_"),
     Swap({"user_"}, UniqueCiphertext, UniqueDigest, "digests unique"),
     CreateCheck("user_", Webhook, 0, "digests complete") >>

RestoreWebhookSecrets ==
  << Rows("fetch", "user_"), Rows("convert_to_cbc", "user_"),
     DropCheck("user_", Webhook, 0),
     Swap({"user_"}, UniqueDigest, UniqueCiphertext, "ciphertexts unique"),
     Drop({"user_"}, WebhookDigest), Rows("erase_digests", "nothing") >>

WebhookSecretStorage ==
  [up |-> HardenWebhookSecrets, down |-> RestoreWebhookSecrets]

RepairChecks ==
  [up   |-> << Statement("repair", {"user_resource"}, {},
                         {<<"user_resource", Months, 1>>}, "nothing"),
               Statement("repair", {"user_"}, {}, {<<"user_", Identity, 1>>},
                         "identities complete") >>,
   down |-> << >>]

\* Mutated: the downgrade leaves the session secrets under AES-GCM.
ConvertSessionSecrets_OneWay ==
  [up   |-> << Rows("fetch", "interactive_session"),
               Rows("convert_to_gcm", "interactive_session") >>,
   down |-> << >>]

ConvertSessionSecrets ==
  [up   |-> << Rows("fetch", "interactive_session"),
               Rows("convert_to_gcm", "interactive_session") >>,
   down |-> << Rows("fetch", "interactive_session"),
               Rows("convert_to_cbc", "interactive_session") >>]

TokenTypes == {<<"type", "usertokenstatus">>, <<"type", "usertokentype">>}

DropUserToken ==
  [up   |-> << Drop({"user_token", "user_"},
                    {<<"user_token">>} \cup TokenTypes) >>,
   down |-> << Rows("refuse_if", "irreversible") >>]

ComputeBackends ==
  LET added == On("workflow", {"compute_backends"})
  IN [up   |-> << Create({"workflow"}, added) >>,
      down |-> << Drop({"workflow"}, added) >>]

\* The chain of down_revision links; a database stamped b92fe567be5b has run
\* none of it.
Chain == << PendingStatus, SplitRunNumber, EnforceNamingConvention,
            ImproveIndexesUsage, JobForeignKey, WorkflowSharing, ServiceTables,
            ServiceLogs, QuotaPeriods, IdpIdentity, SessionAndWebhookSecrets,
            RequireCompleteIdentity, ExpireWebhookSecrets, UserResourceIndex,
            WebhookSecretStorage, RepairChecks, ConvertSessionSecrets,
            DropUserToken, ComputeBackends >>

\* The positions in the chain from which servers store a table's secrets with
\* AES-GCM, split run numbers, log pending rules and refer to a job's workflow.
GcmFrom == [user_ |-> 15, interactive_session |-> 17]
SplitAt    == 2
PendingAt  == 1
JobKeyAt   == 5
RepairedAt == 16

\* The objects of a database stamped b92fe567be5b that the chain refers to.
FirstCatalog ==
  OldNames \cup {<<"user_token">>} \cup TokenTypes
    \cup On("workflow", {"run_number"})
=============================================================================
