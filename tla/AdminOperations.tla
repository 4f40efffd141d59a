-------------------------- MODULE AdminOperations --------------------------
(***************************************************************************)
(* The methods of the SDK that make one request: which route each takes    *)
(* and what it asks of that route.  A method's kind is                     *)
(*   changes  does the service change when the request takes effect?       *)
(*   key      the idempotency key, in a header or in the body: "required"  *)
(*            methods refuse to run without one, "optional" ones send it   *)
(*            when the caller gives one, "unread" ones do too but their    *)
(*            route does not read it, "none" have no place for one         *)
(*   decode   what it demands of the answer (AdminTransport!Taken)         *)
(*   checked  does it refuse some arguments before any request?            *)
(* The methods that run several requests are modelled elsewhere:           *)
(* ProvisionRealm in RealmProvision, AppendBatch in WorkflowBatch and      *)
(* SetupProducer in AdminCall.                                             *)
(***************************************************************************)
EXTENDS AdminTransport

Read    == [changes |-> FALSE, key |-> "none", decode |-> "loose", checked |-> FALSE]
Write   == [Read EXCEPT !.changes = TRUE]
Command == [Write EXCEPT !.decode = "ignored"]
Keyed   == [Write EXCEPT !.key = "required"]
MayKey  == [Write EXCEPT !.key = "optional"]

Checked(kind)     == [kind EXCEPT !.checked = TRUE]
Decoded(kind, as) == [kind EXCEPT !.decode = as]

Methods(route, kind, names) == {[name |-> n, route |-> route, kind |-> kind] : n \in names}

----------------------------------------------------------------------------
(***************************************************************************)
(* Tenants, OAuth clients, sites and schemas.                              *)
(***************************************************************************)
Tenants ==
    Methods(Admin, Read, {"List", "DataSpaceEntitlement", "Get"})
    \union Methods(Admin, Write, {"Create", "UpdateDataSpaceEntitlement"})
    \union Methods(Admin, Checked(Command), {"Finalize"})
    \union Methods(Admin, Command, {"Delete"})

OAuthClients ==
    Methods(Admin, Keyed, {"Create", "RotateSecret"})
    \union Methods(Admin, Read, {"List", "Get"})
    \union Methods(Admin, Command, {"Delete"})
    \union Methods(Admin, Write, {"UpdateScopes"})

Sites ==
    Methods(Admin, Write, {"Create", "Update", "RotateWriteKey"})
    \union Methods(Admin, Read, {"List", "Get"})
    \union Methods(Admin, Command, {"Delete"})

Schemas ==
    Methods(Admin, Write, {"Register", "CreateVersion"})
    \union Methods(Admin, Read, {"List", "Get", "Validate", "DryRun"})
    \union Methods(Admin, Checked(Read), {"Audit"})
    \union Methods(Admin, Command, {"EnableVersion"})

TenantManifest ==
    Methods(AdminMeta, Keyed, {"Apply"}) \union Methods(AdminMeta, Read, {"Readiness"})

Admissions ==
    Methods(Admin, Read, {"List"}) \union Methods(Admin, Write, {"Review", "Approve", "Revoke"})

----------------------------------------------------------------------------
(***************************************************************************)
(* Data custody: storage, exports, erasure, privacy, retention, alerts,    *)
(* audit and offboarding.                                                  *)
(***************************************************************************)
TenantStorage ==
    Methods(NonAdmin, Read, {"List", "Get"})
    \union Methods(NonAdmin, Write, {"Create"})
    \union Methods(NonAdmin, Command, {"Revoke"})

SubjectExports ==
    Methods(Admin, MayKey, {"Create"})
    \union Methods(Admin, Write, {"Force"})
    \union Methods(Admin, Read, {"List", "Get", "Download"})
    \union Methods(Admin, Command, {"Cancel"})

PrivacyErasures ==
    Methods(Admin, Write, {"Create", "Force"}) \union Methods(Admin, Read, {"List", "Get"})

Privacy ==
    Methods(Admin, Read, {"GetRules", "ListIdentifierMappings"})
    \union Methods(Admin, Write, {"SetRules", "MapIdentifier"})

Retention ==
    Methods(Admin, Read, {"List", "Get", "Preview", "ListRuns"})
    \union Methods(Admin, Write, {"Upsert", "Apply"})
    \union Methods(Admin, Command, {"Delete"})

StorageAlerts ==
    Methods(Admin, Read, {"ListRules"})
    \union Methods(Admin, Write, {"CreateRule"})
    \union Methods(Admin, Command, {"DeleteRule"})

Audit ==
    Methods(Admin, Decoded(Read, "typed"), {"ListEvents"})
    \union Methods(Admin, Decoded(Read, "strict"), {"GetEvent"})
    \union Methods(Bytes, Checked(Decoded(Read, "bytes")), {"ExportEvents"})
    \union Methods(Admin, Read, {"ListReportingPackEvents"})

OffboardingSchedules ==
    Methods(Admin, Write, {"Schedule", "CancelSchedule", "CancelRequest", "ConfirmRequest"})
    \union Methods(Admin, Read, {"ListSchedules", "GetSchedule", "GetRequest"})
    \union Methods(Admin, MayKey, {"RequestOffboarding"})

OffboardingPackages ==
    Methods(Admin, Read, {"Preview"}) \union Methods(Admin, Write, {"Export"})

OffboardingRequests ==
    Methods(Admin, Read, {"Receipt"})
    \union Methods(Admin, Write, {"Acknowledge", "Execute", "Retry"})

OffboardingDownload == Methods(Verified, Decoded(Read, "bytes"), {"Download"})

----------------------------------------------------------------------------
(***************************************************************************)
(* Auth projects.                                                          *)
(***************************************************************************)
AuthProjectRecords ==
    Methods(Admin, Read, {"ListProjects", "ListPrincipalSessions"})
    \union Methods(Admin, Keyed, {"CreateProject"})
    \union Methods(Admin, MayKey, {"BindProjectCompany", "CreateEnvironment"})

AuthProjectSessions ==
    Methods(Admin, Keyed, {"RevokePrincipalSession", "RevokePrincipalSessions",
                           "ApplyEnvironmentDesiredState"})
    \union Methods(Admin, MayKey, {"RevokePrincipalMembership"})
    \union Methods(Admin, Read, {"PreviewEnvironmentDesiredState", "GetEnvironmentStatus"})

PrincipalExport    == Methods(Admin, Read, {"ExportPrincipal"})
PrincipalLifecycle == Methods(Admin, Keyed, {"ErasePrincipal", "SuspendPrincipal", "RestorePrincipal"})
PrincipalList      == Methods(Admin, Read, {"ListPrincipals"})

PrincipalAudiences ==
    Methods(Admin, Read, {"ListPrincipalAudiences"})
    \union Methods(Admin, Keyed, {"GrantPrincipalAudience", "RevokePrincipalAudience"})

AuthProjectBranding ==
    Methods(AdminForm, Checked(MayKey), {"SetAuthProjectBrandLogo"})
    \union Methods(AdminForm, Decoded(MayKey, "ignored"), {"ClearAuthProjectBrandLogo"})

AuthProjectConfig ==
    Methods(Admin, Read, {"GetEnvironmentCapability", "ListDirectories", "ListEnvironmentOrganisations"})
    \union Methods(Admin, Checked(Keyed), {"ActOnDirectory"})
    \union Methods(Admin, Keyed, {"ReconcileEnvironmentClients"})

AuthProjectInvitations ==
    Methods(AdminMeta, Checked(Keyed), {"InvitationByID"})
    \union Methods(Admin, Read, {"ListInvitations"})
    \union Methods(Admin, Keyed, {"IssueInvitation", "RevokeInvitation", "RedeliverInvitation"})

AuthProjectPrincipals ==
    Methods(Admin, Read, {"GetPrincipalProfile", "ListPrincipalMemberships"})
    \union Methods(Admin, Keyed, {"SetPrincipalProfile"})

AuthProjectDeletion ==
    Methods(Admin, MayKey, {"DeleteProject", "DeleteEnvironment"})

\* The header is sent if the caller gave a key, but the route has none: the
\* withdrawal is a marker, and a retry resumes what follows it.
AuthProjectOffboarding ==
    Methods(Admin, [Write EXCEPT !.key = "unread"], {"OffboardEnvironment"})

----------------------------------------------------------------------------
(***************************************************************************)
(* Operations that answer with the request identifier.                     *)
(***************************************************************************)
EnvironmentPolicy ==
    Methods(AdminMeta, Read, {"Get"}) \union Methods(AdminMeta, Write, {"Update"})

Impersonation ==
    Methods(AdminMeta, Read, {"List"}) \union Methods(AdminMeta, Write, {"Start", "Stop", "Terminate"})

NotificationWebhooks ==
    Methods(AdminMeta, Write, {"Create", "SetEnabled", "RotateSecret"})
    \union Methods(AdminMeta, Read, {"List", "GetDelivery"})
    \union Methods(AdminMeta, Command, {"Delete", "Replay"})

SupportAccess ==
    Methods(AdminMeta, Write, {"Create", "Revoke"}) \union Methods(AdminMeta, Read, {"List"})

System ==
    Methods(AdminMeta, Read, {"Status", "ListScheduledTasks", "GetScheduledTask"})
    \union Methods(AdminMeta, Write, {"RunScheduledTask"})
    \union Methods(AdminMeta, Command, {"PauseScheduledTask", "ResumeScheduledTask",
                                        "RetryScheduledTaskRun"})

AdminUsers ==
    Methods(Admin, Read, {"List"})
    \union Methods(AdminMeta, Read, {"Get"})
    \union Methods(AdminMeta, Write, {"Create", "Update"})
    \union Methods(AdminMeta, Command, {"Disable", "Enable"})

AdminUserAccess ==
    Methods(AdminMeta, Checked(Write), {"Remove"})
    \union Methods(AdminMeta, Write, {"AddMembership", "ResetPassword"})
    \union Methods(AdminMeta, Command, {"RetryWelcome"})
    \union Methods(AdminMeta, Read, {"ListRoles"})

----------------------------------------------------------------------------
(***************************************************************************)
(* Data scopes, labels and usage.                                          *)
(***************************************************************************)
DataLabels ==
    Methods(Admin, Read, {"List", "Catalogue", "Get", "ListUsage", "ListAssignments"})
    \union Methods(Admin, Write, {"Create", "Update", "CreateValue", "UpdateValue"})
    \union Methods(Admin, Command, {"Disable", "DisableValue", "SetEventTypeDefault",
                      "RemoveEventTypeDefault", "SetSchemaFieldAssignment",
                      "RemoveSchemaFieldAssignment"})

DataScopes ==
    Methods(Admin, Checked(Write), {"CreateScope", "UpdateScope", "CreateResource", "UpdateResource"})
    \union Methods(Admin, Read, {"ListScopes", "GetScope", "ListResources", "GetResource"})
    \union Methods(Admin, Command, {"DisableScope", "DisableResource"})

DataScopeGrants ==
    Methods(Admin, Checked(Read), {"ListGrants"})
    \union Methods(Admin, Checked(Write), {"CreateGrant"})
    \union Methods(Admin, Checked(Command), {"RevokeGrant"})

Usage ==
    Methods(Admin, Checked(Decoded(Read, "strict")), {"Get", "ListCurrentUsage", "ListUsage"})
    \union Methods(Admin, Decoded(Read, "strict"), {"GetRetainedUsage"})
    \union Methods(UsageStream, Checked(Decoded(Read, "bytes")), {"ExportUsage"})

----------------------------------------------------------------------------
(***************************************************************************)
(* Provisioning, measurement, prediction, reporting, parsers, analytics.   *)
(***************************************************************************)
DataSpaceProvisioning ==
    Methods(Provisioning, Write, {"Create"})
    \union Methods(Provisioning, Read, {"List"})
    \union Methods(Provisioning, Command, {"Revoke"})

ProducerProvisioning ==
    Methods(Provisioning, Write, {"Provision", "RotateSecret", "UpdateEnvironment", "Reserve", "Claim"})
    \union Methods(Provisioning, Read, {"List", "ListReservations"})
    \union Methods(Provisioning, Command, {"Revoke", "Release"})

MeasurementProjectAdmin ==
    Methods(Admin, Write, {"Create", "CreateCalibrationExercise", "CreateDecisionModel"})
    \union Methods(Admin, Read, {"List", "Get", "GetImportRun"})
    \union Methods(Admin, Decoded(MayKey, "strict"), {"SubmitObservation", "SubmitObservations"})
    \union Methods(Admin, Decoded(Write, "strict"), {"ImportCSVString"})

MeasurementProject ==
    Methods(Measurement, Write, {"RunForecast", "RunDecisionSimulation"})
    \union Methods(Measurement, Read, {"GetForecastRun", "GetDecisionSimulationRun"})

PredictionDefinitions ==
    Methods(Admin, Read, {"ListDefinitions", "GetDefinition", "GetVersion"})
    \union Methods(Admin, Write, {"CreateDefinition", "UpdateDefinition", "PublishVersion",
                                  "ActivateVersion", "RollbackVersion"})
    \union Methods(Admin, Command, {"PauseDefinition", "ResumeDefinition", "ArchiveDefinition", "RunNow"})

PredictionReads ==
    Methods(Admin, Read, {"ListRuns", "ListOutcomes", "GetEvaluation", "ListThresholdEvents",
                          "ListSignalSources", "GetSignalSource"})
    \union Methods(Admin, Write, {"CreateSignalSource"})
    \union Methods(Admin, Command, {"ActivateSignalSource", "ArchiveSignalSource"})

PredictionHistory == Methods(AdminMeta, Checked(Read), {"EvaluateDurationHistory"})

ReportingQueries ==
    Methods(Reporting, Read, {"Dashboard", "Outputs"})
    \union Methods(Reporting, Decoded(Read, "typed"), {"Query"})
    \union Methods(Reporting, Checked(Decoded(Read, "typed")), {"SubjectInsight"})
    \union Methods(Reporting, Checked(Read), {"Receipt", "Output", "QueryOutput"})

ReportingExports ==
    Methods(Reporting, Checked(MayKey), {"CreateExport"})
    \union Methods(Reporting, Checked(Write), {"CancelExport"})
    \union Methods(Reporting, Checked(Read), {"ListExports", "GetExport"})
    \union Methods(ReportBytes, Checked(Decoded(Read, "bytes")), {"DownloadExport", "DownloadExportArtifact"})

ReportingPackDrafts ==
    Methods(Admin, Read, {"ListDrafts", "GetDraft", "Validate", "Preview"})
    \union Methods(Admin, Write, {"CreateDraft", "UpdateDraft", "Publish", "Restart"})

ReportingPackGenerations ==
    Methods(Admin, Read, {"GetGeneration", "GetGenerationStatus", "GetRollupProvenance",
                          "ListSetupTemplates", "ListGenerationValidity"})
    \union Methods(Admin, Write, {"RollbackGeneration", "BindSetupTemplate"})

Parsers ==
    Methods(Parser, Read, {"ListPresets", "List"})
    \union Methods(Parser, Checked(Write), {"Create", "Update"})
    \union Methods(Parser, Checked(Read), {"Preview"})
    \union Methods(Parser, Write, {"Delete"})

AnalyticsEvents ==
    Methods(Analytics, Checked(Read), {"Query"})
    \union Methods(Analytics, Checked(Decoded(Read, "strict")), {"QueryRange"})

EventCounts == Methods(NonAdmin, Checked(Read), {"CountEvents"})

PreparedData ==
    Methods(AdminMeta, Read, {"GetClientBootstrap"})
    \union Methods(AdminMeta, Write, {"SubmitClientBootstrap"})
    \union Methods(OutsideAdmin, Read, {"GetPreparedDataReceipt", "ListPreparedDataOutputs",
                                        "GetPreparedDataOutput", "QueryPreparedDataOutput"})

Diagnostics == Methods(OutsideAdmin, Checked(Read), {"GetHealth", "GetAccount"})

ApplicationAuthority == Methods(Authority, Checked(Decoded(Read, "strict")), {"CheckApplicationAuthority"})

----------------------------------------------------------------------------
(***************************************************************************)
(* Time plans and workflow timings.                                        *)
(***************************************************************************)
TimePlans ==
    Methods(Admin, Read, {"List", "Get", "GetRun", "History", "ListAnnotations"})
    \union Methods(Admin, Checked(Read), {"Preview"})
    \union Methods(Admin, Checked(Write), {"Create", "Revise", "CreateRun",
                                           "CreateAnnotation", "CorrectAnnotation"})
    \union Methods(Admin, Checked(Keyed), {"Execute"})
    \union Methods(Admin, Write, {"Publish", "Retire"})
    \union Methods(Admin, Checked(Command), {"RedactAnnotation"})

TimePlanOperations ==
    Methods(AdminMeta, Read, {"GetTimePlanOperationalStatus"})
    \union Methods(Admin, Read, {"ListTimePlanDurationObservations"})
    \union Methods(AdminMeta, Write, {"RepairTimePlanRun", "ReplayTimePlanOutbox"})
    \union Methods(Admin, Write, {"DeleteTimePlanRunProjection"})

TimePlanReporting ==
    Methods(Admin, Read, {"GetPublishedTimePlanVersion", "GetCompletedDurationReport"})
    \union Methods(NonAdmin, MayKey, {"CreateCompletedRunExport"})

TimePlanMath == Methods(Admin, Read, {"GetTimePlanDefinitionMathProof"})

WorkflowTimings ==
    Methods(Admin, Write, {"Reconcile"})
    \union Methods(Admin, MayKey, {"Append"})
    \union Methods(Admin, Read, {"ListDefinitions", "GetDefinition"})

WorkflowRuns ==
    Methods(Admin, Checked(MayKey), {"Correct"})
    \union Methods(Admin, Read, {"ListRuns", "GetRun", "Prediction", "DurationHistory", "Evaluation"})
    \union Methods(Admin, Write, {"Rebuild"})

RawIngest == Methods(RawUpload, Checked(Decoded(MayKey, "strict")), {"IngestRawLines"})

----------------------------------------------------------------------------
Operations ==
    UNION {Tenants, OAuthClients, Sites, Schemas, TenantManifest, Admissions,
           TenantStorage, SubjectExports, PrivacyErasures, Privacy, Retention, StorageAlerts,
           Audit, OffboardingSchedules, OffboardingPackages, OffboardingDownload, OffboardingRequests,
           AuthProjectRecords, AuthProjectSessions, PrincipalExport, PrincipalLifecycle,
           PrincipalList, PrincipalAudiences, AuthProjectBranding, AuthProjectConfig,
           AuthProjectInvitations, AuthProjectPrincipals, AuthProjectDeletion,
           AuthProjectOffboarding, EnvironmentPolicy, Impersonation, NotificationWebhooks,
           SupportAccess, System, AdminUsers, AdminUserAccess, DataLabels, DataScopes, DataScopeGrants, Usage,
           DataSpaceProvisioning, ProducerProvisioning, MeasurementProjectAdmin,
           MeasurementProject, PredictionDefinitions, PredictionReads, PredictionHistory,
           ReportingQueries, ReportingExports, ReportingPackDrafts, ReportingPackGenerations,
           Parsers, AnalyticsEvents, EventCounts, PreparedData, Diagnostics,
           ApplicationAuthority, TimePlans, TimePlanOperations, TimePlanReporting,
           TimePlanMath, WorkflowTimings, WorkflowRuns, RawIngest}

\* Methods of one route and kind behave alike: their names do not matter.
Kinds == {[route |-> o.route, kind |-> o.kind] : o \in Operations}
=============================================================================
