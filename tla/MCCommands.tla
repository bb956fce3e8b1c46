----------------------------- MODULE MCCommands -----------------------------
(* Every command by its table, but those that the runs of MCHalfDone are    *)
(* about: they go on behind a prompt that was left, or change something     *)
(* before they check what may end them.                                     *)
EXTENDS CommandRun, ContextCommands, ProjectCommands, OrbCommands, PolicyCommands,
        WorkflowCommands, RunnerCommands, OrgCommands, RunCommands, JobCommands,
        ConfigCommands, SigningCommands, PipelineCommands, DeployCommands

Programs ==
    [contextCreate |-> ContextCreate, contextDelete |-> ContextDelete, contextGet |-> ContextGet,
     contextList |-> ContextList, contextOpen |-> ContextOpen,
     secretList |-> SecretList, secretSet |-> SecretSet, secretDelete |-> SecretDelete,
     restrictionCreate |-> RestrictionCreate, restrictionDelete |-> RestrictionDelete,
     projectFollow |-> ProjectFollow, projectGet |-> ProjectGet,
     projectList |-> ProjectList, projectOpen |-> ProjectOpen, projectLink |-> ProjectLink,
     envList |-> EnvList, envSet |-> EnvSet, envDelete |-> EnvDelete,
     settingsGet |-> SettingsGet, settingsSet |-> SettingsSet, settingsList |-> SettingsList,
     triggerList |-> TriggerList, triggerCreate |-> TriggerCreate, dlcPurge |-> DLCPurge,
     pipelineCreate |-> PipelineCreate, pipelineList |-> PipelineList,
     orgList |-> OrgList, orgSettingsGet |-> OrgSettingsGet, orgSettingsSet |-> OrgSettingsSet,
     orgSettingsList |-> OrgSettingsList, namespaceCreate |-> NamespaceCreate,
     namespaceDelete |-> NamespaceDelete, namespaceGet |-> NamespaceGet,
     namespaceRename |-> NamespaceRename,
     workflowCancel |-> WorkflowCancel, workflowGet |-> WorkflowGet, workflowList |-> WorkflowList,
     workflowOpen |-> WorkflowOpen, workflowRerun |-> WorkflowRerun,
     runCancel |-> RunCancel, runOpen |-> RunOpen, runTrigger |-> RunTrigger, runList |-> RunList,
     myRuns |-> MyRuns, runGet |-> RunGet,
     jobGet |-> JobGet, jobOpen |-> JobOpen, outputGet |-> OutputGet, outputList |-> OutputList,
     resourceUsageGet |-> ResourceUsageGet, jobArtifacts |-> JobArtifacts,
     testResultList |-> TestResultList, testResultGet |-> TestResultGet,
     configProcess |-> ConfigProcess, configValidate |-> ConfigValidate, configPack |-> ConfigPack,
     configGenerate |-> ConfigGenerate, apiCall |-> ApiCall, subst |-> Subst, stepHalt |-> StepHalt,
     orbCreate |-> OrbCreate, orbList |-> OrbList, listCategories |-> ListCategories,
     orbGet |-> OrbGet, orbSource |-> OrbSource, orbDiff |-> OrbDiff, orbPack |-> OrbPack,
     orbProcess |-> OrbProcess, orbValidate |-> OrbValidate, orbPublish |-> OrbPublish,
     publishPromote |-> PublishPromote, publishIncrement |-> PublishIncrement,
     orbUnlist |-> OrbUnlist, addToCategory |-> AddToCategory,
     removeFromCategory |-> RemoveFromCategory,
     policyDecide |-> PolicyDecide, policyDiff |-> PolicyDiff, policyEval |-> PolicyEval,
     policyFetch |-> PolicyFetch, policyLogs |-> PolicyLogs, policyPush |-> PolicyPush,
     policySettingsGet |-> PolicySettingsGet, policySettingsSet |-> PolicySettingsSet,
     policyTest |-> PolicyTest,
     certificateUpload |-> CertificateUpload, certificateList |-> CertificateList,
     certificateDelete |-> CertificateDelete, signingConfigCreate |-> SigningConfigCreate,
     signingConfigList |-> SigningConfigList, signingConfigDelete |-> SigningConfigDelete,
     profileAdd |-> ProfileAdd, profileRemove |-> ProfileRemove,
     instanceList |-> InstanceList, runnerOpen |-> RunnerOpen,
     resourceClassList |-> ResourceClassList, resourceClassCreate |-> ResourceClassCreate,
     resourceClassDelete |-> ResourceClassDelete, tokenList |-> TokenList,
     tokenCreate |-> TokenCreate, tokenDelete |-> TokenDelete,
     componentList |-> ComponentList, componentGet |-> ComponentGet,
     environmentList |-> EnvironmentList, environmentGet |-> EnvironmentGet,
     deployList |-> DeployList, deployOpen |-> DeployOpen, deploySettings |-> DeploySettings,
     listVersions |-> ListVersions, deployRollback |-> DeployRollback]

ASSUME OrderAssumption ==
    ConsentFirst /\ DueIsKnown /\ NoIsTheEnd /\ NamesFirst /\ ChecksFirst
=============================================================================
