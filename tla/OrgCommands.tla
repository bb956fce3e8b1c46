----------------------------- MODULE OrgCommands -----------------------------
(* internal/cmd/org and internal/cmd/namespace: organizations and their     *)
(* settings, and the namespaces they own.                                   *)
EXTENDS CommandHelpers

OrgList         == LoadClient \o Call(ListCollaborations)
runOrgSettingGet == Call(GetOrgSettings)
OrgSettingsGet  == Require \o LoadClient \o ResolveOrgSlugOrID \o runOrgSettingGet
runOrgSettingSet == Call(UpdateOrgSettings)
OrgSettingsSet  == Require \o Require \o LoadClient \o ResolveOrgSlugOrID \o runOrgSettingSet
OrgSettingsList == LoadClient \o ResolveOrgSlugOrID \o Call(GetOrgSettings)

NamespaceCreate == RequireArgs \o LoadClient \o ResolveOrgSlugOrID \o Call(CreateNamespace)
NamespaceDelete == RequireArgs \o LoadClient \o When("dry run", Stop("ok"))
                   \o Coded("badArguments", Consent) \o DeleteNamespace
NamespaceGet    == RequireArgs \o LoadClient \o Call(GetNamespace)
NamespaceRename == RequireArgs \o LoadClient \o RenameNamespace
=============================================================================
