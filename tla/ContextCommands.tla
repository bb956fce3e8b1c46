--------------------------- MODULE ContextCommands --------------------------
(* internal/cmd/context: contexts, their secrets and their restrictions.    *)
EXTENDS CommandHelpers

\* A context by its UUID, or by its name in the organization's list.
resolveContextID == Find(ListContexts)
resolveContextArg == Unless("context id", ResolveOrgSlug \o resolveContextID)

ContextCreate == RequireArgs \o LoadClient \o ResolveOrgSlug \o Call(CreateContext)
ContextDelete == RequireArgs \o LoadClient \o resolveContextArg \o Consent \o Call(DeleteContext)
ContextGet    == RequireArgs \o LoadClient \o resolveContextArg \o Call(GetContext)
ContextList   == LoadClient \o ResolveOrgSlug \o Call(ListContexts)
ContextOpen   == ResolveOrgSlug \o AppURL \o OpenURLOrPrint

SecretList   == RequireArgs \o LoadClient \o resolveContextArg \o Call(ListContextEnvVars)
SecretSet    == RequireArgs \o Require \o Ask("value") \o LoadClient \o resolveContextArg
                \o Call(SetContextEnvVar)
SecretDelete == RequireArgs \o Require \o LoadClient \o resolveContextArg \o Consent
                \o Call(DeleteContextEnvVar)

RestrictionCreate == RequireArgs \o Require \o LoadClient \o resolveContextArg
                     \o Call(CreateContextRestriction)
RestrictionDelete == RequireArgs \o Require \o Consent \o LoadClient \o resolveContextArg
                     \o Call(DeleteContextRestriction)
=============================================================================
