---------------------------- MODULE ConfigCommands ---------------------------
(* internal/cmd/config, internal/cmd/api and the small commands that change *)
(* nothing but a file: what a config compiles to, and any request at all.   *)
EXTENDS CommandHelpers

readConfigInput == Require
resolveOrgID    == When("org", ResolveOrgSlugOrID) \o Unless("org", InferOrgID)
\* Without a token there is no organization to ask about, and the API may still
\* compile the config, or say that a token is needed.
optionalAuthOrgID == Unless("token", When("org", Stop("auth"))) \o When("token", resolveOrgID)
configcmdCompile  == Call(Compile)
ParsePipelineParams == Require
ConfigProcess  == readConfigInput \o ParsePipelineParams \o optionalAuthOrgID \o configcmdCompile \o Need("validation")
ConfigValidate == readConfigInput \o optionalAuthOrgID \o configcmdCompile \o Need("validation")
ConfigPack     == Require
\* Written beside the config, and renamed over it.
writeConfigAtomic == WriteFile
Generate       == Need("general") \o writeConfigAtomic
\* A config that is there already is left alone.
ConfigGenerate == Require \o Whether("has config") \o When("has config", Stop("ok"))
                  \o Need("general") \o Generate

\* internal/cmd/api: a GET, or whatever the user's method and body do.
AnyRead  == Request("read", "any", "none")
AnyWrite == Request("create", "any", "none")
resolveBody == Need("general") \o Require
runApi ==
    Require \o Require
    \o When("placeholders", Require \o Coded("api", Call(GetProjectBySlug)))
    \o When("data", resolveBody) \o Require
    \o When("writes", Coded("api", Missing("api", Call(AnyWrite))))
    \o Unless("writes", Coded("api", Missing("api", Call(AnyRead))))
ApiCall == LoadClient \o runApi

Subst    == When("stdin", Require) \o Require
StepHalt == Need("notFound") \o Need("general")
=============================================================================
