--------------------------- MODULE PolicyCommands ---------------------------
(* internal/cmd/policy: policy bundles, decisions, their logs and settings. *)
EXTENDS CommandHelpers

loadPolicyBundle == Require
readMetadata     == Require \o Require
resolveOwnerID   == When("org", ResolveOrgSlugOrID) \o Unless("org", InferOrgID)
compileConfig    == Call(Compile) \o Need("validation") \o Need("api") \o Need("validation") \o Need("api")
getPolicyEvaluationLocally == Require \o Need("validation")

runDecide == Require \o readMetadata \o Call(MakeDecision) \o When("strict", Need("validation"))
PolicyDecide == LoadClient \o ResolveOrgSlugOrID \o runDecide
runDiff    == loadPolicyBundle \o Call(DiffPolicyBundle)
PolicyDiff == LoadClient \o ResolveOrgSlugOrID \o runDiff
PolicyEval == readMetadata \o Require
              \o Unless("no compile", Require \o LoadClient \o resolveOwnerID \o compileConfig)
              \o getPolicyEvaluationLocally
runFetch    == Unless("policy", Call(FetchPolicyBundle)) \o When("policy", Call(FetchPolicyBundleWithName))
PolicyFetch == LoadClient \o ResolveOrgSlugOrID \o runFetch
\* The file for the logs is opened when they are all there.
runLogs    == Unless("decision", Call(GetDecisionLogs)) \o When("decision", Call(GetDecisionLog))
              \o When("output", WriteFile)
PolicyLogs == LoadClient \o Require \o Require \o ResolveOrgSlugOrID \o runLogs
\* What would change is shown before the user is asked; --no-prompt skips both.
runPush    == loadPolicyBundle
              \o Unless("no prompt", Call(DiffPolicyBundle) \o Coded("badArguments", Consent))
              \o Call(CreatePolicyBundle)
PolicyPush == LoadClient \o ResolveOrgSlugOrID \o runPush
runSettingsGet    == Call(GetPolicySettings)
PolicySettingsGet == LoadClient \o ResolveOrgSlugOrID \o runSettingsGet
runSettingsSet    == Call(SetPolicySettings)
PolicySettingsSet == LoadClient \o ResolveOrgSlugOrID \o runSettingsSet
\* Each test that compiles a config does it over one client, made at the first of them.
\* Whatever fails fails the tests.
compile    == Coded("validation", Missing("validation", LoadClient \o resolveOwnerID))
              \o Many(Softly(Call(Compile)))
PolicyTest == Require \o Require \o When("compiles", compile) \o Need("validation")
=============================================================================
