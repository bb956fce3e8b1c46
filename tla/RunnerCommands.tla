--------------------------- MODULE RunnerCommands ---------------------------
(* internal/cmd/runner: self-hosted runners, their resource classes and     *)
(* tokens, and the namespaces that classes belong to.                       *)
EXTENDS CommandHelpers

\* A token for the config is minted unless one is given; then the file is opened.
RunnerConfig == RequireArgs \o Unless("token", LoadClient \o Call(CreateRunnerToken))
                \o When("output", WriteFile)

\* "by class": --resource-class or --namespace, and no --org. An organization whose runners are not enabled has none.
InstanceList == LoadClient
                \o When("by class", Soft({"notFound"}, Call(ListRunnerInstances)))
                \o Unless("by class", ResolveOrgSlugOrID \o Soft({"notFound"}, Call(ListRunnerInstancesByOrg)))
RunnerOpen   == ResolveOrgSlug \o AppURL \o OpenURLOrPrint

notEnabled(req)   == Missing("api", Call(req))   \* no such list: the account has no runners
ResourceClassList == LoadClient
                     \o Unless("by namespace", ResolveOrgSlugOrID \o notEnabled(ListResourceClassesByOrg))
                     \o When("by namespace", notEnabled(ListResourceClassesByNamespace))
tokenValueMissing == Need("api")               \* the answer has no token in it
ResourceClassCreate == RequireArgs \o LoadClient \o Call(CreateResourceClass)
                       \o When("generate token", Call(CreateRunnerToken) \o tokenValueMissing)
ResourceClassDelete == RequireArgs \o LoadClient \o Require \o Consent \o ResourceClassByName
                       \o Need("api") \o Call(DeleteResourceClass)

TokenList   == LoadClient
               \o When("class", Call(ListRunnerTokens))
               \o Unless("class", Require \o notEnabled(ListResourceClassesByNamespace)
                                  \o ForEach("no classes", Call(ListRunnerTokens)))
TokenCreate == RequireArgs \o LoadClient \o Call(CreateRunnerToken)
TokenDelete == RequireArgs \o LoadClient \o Consent \o Call(DeleteRunnerToken)
=============================================================================
