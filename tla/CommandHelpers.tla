--------------------------- MODULE CommandHelpers ---------------------------
(* What the commands share: internal/cmdutil and internal/org, and the      *)
(* lookups of one command that others use.                                  *)
EXTENDS ApiRequests

RequireArgs == Require
LoadClient  == Need("auth")                    \* no token
ResolveOrgSlug     == Require                  \* --org, or the git remote
ResolveProjectSlug == Require                  \* --project, or the git remote
ParseSlug          == Require
AppURL             == Need("general")          \* a host that is no URL
OpenURLOrPrint     == Need("general")

ResolveProjectID == Unless("project id", ResolveProjectSlug \o Call(GetProjectBySlug))

\* An organization by its UUID, by its slug, or by the project of the git remote,
\* whose UUID .circleci/info.yml may hold. Every failure is one of the arguments.
orgIDFromGitRemote ==
    Require \o Unless("linked", Coded("badArguments", Call(GetProjectBySlug)))
parseOrgID == Need("api")
ResolveOrgSlugOrID ==
    Unless("org id", Unless("org", orgIDFromGitRemote \o parseOrgID)
                     \o When("org", Coded("badArguments", Call(ResolveOrgID))))
InferOrgID == Unless("linked", Softly(Call(GetProjectBySlug)))

\* internal/org: the organizations of the user. Someone who has none is offered to make one.
promptCreateOrg == Prompt \o Call(CreateOrg)
RequireOrg == Call(ListCollaborations) \o Whether("no org")
              \o When("no org", Unless("tty", Stop("notFound")) \o When("tty", promptCreateOrg))
ValidateSlug == RequireOrg \o Require             \* one that the user does not belong to
SelectOrg  == RequireOrg \o Unless("no org", Ask("one org"))
=============================================================================
