----------------------------- MODULE OrbCommands -----------------------------
(* internal/cmd/orb: orbs, their versions and categories. An orb, a version *)
(* and a category are got by name before anything is done to them by id.    *)
EXTENDS CommandHelpers

orbResolveOrgID == When("org", ResolveOrgSlugOrID)
readOrbFile    == Need("general")
parseOrbRef    == Require
isValidSegment == Require
incrementVersion == Need("general")            \* the latest version is not three numbers

runOrbCreate   == Call(GetNamespace) \o Call(CreateOrbPackage)
OrbCreate      == RequireArgs \o parseOrbRef \o LoadClient \o runOrbCreate
runOrbList     == When("namespace", Call(GetNamespace)) \o Call(ListOrbPackages)
OrbList        == LoadClient \o runOrbList
ListCategories == LoadClient \o Call(ListOrbCategories)
runOrbInfo     == Unless("orb id", Call(GetOrbPackageByName)) \o When("orb id", Call(GetOrbPackageByID))
                  \o Call(ListOrbVersions)
OrbGet         == RequireArgs \o LoadClient \o runOrbInfo
OrbSource      == RequireArgs \o LoadClient \o Call(GetOrbVersionByRef) \o Call(GetOrbSource)
runOrbDiff     == Call(GetOrbVersionByRef) \o Call(GetOrbVersionByRef)
                  \o Call(GetOrbSource) \o Call(GetOrbSource)
OrbDiff        == RequireArgs \o Require \o Require \o LoadClient \o runOrbDiff
OrbPack        == RequireArgs \o Require

\* What the API makes of an orb's source; one that it rejects ends the command.
runOrbProcess  == readOrbFile \o Call(ValidateOrbYAML) \o Need("validation")
OrbProcess     == RequireArgs \o LoadClient \o orbResolveOrgID \o runOrbProcess
runOrbValidate == readOrbFile \o Call(ValidateOrbYAML) \o Need("validation")
OrbValidate    == RequireArgs \o LoadClient \o orbResolveOrgID \o runOrbValidate

runOrbPublish   == parseOrbRef \o readOrbFile \o Call(GetOrbPackageByName) \o Call(PublishOrbVersion)
OrbPublish      == LoadClient \o runOrbPublish
runOrbPromote   == parseOrbRef \o Require \o Call(GetOrbPackageByName)
                   \o Call(GetOrbVersionByRef) \o Call(PromoteOrbVersion)
PublishPromote  == RequireArgs \o isValidSegment \o LoadClient \o runOrbPromote
runOrbIncrement == parseOrbRef \o readOrbFile \o Call(GetOrbPackageByName) \o Call(ListOrbVersions)
                   \o incrementVersion \o Call(PublishOrbVersion)
PublishIncrement == RequireArgs \o isValidSegment \o LoadClient \o runOrbIncrement

OrbUnlist          == RequireArgs \o LoadClient \o Call(GetOrbPackageByName) \o Call(SetOrbListed)
AddToCategory      == RequireArgs \o LoadClient \o Call(GetOrbPackageByName)
                      \o Call(GetOrbCategoryByName) \o Call(AddOrbToCategory)
RemoveFromCategory == RequireArgs \o LoadClient \o Call(GetOrbPackageByName)
                      \o Call(GetOrbCategoryByName) \o Call(RemoveOrbFromCategory)
=============================================================================
