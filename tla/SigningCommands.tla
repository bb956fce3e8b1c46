--------------------------- MODULE SigningCommands ---------------------------
(* internal/cmd/certificate and internal/cmd/signingconfig: what iOS apps   *)
(* are signed with.                                                         *)
EXTENDS CommandHelpers

readProfile == Require                         \* a provisioning profile that cannot be read
validUUID   == Require

\* The password comes from a flag, from the terminal, or from stdin.
CertificateUpload == Require \o Require
                     \o Unless("password", When("tty", Prompt) \o Unless("tty", Require))
                     \o LoadClient \o ResolveOrgSlugOrID \o Call(UploadIOSCertificate)
CertificateList   == LoadClient \o ResolveOrgSlugOrID \o Call(ListIOSCertificates)
CertificateDelete == RequireArgs \o validUUID \o Consent \o LoadClient \o Call(DeleteIOSCertificate)

SigningConfigCreate == Require \o Require \o Require \o validUUID \o readProfile \o LoadClient
                       \o ResolveOrgSlugOrID \o Call(CreateIOSSigningConfig)
SigningConfigList   == LoadClient \o ResolveOrgSlugOrID \o Call(ListIOSSigningConfigs)
SigningConfigDelete == RequireArgs \o validUUID \o Consent \o LoadClient \o Call(DeleteIOSSigningConfig)
ProfileAdd    == RequireArgs \o Require \o validUUID \o readProfile \o LoadClient
                 \o Call(UpdateIOSSigningConfigProfile)
ProfileRemove == RequireArgs \o validUUID \o validUUID \o LoadClient
                 \o Call(RemoveIOSSigningConfigProfile)
=============================================================================
