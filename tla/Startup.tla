------------------------------- MODULE Startup -------------------------------
(***************************************************************************)
(* Which environments the HTTP server starts in: the checks of             *)
(* src/config.ts, of startHttpServer in src/index.ts and of                *)
(* src/mcp-auth.ts, and the deployment a server that starts runs as.       *)
(*                                                                         *)
(* A host is one of the loopback names, or it is reachable from the        *)
(* network.  TRUST_PROXY_TLS says that a proxy on the same machine         *)
(* terminates TLS and passes remote requests on.                           *)
(***************************************************************************)
EXTENDS FiniteSets

OidcSettings == {"issuer", "audience", "jwksUri"}
MtlsModes == {"disabled", "optional", "required", "trusted-proxy"}

\* The environment: settings that are present or absent, and host and mode.
Config == [host : {"loopback", "network"}, trustProxyTls : BOOLEAN,
           certAndKey : BOOLEAN, oidc : SUBSET OidcSettings,
           roleMap : BOOLEAN, mcpApiKey : BOOLEAN,
           mtlsMode : MtlsModes, mtlsCa : BOOLEAN]

IsOidcEnabled(c) == c.oidc # {}

OidcConfigured(c) == c.oidc = OidcSettings

\* The configuration loads: OIDC comes with a map of roles.
Loads(c) == IsOidcEnabled(c) => c.roleMap

MtlsSettingsComplete(c) ==
  /\ c.mtlsMode # "disabled" => IsOidcEnabled(c)
  /\ c.mtlsMode \in {"optional", "required"} => c.certAndKey /\ c.mtlsCa
  /\ c.mtlsMode = "trusted-proxy" => c.trustProxyTls

ResolveListenHost(c) == IF c.trustProxyTls THEN "loopback" ELSE c.host

\* Mutant: a loopback listener is safe, proxy or not.
LoopbackIsSafe(c) ==
  \/ ResolveListenHost(c) = "loopback"
  \/ OidcConfigured(c) /\ (c.trustProxyTls \/ c.certAndKey)

\* assertSafeMcpAuthConfig, given the host the server will listen on.
SafeMcpAuthConfig(c) ==
  \/ ResolveListenHost(c) = "loopback" /\ ~c.trustProxyTls
  \/ OidcConfigured(c) /\ (c.trustProxyTls \/ c.certAndKey)

Starts(c) ==
  /\ Loads(c)
  /\ MtlsSettingsComplete(c)
  /\ IsOidcEnabled(c) => OidcConfigured(c)
  /\ SafeMcpAuthConfig(c)

\* What the running server is, as far as its routes can tell.
Deployment == [listen : {"loopback", "network"}, proxied : BOOLEAN,
               tls : BOOLEAN, oidc : BOOLEAN, mcpApiKey : BOOLEAN,
               mtlsMode : MtlsModes]

Deployed(c) ==
  [listen |-> ResolveListenHost(c), proxied |-> c.trustProxyTls,
   tls |-> c.certAndKey, oidc |-> IsOidcEnabled(c),
   mcpApiKey |-> c.mcpApiKey, mtlsMode |-> c.mtlsMode]
==============================================================================
