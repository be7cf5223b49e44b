----------------------------- MODULE MCTenants -----------------------------
(***************************************************************************)
(* The components that keep the members of a tenant, its account and its   *)
(* agents. They are modelled without shared variables, so one run checks   *)
(* them all: in a behaviour one of them, focus, moves.                     *)
(***************************************************************************)
EXTENDS Tenancy, Integers, FiniteSets

CONSTANTS
    \* ResourceBot
    RequestIds, Executions, Reserve1, Reserve2, Costs, InitialBalance, MaxActive, Ttl,
    MaxReserves, MaxEvents,
    \* BotSettings
    Keys, Models, MaxRequests, BotAdmins

VARIABLES
    focus,      \* the component that moves
    \* TenantOidc
    tenantOidcMember, prov, grant, remote, role, tenantOidcLock, proc, changes,
    tenantOidcCalls, failures,
    \* TenantOidc
    optOutMember, optOutProv, optOutGrant, optOutRemote, optOutRole, optOutLock,
    optOutProc, optOutChanges, optOutCalls, optOutFailures,
    \* ResourceBot
    balance, price, enabled, resv, usage, pc, exec, ids, events,
    \* BotSettings
    state, botSettingsPc, req, valid, mixed, requests,
    \* Sessions
    login, proof, row, token, portalSessionsLock, portalSessionsCalls, active, native,
    replayed, ended, portalSessionsEvents,
    \* Sessions
    loginsLogin, loginsProof, loginsRow, loginsToken, loginsLock, loginsCalls,
    loginsActive, loginsNative, loginsReplayed, loginsEnded, loginsEvents,
    \* CliAuth
    file, accepted, device, cli, granted, of, mine, cliAuthEnded, sent, cliAuthEvents,
    \* CloudflareGrant
    cloudflareGrantState, code, conn, live, cloudflareGrantCall, issued,
    cloudflareGrantIds, made,
    \* IdentityProviders
    identityProvidersRow, template, allowed, identityProvidersCall, stray,
    identityProvidersMade, identityProvidersFailures

tenantOidcVars ==
    <<tenantOidcMember, prov, grant, remote, role, tenantOidcLock, proc, changes,
      tenantOidcCalls, failures>>
optOutVars ==
    <<optOutMember, optOutProv, optOutGrant, optOutRemote, optOutRole, optOutLock,
      optOutProc, optOutChanges, optOutCalls, optOutFailures>>
resourceBotVars == <<balance, price, enabled, resv, usage, pc, exec, ids, events>>
botSettingsVars == <<state, botSettingsPc, req, valid, mixed, requests>>
portalSessionsVars ==
    <<login, proof, row, token, portalSessionsLock, portalSessionsCalls, active, native,
      replayed, ended, portalSessionsEvents>>
loginsVars ==
    <<loginsLogin, loginsProof, loginsRow, loginsToken, loginsLock, loginsCalls,
      loginsActive, loginsNative, loginsReplayed, loginsEnded, loginsEvents>>
cliAuthVars ==
    <<file, accepted, device, cli, granted, of, mine, cliAuthEnded, sent, cliAuthEvents>>
cloudflareGrantVars ==
    <<cloudflareGrantState, code, conn, live, cloudflareGrantCall, issued,
      cloudflareGrantIds, made>>
identityProvidersVars ==
    <<identityProvidersRow, template, allowed, identityProvidersCall, stray,
      identityProvidersMade, identityProvidersFailures>>
systemVars ==
    <<focus,
      vars, tenantOidcVars, optOutVars, resourceBotVars, botSettingsVars,
      portalSessionsVars, loginsVars, cliAuthVars, cloudflareGrantVars,
      identityProvidersVars>>

ASSUME TenancyAssumption
\* Membership changes while the provider is provisioned and disabled.
TenantOidc == INSTANCE TenantOidc WITH
    Users <- {"u1", "u2"}, Owners <- {"u1"}, Project <- TRUE,
    Calls <- {"reconcile", "disable", "provision"}, Cohort <- TRUE, MaxChanges <- 4,
    MaxCalls <- 3, MaxFailures <- 2, Rejected <- FALSE, member <- tenantOidcMember,
    lock <- tenantOidcLock, calls <- tenantOidcCalls
ASSUME TenantOidcConstants == TenantOidc!TenantOidcAssumption
\* An administrator disables and deletes the provider during a rollout.
OptOut == INSTANCE TenantOidc WITH
    Users <- {"u1", "u2"}, Owners <- {"u1"}, Project <- FALSE,
    Calls <- {"reconcile", "disable", "delete"}, Cohort <- FALSE, MaxChanges <- 2,
    MaxCalls <- 3, MaxFailures <- 1, Rejected <- FALSE, member <- optOutMember,
    prov <- optOutProv, grant <- optOutGrant, remote <- optOutRemote, role <- optOutRole,
    lock <- optOutLock, proc <- optOutProc, changes <- optOutChanges,
    calls <- optOutCalls, failures <- optOutFailures
ResourceBot == INSTANCE ResourceBot
ASSUME ResourceBotConstants == ResourceBot!ResourceBotAssumption
BotSettings == INSTANCE BotSettings WITH
    Admins <- BotAdmins, Blank <- "blank", pc <- botSettingsPc
ASSUME BotSettingsConstants == BotSettings!BotSettingsAssumption
\* Requests of one session, whose tokens expire.
PortalSessions == INSTANCE Sessions WITH
    Sessions <- {"s1"}, Callers <- {"c1", "c2"}, Providers <- {"p"}, Cases <- {},
    MaxTokens <- 3, MaxEvents <- 2, lock <- portalSessionsLock,
    calls <- portalSessionsCalls, events <- portalSessionsEvents
ASSUME PortalSessionsConstants == PortalSessions!SessionsAssumption
\* A login that is completed more than once.
Logins == INSTANCE Sessions WITH
    Sessions <- {"s1", "s2"}, Callers <- {"c1"}, Providers <- {"p", "q"}, Cases <- {},
    MaxTokens <- 1, MaxEvents <- 1, login <- loginsLogin, proof <- loginsProof,
    row <- loginsRow, token <- loginsToken, lock <- loginsLock, calls <- loginsCalls,
    active <- loginsActive, native <- loginsNative, replayed <- loginsReplayed,
    ended <- loginsEnded, events <- loginsEvents
CliAuth == INSTANCE CliAuth WITH
    Clis <- {"c1", "c2"}, Apis <- {"a", "b"}, Cases <- {}, MaxLogins <- 2,
    MaxTokens <- 3, MaxEvents <- 3, ended <- cliAuthEnded, events <- cliAuthEvents
ASSUME CliAuthConstants == CliAuth!CliAuthAssumption
CloudflareGrant == INSTANCE CloudflareGrant WITH
    States <- {"s1", "s2"}, Callers <- {"c1", "c2"}, Rotates <- TRUE, Cases <- {},
    MaxTokens <- 3, MaxCalls <- 5, state <- cloudflareGrantState,
    call <- cloudflareGrantCall, ids <- cloudflareGrantIds
ASSUME CloudflareGrantConstants == CloudflareGrant!CloudflareGrantAssumption
\* A provider that does not rotate refresh tokens.
KeptGrant == INSTANCE CloudflareGrant WITH
    States <- {"s1", "s2"}, Callers <- {"c1", "c2"}, Rotates <- FALSE, Cases <- {},
    MaxTokens <- 3, MaxCalls <- 5, state <- cloudflareGrantState,
    call <- cloudflareGrantCall, ids <- cloudflareGrantIds
IdentityProviders == INSTANCE IdentityProviders WITH
    Providers <- {"idp1", "idp2"}, Callers <- {"c1", "c2"}, Cases <- {}, MaxCalls <- 3,
    MaxFailures <- 1, row <- identityProvidersRow, call <- identityProvidersCall,
    made <- identityProvidersMade, failures <- identityProvidersFailures
ASSUME IdentityProvidersConstants == IdentityProviders!IdentityProvidersAssumption

-----------------------------------------------------------------------------

\* A component that is not chosen stays in one of its initial states.
SystemInit ==
    /\ focus \in {
          "Tenancy", "TenantOidc", "OptOut", "ResourceBot", "BotSettings",
          "PortalSessions", "Logins", "CliAuth", "CloudflareGrant", "KeptGrant",
          "IdentityProviders"}
    /\ Init
    /\ TenantOidc!Init
    /\ OptOut!Init
    /\ ResourceBot!Init
    /\ BotSettings!Init
    /\ focus # "BotSettings" => state.model = CHOOSE m \in Models : TRUE
    /\ PortalSessions!Init
    /\ Logins!Init
    /\ CliAuth!Init
    /\ IF focus = "KeptGrant" THEN KeptGrant!Init ELSE CloudflareGrant!Init
    /\ IdentityProviders!Init

SystemNext ==
    \/ /\ focus = "Tenancy" /\ Next
       /\ UNCHANGED <<focus,
             tenantOidcVars, optOutVars, resourceBotVars, botSettingsVars,
             portalSessionsVars, loginsVars, cliAuthVars, cloudflareGrantVars,
             identityProvidersVars>>
    \/ /\ focus = "TenantOidc" /\ TenantOidc!Next
       /\ UNCHANGED <<focus,
             vars, optOutVars, resourceBotVars, botSettingsVars, portalSessionsVars,
             loginsVars, cliAuthVars, cloudflareGrantVars, identityProvidersVars>>
    \/ /\ focus = "OptOut" /\ OptOut!Next
       /\ UNCHANGED <<focus,
             vars, tenantOidcVars, resourceBotVars, botSettingsVars, portalSessionsVars,
             loginsVars, cliAuthVars, cloudflareGrantVars, identityProvidersVars>>
    \/ /\ focus = "ResourceBot" /\ ResourceBot!Next
       /\ UNCHANGED <<focus,
             vars, tenantOidcVars, optOutVars, botSettingsVars, portalSessionsVars,
             loginsVars, cliAuthVars, cloudflareGrantVars, identityProvidersVars>>
    \/ /\ focus = "BotSettings" /\ BotSettings!Next
       /\ UNCHANGED <<focus,
             vars, tenantOidcVars, optOutVars, resourceBotVars, portalSessionsVars,
             loginsVars, cliAuthVars, cloudflareGrantVars, identityProvidersVars>>
    \/ /\ focus = "PortalSessions" /\ PortalSessions!Next
       /\ UNCHANGED <<focus,
             vars, tenantOidcVars, optOutVars, resourceBotVars, botSettingsVars,
             loginsVars, cliAuthVars, cloudflareGrantVars, identityProvidersVars>>
    \/ /\ focus = "Logins" /\ Logins!Next
       /\ UNCHANGED <<focus,
             vars, tenantOidcVars, optOutVars, resourceBotVars, botSettingsVars,
             portalSessionsVars, cliAuthVars, cloudflareGrantVars, identityProvidersVars>>
    \/ /\ focus = "CliAuth" /\ CliAuth!Next
       /\ UNCHANGED <<focus,
             vars, tenantOidcVars, optOutVars, resourceBotVars, botSettingsVars,
             portalSessionsVars, loginsVars, cloudflareGrantVars, identityProvidersVars>>
    \/ /\ focus = "CloudflareGrant" /\ CloudflareGrant!Next
       /\ UNCHANGED <<focus,
             vars, tenantOidcVars, optOutVars, resourceBotVars, botSettingsVars,
             portalSessionsVars, loginsVars, cliAuthVars, identityProvidersVars>>
    \/ /\ focus = "KeptGrant" /\ KeptGrant!Next
       /\ UNCHANGED <<focus,
             vars, tenantOidcVars, optOutVars, resourceBotVars, botSettingsVars,
             portalSessionsVars, loginsVars, cliAuthVars, identityProvidersVars>>
    \/ /\ focus = "IdentityProviders" /\ IdentityProviders!Next
       /\ UNCHANGED <<focus,
             vars, tenantOidcVars, optOutVars, resourceBotVars, botSettingsVars,
             portalSessionsVars, loginsVars, cliAuthVars, cloudflareGrantVars>>

SystemSpec == SystemInit /\ [][SystemNext]_systemVars

-----------------------------------------------------------------------------
(* Properties *)


\* One execution owns a request and ends its reservation, what is reserved is covered
\* by the balance, a charge is the one that was reserved, and the bot is available only
\* with settings that were validated, unless a blank key was saved or two
\* administrators saved at once (ResourceBotBillingService,
\* PlatformResourceBotService).
BotSafety ==
    [][/\ focus = "ResourceBot" => /\ ResourceBot!TypeOK'
                                   /\ ResourceBot!OneOwner'
                                   /\ ResourceBot!ChargeWasAuthorized'
                                   /\ ResourceBot!ReservationIsCovered
                                   /\ ResourceBot!OwnerEndsReservation
       /\ focus = "BotSettings" => BotSettings!AvailableWasValidated']_systemVars
=============================================================================
