------------------------------ MODULE Bootstrap ------------------------------
(***************************************************************************)
(* The provider of logins is furnished by a one-shot service of the            *)
(* installer: an organization, a project, an application, the command line's    *)
(* client, the first administrator and the attestation action, each looked for   *)
(* by name and made when it is not there. The shell waits for the service, takes   *)
(* its files over and configures the API with them; an update, a change of the      *)
(* domain and a deployment run smaller services of the same program.                 *)
(***************************************************************************)
EXTENDS Naturals, Sequences, FiniteSets

CONSTANTS
    Jobs,        \* one-shot services that may be around at a time
    Others,      \* actions of customers in the flow of a login
    Registered,  \* clients that registered themselves in an earlier version
    Addresses,     \* domains of the platform
    Histories,   \* what was there before: "fresh" or "old", a version without the command line's client
    Cases,       \* windows that are open, see the README
    MaxMade,     \* bound: things of one name at the provider
    MaxFaults,   \* bound: lost answers, kills and timeouts
    MaxRuns,     \* bound: operations of the installer
    Attempts     \* attempts of a request that may be repeated

BootstrapAssumption ==
    /\ Histories \subseteq {"fresh", "old"} /\ Cases \subseteq {"behind", "secret", "trigger", "redirect"}
    /\ {MaxMade, Attempts} \subseteq Nat \ {0} /\ MaxMade <= 2 /\ MaxRuns \in Nat /\ MaxFaults \in Nat /\ Addresses # {}
    /\ 0 \notin Jobs /\ Others \cap {"ours", "ours again"} = {}

VARIABLES
    made,       \* what the provider has of each kind
    trigger,    \* actions of the flow of a login
    wanted,     \* ghost: the customers' actions as administrators set them
    jwt,        \* self-registered clients whose tokens the API accepts
    redirect,   \* domain the application redirects to
    job,        \* the one-shot services
    sh,         \* what the installer is doing
    env, conf,  \* its configuration in memory, and on disk
    out,        \* files of an earlier service: the JSON and its sidecars
    api,        \* configuration the API runs with
    done,       \* the identity phase, and the attestation of logins, are through
    faults, runs

provider == <<made, trigger, wanted, jwt, redirect>>
shell == <<sh, env, conf, out, api, done>>
vars == <<provider, job, shell, faults, runs>>

Kinds == {"org", "action", "project", "web", "cli", "user"}
Id == 0 .. MaxMade                    \* 0: not there yet, "bootstrap-pending", the placeholder secret
NoIds == [k \in Kinds |-> 0]
NoJob == [state |-> "None"]
NoFile == [ids |-> NoIds, secret |-> 0]
Ours == <<"ours", "ours again">>      \* the portal's actions in the flow, by id
Free == [doing |-> "None", at |-> "None", job |-> 0, old |-> "None", reconciled |-> FALSE]
OldIds == [k \in Kinds |-> IF k \in {"cli", "action"} THEN 0 ELSE 1]
First == CHOOSE d \in Addresses : TRUE
Blank == [ids |-> NoIds, secret |-> 0, domain |-> First]

Init ==
    \E h \in Histories, json \in BOOLEAN :
        LET has == IF h = "old" THEN OldIds ELSE NoIds
            knows == [Blank EXCEPT !.ids = [has EXCEPT !["org"] = 0, !["project"] = 0], !.secret = has["web"]]
        IN
        /\ made = [k \in Kinds |-> {has[k]} \ {0}] /\ wanted \in SUBSET Others /\ trigger = wanted /\ jwt = {}
        /\ redirect = First /\ job = [j \in Jobs |-> NoJob] /\ sh = Free /\ env = knows /\ conf = knows /\ api = knows
        /\ out = [json |-> IF json THEN [NoFile EXCEPT !.ids = has] ELSE NoFile,
                  side |-> IF json THEN NoFile ELSE [NoFile EXCEPT !.ids = has]]
        /\ done = (IF h = "old" THEN {"identity"} ELSE {}) /\ faults = 0 /\ runs = 0

Fault == faults < MaxFaults /\ faults' = faults + 1
-----------------------------------------------------------------------------
(* bootstrap-zitadel.ts: the modes, and the steps of each.                  *)

Steps(mode) ==
    CASE mode = "full" -> <<"Jwt", "org", "action", "Flow", "project", "web", "cli", "user">>
      [] mode = "mcp" -> <<"Jwt", "action", "Flow">>
      [] mode = "cli" -> <<"cli">>
      [] mode = "web" -> <<"Redirect">>

Running(j) == job[j].state = "Running"
Step(j) == Steps(job[j].mode)[job[j].step]
Now(j, step, sub) == Running(j) /\ Step(j) = step /\ job[j].sub = sub
Done(r) == IF r.step = Len(Steps(r.mode)) THEN [r EXCEPT !.state = "Complete"]
           ELSE [r EXCEPT !.step = @ + 1, !.sub = "look", !.tries = 1]
Becomes(j, r) == job' = [job EXCEPT ![j] = r]
Fails(j) == Becomes(j, [job[j] EXCEPT !.state = "Failed"])

\* What exists is taken; the application's secret is then the one that is mounted.
LookFor(j) ==
    \E k \in Kinds :
        /\ Now(j, k, "look")
        /\ IF made[k] = {} THEN Becomes(j, [job[j] EXCEPT !.sub = "do"])
           ELSE \E i \in made[k] : Becomes(j, Done([job[j] EXCEPT !.ids[k] = i, !.secret = IF k = "web" THEN job[j].mounted ELSE @]))
        /\ UNCHANGED <<provider, shell, faults, runs>>

\* The creation is answered with the id, and for the application with its secret.
MakeIt(j) ==
    \E k \in Kinds :
        LET i == Cardinality(made[k]) + 1 IN
        /\ Now(j, k, "do") /\ i <= MaxMade
        /\ made' = [made EXCEPT ![k] = @ \cup {i}]
        /\ redirect' = IF k = "web" THEN job[j].domain ELSE redirect
        /\ Becomes(j, Done([job[j] EXCEPT !.ids[k] = i, !.secret = IF k = "web" THEN i ELSE @]))
        /\ UNCHANGED <<trigger, wanted, jwt, shell, faults, runs>>

\* GetFlow
ReadFlow(j) ==
    /\ Now(j, "Flow", "look") /\ Becomes(j, [job[j] EXCEPT !.sub = "do", !.seen = trigger])
    /\ UNCHANGED <<provider, shell, faults, runs>>

\* Mutant: the trigger gets the portal's action alone.
OnlyOurs(r) == {Ours[r.ids["action"]]}
\* The endpoint replaces the whole list.
NextActions(r) == r.seen \cup {Ours[r.ids["action"]]}

SetFlow(j) ==
    /\ Now(j, "Flow", "do") /\ trigger' = NextActions(job[j]) /\ Becomes(j, Done(job[j]))
    /\ UNCHANGED <<made, wanted, jwt, redirect, shell, faults, runs>>

\* reconcileMcpDcrJwtAccessTokens, after registration was enabled
ReadRegistered(j) ==
    /\ Now(j, "Jwt", "look") /\ Becomes(j, [job[j] EXCEPT !.sub = "do", !.seen = Registered])
    /\ UNCHANGED <<provider, shell, faults, runs>>

UpdateRegistered(j) ==
    /\ Now(j, "Jwt", "do")
    /\ IF job[j].seen = {} THEN UNCHANGED jwt /\ Becomes(j, Done([job[j] EXCEPT !.seen = {}]))
       ELSE \E c \in job[j].seen : jwt' = jwt \cup {c} /\ Becomes(j, [job[j] EXCEPT !.seen = @ \ {c}])
    /\ UNCHANGED <<made, trigger, wanted, redirect, shell, faults, runs>>

\* selectBootstrapWebOidcApp, then its configuration
FindWeb(j) ==
    /\ Now(j, "Redirect", "look")
    /\ IF job[j].client \in made["web"] THEN Becomes(j, [job[j] EXCEPT !.sub = "do"]) ELSE Fails(j)
    /\ UNCHANGED <<provider, shell, faults, runs>>

PutRedirect(j) ==
    /\ Now(j, "Redirect", "do") /\ redirect' = job[j].domain /\ Becomes(j, Done(job[j]))
    /\ UNCHANGED <<made, trigger, wanted, jwt, shell, faults, runs>>

\* Windows that the passing runs keep closed: the application is there and its secret not yet in the
\* configuration; a change of the domain has reached the provider and is not over.
SecretSafe == "secret" \in Cases \/ made["web"] = {} \/ conf.secret # 0
RedirectSafe == "redirect" \in Cases \/ sh.doing # "reconfigure" \/ redirect = conf.domain

\* Mutant: every request is repeated.
AnyRequest(j) == job[j].mode = "mcp"
\* isRetryableMcpReconcileRequest: searches and updates, and only when an update calls.
Repeatable(j) == job[j].mode = "mcp" /\ ~(Step(j) \in Kinds /\ job[j].sub = "do")

\* The answer of a request does not come: what it asked for is done, or not.
Unanswered(j) ==
    LET i == IF Step(j) \in Kinds THEN Cardinality(made[Step(j)]) + 1 ELSE 1 IN
    /\ Running(j) /\ Fault
    /\ SecretSafe /\ (job[j].mode = "web" => RedirectSafe)
    /\ \E reached \in BOOLEAN :
        /\ reached => job[j].sub = "do" /\ i <= MaxMade /\ (Step(j) = "web" => "secret" \in Cases)
        /\ reached /\ Step(j) = "Redirect" => "redirect" \in Cases
        /\ made' = IF reached /\ Step(j) \in Kinds THEN [made EXCEPT ![Step(j)] = @ \cup {i}] ELSE made
        /\ redirect' = IF reached /\ Step(j) = "Redirect" THEN job[j].domain ELSE redirect
    /\ UNCHANGED <<trigger, wanted, jwt>>
    /\ IF Repeatable(j) /\ job[j].tries < Attempts THEN Becomes(j, [job[j] EXCEPT !.tries = @ + 1]) ELSE Fails(j)
    /\ UNCHANGED <<shell, runs>>

\* Another administrator sets the customers' actions of the flow.
SetActions(w) ==
    /\ "trigger" \in Cases \/ \A j \in Jobs : ~Now(j, "Flow", "do")
    /\ wanted' = w /\ w # wanted /\ trigger' = (trigger \ Others) \cup w
    /\ UNCHANGED <<made, jwt, redirect, job, shell, faults, runs>>
-----------------------------------------------------------------------------
(* identity.sh: services are started, waited for, and their files taken.     *)

At(doing, at) == sh.doing = doing /\ sh.at = at
Goes(at) == sh' = [sh EXCEPT !.at = at, !.job = 0]
Gone(j) == Becomes(j, NoJob)
Starts(doing, at) == sh = Free /\ runs < MaxRuns /\ runs' = runs + 1 /\ sh' = [Free EXCEPT !.doing = doing, !.at = at, !.old = conf.domain]

\* docker service create: the application's secret that the configuration names is mounted.
Create(mode) ==
    \E j \in Jobs :
        /\ job[j] = NoJob /\ sh' = [sh EXCEPT !.job = j, !.at = "Poll"]
        /\ Becomes(j, [state |-> "Running", mode |-> mode, step |-> 1, sub |-> "look", tries |-> 1, ids |-> NoIds,
                       secret |-> 0, mounted |-> env.secret, domain |-> env.domain, client |-> env.ids["web"], seen |-> {}])

\* An installation that is resumed keeps a client with its secret, and starts over with a pending one.
Resumed(c) == IF c.ids["web"] # 0 /\ c.secret # 0 THEN c ELSE [c EXCEPT !.ids["web"] = 0, !.secret = 0]

\* rp_primary_bootstrap_identity; the files of an earlier service are removed.
StartIdentity ==
    /\ "identity" \notin done /\ Starts("identity", "Start") /\ env' = Resumed(conf)
    /\ out' = [json |-> NoFile, side |-> NoFile]
    /\ UNCHANGED <<provider, job, conf, api, done, faults>>

RunIdentity ==
    /\ At("identity", "Start") /\ Create("full")
    /\ UNCHANGED <<provider, env, conf, out, api, done, faults, runs>>

\* rp_upgrade_stack, as far as the provider of logins is concerned
StartUpgrade ==
    /\ "identity" \in done /\ Starts("upgrade", "Ready") /\ env' = conf
    /\ UNCHANGED <<provider, job, conf, out, api, done, faults>>

StartFinal ==
    /\ "identity" \in done /\ Starts("final", "Recover") /\ env' = conf
    /\ UNCHANGED <<provider, job, conf, out, api, done, faults>>

StartReconfigure(d) ==
    /\ "identity" \in done /\ Starts("reconfigure", "Ready") /\ env' = [conf EXCEPT !.domain = d]
    /\ UNCHANGED <<provider, job, conf, out, api, done, faults>>

ManagementReady == env.ids["org"] # 0 /\ env.ids["project"] # 0
\* A failed deployment ends the installation or the update; a change of the domain is put back.
Abandon == IF sh.doing = "reconfigure" /\ sh.at # "Back" THEN Goes("PutBack") ELSE sh' = Free

\* The services of an update and of a change of the domain
RunReconcile ==
    /\ sh.at \in {"Ready", "BackReady"}
    /\ IF ManagementReady
       THEN Create(IF sh.doing = "upgrade" THEN "mcp" ELSE "web")
       ELSE Abandon /\ UNCHANGED job
    /\ UNCHANGED <<provider, env, conf, out, api, done, faults, runs>>

\* The shell sees the service complete.
Served ==
    LET j == sh.job IN
    /\ sh.at = "Poll" /\ job[j].state = "Complete"
    /\ CASE job[j].mode \in {"full", "cli"} -> sh' = [sh EXCEPT !.at = job[j].mode] /\ UNCHANGED <<job, done>>
         [] job[j].mode = "mcp" -> Goes("Recover") /\ Gone(j) /\ done' = done \cup {"attested"}
         [] job[j].mode = "web" /\ ~sh.reconciled ->
                sh' = [sh EXCEPT !.at = "Recover", !.job = 0, !.reconciled = TRUE] /\ Gone(j) /\ UNCHANGED done
         [] OTHER -> sh' = Free /\ Gone(j) /\ UNCHANGED done
    /\ UNCHANGED <<provider, env, conf, out, api, faults, runs>>

\* It sees it failed, or gives up; a service that is removed goes with what it was doing.
NotServed ==
    LET j == sh.job IN
    /\ sh.at = "Poll"
    /\ \/ job[j].state = "Failed" /\ Gone(j) /\ UNCHANGED faults
       \/ Fault /\ SecretSafe /\ (job[j].mode = "web" => RedirectSafe)
          /\ \E stays \in {b \in BOOLEAN : b => "behind" \in Cases} : IF stays THEN UNCHANGED job ELSE Gone(j)
    /\ IF sh.doing = "reconfigure" /\ ~(job[j].mode = "web" /\ sh.reconciled) THEN Goes("PutBack") ELSE sh' = Free
    /\ UNCHANGED <<provider, env, conf, out, api, done, runs>>

\* Files of a service nobody waits for are lost.
Vanish(j) ==
    /\ job[j].state \in {"Complete", "Failed"} /\ sh.job # j /\ Gone(j)
    /\ UNCHANGED <<provider, shell, faults, runs>>

\* Its files are moved, the JSON first,
TakeJson ==
    /\ At("identity", "full") /\ sh' = [sh EXCEPT !.at = "rest"]
    /\ out' = [out EXCEPT !.json = [ids |-> job[sh.job].ids, secret |-> job[sh.job].secret]]
    /\ UNCHANGED <<provider, job, env, conf, api, done, faults, runs>>

TakeSidecars ==
    /\ At("identity", "rest") /\ Goes("Apply") /\ Gone(sh.job)
    /\ out' = [out EXCEPT !.side = [ids |-> job[sh.job].ids, secret |-> job[sh.job].secret]]
    /\ UNCHANGED <<provider, env, conf, api, done, faults, runs>>

\* rp_apply_zitadel_bootstrap_output: the file with the secret is removed at its end.
Apply ==
    /\ At("identity", "Apply") /\ Goes("Write")
    /\ env' = [env EXCEPT !.ids = [out.side.ids EXCEPT !["action"] = 0], !.secret = out.side.secret]
    /\ out' = [out EXCEPT !.side.secret = 0]
    /\ UNCHANGED <<provider, job, conf, api, done, faults, runs>>

WriteConfig ==
    /\ At("identity", "Write") /\ Goes("Mark") /\ conf' = env
    /\ UNCHANGED <<provider, job, env, out, api, done, faults, runs>>

MarkIdentity ==
    /\ At("identity", "Mark") /\ sh' = Free /\ done' = done \cup {"identity", "attested"}
    /\ UNCHANGED <<provider, job, env, conf, out, api, faults, runs>>

\* rp_recover_zitadel_management_state: the sidecars, or the JSON
Management ==
    IF out.side.ids["org"] # 0 /\ out.side.ids["project"] # 0 THEN out.side.ids ELSE out.json.ids

Recover ==
    /\ sh.at = "Recover"
    /\ IF ManagementReady THEN Goes("Client") /\ UNCHANGED env
       ELSE IF Management["org"] # 0 /\ Management["project"] # 0
            THEN Goes("Client") /\ env' = [env EXCEPT !.ids["org"] = Management["org"], !.ids["project"] = Management["project"]]
            ELSE Abandon /\ UNCHANGED env
    /\ UNCHANGED <<provider, job, conf, out, api, done, faults, runs>>

\* rp_recover_zitadel_cli_client_state: the configuration, the sidecar, the JSON, a service
RecoverClient ==
    LET kept == IF out.side.ids["cli"] # 0 THEN out.side.ids["cli"] ELSE out.json.ids["cli"] IN
    /\ sh.at = "Client"
    /\ CASE env.ids["cli"] # 0 -> Goes("Deploy") /\ UNCHANGED <<env, job>>
         [] env.ids["cli"] = 0 /\ kept # 0 -> Goes("Deploy") /\ env' = [env EXCEPT !.ids["cli"] = kept] /\ UNCHANGED job
         [] OTHER -> Create("cli") /\ UNCHANGED env
    /\ UNCHANGED <<provider, conf, out, api, done, faults, runs>>

TakeClient ==
    /\ sh.at = "cli" /\ Goes("Deploy") /\ Gone(sh.job)
    /\ env' = [env EXCEPT !.ids["cli"] = job[sh.job].ids["cli"]]
    /\ out' = [out EXCEPT !.side.ids["cli"] = job[sh.job].ids["cli"]]
    /\ UNCHANGED <<provider, conf, api, done, faults, runs>>

Deploy ==
    /\ sh.at = "Deploy" /\ Goes("Persist") /\ api' = env
    /\ UNCHANGED <<provider, job, env, conf, out, done, faults, runs>>

DeployFails ==
    /\ sh.at = "Deploy" /\ Fault /\ Abandon /\ api' \in {api, env}
    /\ UNCHANGED <<provider, job, env, conf, out, done, runs>>

Persist ==
    /\ sh.at = "Persist" /\ sh' = Free /\ conf' = env
    /\ UNCHANGED <<provider, job, env, out, api, done, faults, runs>>

\* Mutant: the application is left as it is.
LeavesIt == FALSE
\* What was put in place before the failure is put back.
MustReturn == sh.reconciled

\* rp_reconfigure_domain, the failure
PutBack ==
    /\ sh.at = "PutBack" /\ env' = [env EXCEPT !.domain = sh.old]
    /\ \/ api' = env' /\ IF MustReturn THEN Goes("BackReady") ELSE sh' = Free
       \/ RedirectSafe /\ UNCHANGED api /\ sh' = Free
    /\ UNCHANGED <<provider, job, conf, out, done, faults, runs>>

\* The shell is killed; its service goes on without it.
Kill ==
    /\ sh # Free /\ Fault /\ SecretSafe /\ RedirectSafe
    /\ sh' = Free /\ env' = conf
    /\ job' = IF sh.job = 0 \/ "behind" \in Cases \/ job[sh.job].state # "Running" THEN job ELSE [job EXCEPT ![sh.job] = NoJob]
    /\ UNCHANGED <<provider, conf, out, api, done, runs>>
-----------------------------------------------------------------------------
JobStep(j) ==
    \/ LookFor(j) \/ MakeIt(j) \/ ReadFlow(j) \/ SetFlow(j) \/ ReadRegistered(j) \/ UpdateRegistered(j)
    \/ FindWeb(j) \/ PutRedirect(j) \/ Unanswered(j) \/ Vanish(j)

Next ==
    \/ \E j \in Jobs : JobStep(j)
    \/ \E w \in SUBSET Others : SetActions(w)
    \/ StartIdentity \/ RunIdentity \/ StartUpgrade \/ StartFinal \/ \E d \in Addresses : StartReconfigure(d)
    \/ RunReconcile \/ Served \/ NotServed \/ TakeJson \/ TakeSidecars \/ Apply \/ WriteConfig \/ MarkIdentity
    \/ Recover \/ RecoverClient \/ TakeClient \/ Deploy \/ DeployFails \/ Persist \/ PutBack \/ Kill

Spec == Init /\ [][Next]_vars
-----------------------------------------------------------------------------
\* Records of identity: ids of the provider, stages of the shell (identity.sh).
TypeOK ==
    /\ made \in [Kinds -> SUBSET (Id \ {0})] /\ trigger \subseteq Others \cup {Ours[i] : i \in 1 .. MaxMade} /\ jwt \subseteq Registered
    /\ redirect \in Addresses /\ {env.domain, conf.domain, api.domain} \subseteq Addresses
    /\ \A c \in {env, conf, api} : c.ids \in [Kinds -> Id] /\ c.secret \in Id

\* However often the program is run again, and wherever it was cut off, the provider has one organization,
\* project, application, client, administrator and action of the portal (getOrCreate*, isRetryableMcpReconcileRequest).
MadeOnce == \A k \in Kinds : Cardinality(made[k]) <= 1

\* The API signs in with a client the provider has and with that client's secret, and with the organization,
\* the project and the command line's client that are there (rp_apply_zitadel_bootstrap_output, rp_recover_*).
DeployedLoginWorks ==
    /\ \A k \in Kinds : api.ids[k] \in made[k] \cup {0}
    /\ api.secret = api.ids["web"]

\* The customers' actions of the login flow are those their administrators set, and after an identity
\* phase or an update the portal's own is among them (reconcileFederationAttestationAction).
ActionsAreKept ==
    /\ trigger \cap Others = wanted
    /\ "attested" \in done => \E i \in made["action"] : Ours[i] \in trigger

\* Between operations the application redirects to the domain of the configuration (rp_reconfigure_domain).
RedirectsFollow == sh = Free /\ made["web"] # {} => redirect = conf.domain

\* An update leaves no client behind whose tokens the API does not accept (reconcileMcpDcrJwtAccessTokens).
NoneLeftOpaque == "attested" \in done => jwt = Registered
=============================================================================
