---------------------------- MODULE ApiHandlers ----------------------------
(***************************************************************************)
(* The handlers of the API that read in one session and write in another:  *)
(* registration and roles (routers/auth.py), target agents (targets.py)    *)
(* and the start of a campaign (routers/campaigns.py).  A request is       *)
(* interleaved with the others at each of its transactions, and may be     *)
(* cut off between two of them.  The database is PostgreSQL at its default *)
(* isolation; the session writes only the columns whose value changed.     *)
(*                                                                         *)
(* There is one target, in a project of one user; the requests of others   *)
(* for it end with 403 and change nothing.                                 *)
(***************************************************************************)
EXTENDS Naturals, FiniteSets

CONSTANTS
    Requests,    \* requests that may be in flight together
    Users,       \* who may register
    Bootstrap,   \* BOOTSTRAP_ADMIN_EMAILS
    Owner,       \* whose project it is
    TargetTypes, \* settings.target_type_list
    Creations,   \* the rows a client may ask to create
    Patches,     \* the bodies of PATCH, "keep" for a field that is null
    Campaigns    \* the campaigns that may be started

VARIABLES
    role,      \* users.role, "none" if there is no such user
    there,     \* whether the target's row exists
    target,    \* the row
    campaigns, \* each experiment: "none", "pending", "queued", or "lost"
    req,       \* the requests, with what they have read
    created    \* history: the campaigns created while a request, which found
               \* the target without any, is about to delete it

vars == <<role, there, target, campaigns, req, created>>

Roles == {"researcher", "admin"}
\* config_json: a key that was encrypted, or a raw one that came in with the
\* other options; `note' stands for any of those.
Config == [key : {"none", "k1", "k2", "raw"}, note : {"none", "n1"}]
Row == [type : {"mock", "custom_http"}, url : {"none", "empty", "url"},
        enabled : {"on", "off"}, config : Config]
Patch == [type : {"keep", "mock", "custom_http"}, url : {"keep", "empty", "url"},
          enabled : {"keep", "on", "off"}, key : {"keep", "k1", "k2"},
          note : {"keep", "n1"},
          extra : {"keep", "none", "raw"}] \* extra_config["api_key"]

Local == [pc : {"idle", "register", "role", "save role", "patch", "save patch",
                "delete", "save delete", "start", "enqueue"},
          user : Users, other : Users, give : Roles, patch : Patch, seen : Row,
          campaign : Campaigns \cup {"none"}]

ASSUME HandlerConstants ==
    /\ Bootstrap \subseteq Users /\ Owner \in Users
    /\ Creations \subseteq Row /\ Patches \subseteq Patch
    /\ "none" \notin Campaigns

\* What setup-demo inserts.
DemoRow == [type |-> "mock", url |-> "none", enabled |-> "on",
            config |-> [key |-> "none", note |-> "none"]]
NoPatch == [type |-> "keep", url |-> "keep", enabled |-> "keep",
            key |-> "keep", note |-> "keep", extra |-> "keep"]
Idle == [pc |-> "idle", user |-> Owner, other |-> Owner, give |-> "admin",
         patch |-> NoPatch, seen |-> DemoRow, campaign |-> "none"]

HandlersInit ==
    /\ role = [u \in Users |-> "none"]
    /\ there = "no" /\ target = DemoRow
    /\ campaigns = [c \in Campaigns |-> "none"]
    /\ req = [r \in Requests |-> Idle]
    /\ created = [r \in Requests |-> {}]

-----------------------------------------------------------------------------
(* A request goes on, or is over. *)

At(r, pc) == req[r].pc = pc
Continue(r, locals) == req' = [req EXCEPT ![r] = locals] /\ UNCHANGED created
GoOn(r, pc) == Continue(r, [req[r] EXCEPT !.pc = pc])
End(r) ==
    /\ req' = [req EXCEPT ![r] = Idle]
    /\ created' = [created EXCEPT ![r] = {}]

\* The client goes away, or the process dies.
Drop(r) ==
    /\ ~At(r, "idle") /\ End(r)
    /\ UNCHANGED <<role, there, target, campaigns>>

-----------------------------------------------------------------------------
(* Users. *)

Admins == {u \in Users : role[u] = "admin"}

\* register: the address is free; the unique index decides if it still is.
Register(r, u) ==
    /\ At(r, "idle") /\ role[u] = "none"
    /\ Continue(r, [Idle EXCEPT !.pc = "register", !.user = u])
    /\ UNCHANGED <<role, there, target, campaigns>>

InsertUser(r) ==
    /\ At(r, "register")
    /\ IF role[req[r].user] = "none"
       THEN role' = [role EXCEPT ![req[r].user] =
                    IF req[r].user \in Bootstrap THEN "admin" ELSE "researcher"]
       ELSE UNCHANGED role
    /\ End(r)
    /\ UNCHANGED <<there, target, campaigns>>

\* set_user_role: require_roles("admin") and the guard against oneself, in the
\* session of the dependency; the change, in another.
MayGive_Anyone(u, v, new) == u \in Admins
MayGive(u, v, new) == u \in Admins /\ (u = v => new = "admin")

SetUserRole(r, u, v, new) ==
    /\ At(r, "idle") /\ MayGive(u, v, new)
    /\ Continue(r, [Idle EXCEPT !.pc = "role", !.user = u, !.other = v, !.give = new])
    /\ UNCHANGED <<role, there, target, campaigns>>

LoadUser(r) ==
    /\ At(r, "role")
    /\ IF role[req[r].other] \in {"none", req[r].give} THEN End(r)
       ELSE GoOn(r, "save role")
    /\ UNCHANGED <<role, there, target, campaigns>>

SaveRole(r) ==
    /\ At(r, "save role")
    /\ role' = [role EXCEPT ![req[r].other] = req[r].give]
    /\ End(r)
    /\ UNCHANGED <<there, target, campaigns>>

-----------------------------------------------------------------------------
(* Targets. *)

\* validate_target_writable: custom_http needs an endpoint.
Valid(type, url) ==
    type \in TargetTypes /\ (type = "custom_http" => url = "url")

\* get_target_for_user, for the owner.
Found == there = "yes" /\ role[Owner] # "none"

CreateTarget(r) ==
    /\ At(r, "idle") /\ there = "no" /\ role[Owner] # "none"
    /\ \E row \in Creations :
          /\ Valid(row.type, row.url) \/ row = DemoRow
          /\ target' = row
    /\ there' = "yes"
    /\ End(r)
    /\ UNCHANGED <<role, campaigns>>

\* update_target validates what the row will be against the row it read first,
\* and an empty endpoint counts there as none was given.
Kept(new, old) == IF new = "keep" THEN old ELSE new
Validated(data, row) ==
    Valid(Kept(data.type, row.type),
          IF data.url \in {"keep", "empty"} THEN row.url ELSE data.url)

UpdateTarget(r, data) ==
    /\ At(r, "idle") /\ Found /\ Validated(data, target)
    /\ Continue(r, [Idle EXCEPT !.pc = "patch", !.patch = data])
    /\ UNCHANGED <<role, there, target, campaigns>>

LoadTarget(r) ==
    /\ At(r, "patch")
    /\ IF there = "yes"
       THEN Continue(r, [req[r] EXCEPT !.pc = "save patch", !.seen = target])
       ELSE End(r)
    /\ UNCHANGED <<role, there, target, campaigns>>

\* A column is written if its value is not what was loaded.  config_json is one
\* column: a change of any key of it writes all of them as they were loaded.
\* An entry of extra_config overrides api_key, and what encrypt_value makes of a
\* key is never the same text again.
Column_Always(value, loaded, current) == value
Column(value, loaded, current) == IF value = loaded THEN current ELSE value
GivenKey(data) == IF data.extra = "keep" THEN data.key ELSE data.extra
Encrypts(data) == data.extra = "keep" /\ data.key # "keep"
NewConfig(data, config) ==
    [key |-> Kept(GivenKey(data), config.key), note |-> Kept(data.note, config.note)]
ConfigColumn(data, loaded, current) ==
    IF Encrypts(data) THEN NewConfig(data, loaded)
    ELSE Column(NewConfig(data, loaded), loaded, current)

SaveTarget(r) ==
    LET data == req[r].patch
        seen == req[r].seen
    IN  /\ At(r, "save patch")
        /\ IF there = "yes"
           THEN target' =
                   [type |-> Column(Kept(data.type, seen.type), seen.type, target.type),
                    url |-> Column(Kept(data.url, seen.url), seen.url, target.url),
                    enabled |-> Column(Kept(data.enabled, seen.enabled),
                                       seen.enabled, target.enabled),
                    config |-> ConfigColumn(data, seen.config, target.config)]
           ELSE UNCHANGED target
        /\ End(r)
        /\ UNCHANGED <<role, there, campaigns>>

\* delete_target: the session loads the campaigns of the target to detach them,
\* which their NOT NULL column forbids; without any the row is deleted, and the
\* foreign key takes with it what was inserted since.
Started == {c \in Campaigns : campaigns[c] \in {"pending", "queued"}}

DeleteTarget(r) ==
    /\ At(r, "idle") /\ Found
    /\ Continue(r, [Idle EXCEPT !.pc = "delete"])
    /\ UNCHANGED <<role, there, target, campaigns>>

LoadCampaigns_None(r) ==
    /\ At(r, "delete") /\ GoOn(r, "save delete")
    /\ UNCHANGED <<role, there, target, campaigns>>

LoadCampaigns(r) ==
    /\ At(r, "delete")
    /\ IF there = "yes" /\ Started = {} THEN GoOn(r, "save delete") ELSE End(r)
    /\ UNCHANGED <<role, there, target, campaigns>>

SaveDelete(r) ==
    /\ At(r, "save delete")
    /\ there' = "deleted"
    /\ campaigns' = [c \in Campaigns |->
                        IF c \in Started THEN "lost" ELSE campaigns[c]]
    /\ End(r)
    /\ UNCHANGED <<role, target>>

-----------------------------------------------------------------------------
(* start_campaign: the checks, initialize_experiment, enqueue_campaign. *)

StartCampaign(r) ==
    /\ At(r, "idle") /\ Found /\ target.enabled = "on"
    /\ target.type \in TargetTypes \cup {"mock"}
    /\ Continue(r, [Idle EXCEPT !.pc = "start"])
    /\ UNCHANGED <<role, there, target, campaigns>>

InitializeExperiment(r) ==
    /\ At(r, "start")
    /\ IF there = "yes"
       THEN \E c \in Campaigns :
              /\ campaigns[c] = "none"
              /\ campaigns' = [campaigns EXCEPT ![c] = "pending"]
              /\ req' = [req EXCEPT ![r].pc = "enqueue", ![r].campaign = c]
              /\ created' = [q \in Requests |-> IF At(q, "save delete")
                                THEN created[q] \cup {c} ELSE created[q]]
       ELSE End(r) /\ UNCHANGED campaigns
    /\ UNCHANGED <<role, there, target>>

\* The job refers to the experiment; without the job it stays as it is.
Enqueue(r) ==
    /\ At(r, "enqueue")
    /\ \/ /\ campaigns[req[r].campaign] = "pending"
          /\ campaigns' = [campaigns EXCEPT ![req[r].campaign] = "queued"]
       \/ UNCHANGED campaigns
    /\ End(r)
    /\ UNCHANGED <<role, there, target>>

-----------------------------------------------------------------------------

HandlerStep(r) ==
    \/ \E u \in Users : Register(r, u)
    \/ InsertUser(r)
    \/ \E u, v \in Users, new \in Roles : SetUserRole(r, u, v, new)
    \/ LoadUser(r) \/ SaveRole(r)
    \/ CreateTarget(r)
    \/ \E data \in Patches : UpdateTarget(r, data)
    \/ LoadTarget(r) \/ SaveTarget(r)
    \/ DeleteTarget(r) \/ LoadCampaigns(r) \/ SaveDelete(r)
    \/ StartCampaign(r) \/ InitializeExperiment(r) \/ Enqueue(r)
    \/ Drop(r)

HandlersNext == \E r \in Requests : HandlerStep(r)

HandlersSpec == HandlersInit /\ [][HandlersNext]_vars

-----------------------------------------------------------------------------
(* Properties. *)

\* Every table and every local keeps its type.
HandlersTypeOK ==
    /\ role \in [Users -> Roles \cup {"none"}]
    /\ there \in {"no", "yes", "deleted"} /\ target \in Row
    /\ campaigns \in [Campaigns -> {"none", "pending", "queued", "lost"}]
    /\ req \in [Requests -> Local] /\ created \in [Requests -> SUBSET Campaigns]

\* The request that commits in this step.
Commits(r, pc) == At(r, pc) /\ req'[r] = Idle

\* Administrators cannot demote themselves, so the last one goes only by a
\* request whose caller was demoted after set_user_role had let him in (the
\* caller is checked in an earlier session).
LastAdminKept ==
    Admins # {} => \/ Admins' # {}
                   \/ \E r \in Requests : /\ Commits(r, "save role")
                                          /\ req[r].user \notin Admins
AdminRemains == [][LastAdminKept]_vars

\* However PATCHes overlap, the provider, the endpoint and the switch of a
\* target change only to what the PATCH that commits gives for them.  So does
\* the key, given as api_key or in extra_config; but config_json is written as
\* a whole, and a PATCH of another option puts back the key it has loaded when
\* a different one was stored since.
PutsKeyBack(r) ==
    /\ req[r].patch.note # "keep"
    /\ req[r].seen.config.key # target.config.key
    /\ target'.config.key = req[r].seen.config.key
UpdatedBy(r) ==
    LET data == req[r].patch
    IN  /\ target'.type \in {target.type, data.type}
        /\ target'.url \in {target.url, data.url}
        /\ target'.enabled \in {target.enabled, data.enabled}
        /\ \/ target'.config.key \in {target.config.key, GivenKey(data)}
           \/ PutsKeyBack(r)
UpdatesApplied ==
    there = "yes" /\ target' # target =>
        \E r \in Requests : Commits(r, "save patch") /\ UpdatedBy(r)
UpdatesKept == [][UpdatesApplied]_vars

\* A campaign that was created is there for good: none goes with its target,
\* except one that was created after delete_target found that there was none.
CampaignsKept ==
    \A c \in Started : campaigns'[c] = "lost" =>
        \E r \in Requests : Commits(r, "save delete") /\ c \in created[r]
CampaignsStay == [][CampaignsKept]_vars
=============================================================================
