------------------------- MODULE ApiHandlers_proofs -------------------------
(***************************************************************************)
(* Proofs about ApiHandlers, for any number of requests, users and         *)
(* campaigns, and any bodies of PATCH.                                     *)
(*                                                                         *)
(* LocalInv says what a request still knows when it commits: the guard of  *)
(* set_user_role is about who calls and whom, which nobody changes, and    *)
(* every campaign there is was created since the request saw that there    *)
(* was none.  What a PATCH writes is a matter of the column it may leave   *)
(* alone, whatever it has loaded.                                          *)
(***************************************************************************)
EXTENDS ApiHandlers, TLAPS

\* What a request knows.
LocalInv(r) ==
    /\ req[r].pc \in {"role", "save role"} /\ req[r].user = req[r].other =>
          req[r].give = "admin"
    /\ req[r].pc = "save delete" => Started \subseteq created[r]

HandlersInv == HandlersTypeOK /\ \A r \in Requests : LocalInv(r)

tables == <<role, there, target, campaigns>>

-----------------------------------------------------------------------------
(* Types. *)

\* The rows and requests at the start are well typed.
LEMMA InitialRows == DemoRow \in Row /\ NoPatch \in Patch /\ Idle \in Local
<1>1. DemoRow \in Row
  BY DEF DemoRow, Row, Config
<1>2. NoPatch \in Patch
  BY DEF NoPatch, Patch
<1> QED
  BY <1>1, <1>2, HandlerConstants DEF Idle, Local, Roles

\* The ways a request leaves its locals.
LEMMA ReqType ==
  ASSUME HandlersTypeOK, NEW r \in Requests
  PROVE  /\ \A l \in Local : Continue(r, l) =>
               /\ req' \in [Requests -> Local]
               /\ created' \in [Requests -> SUBSET Campaigns]
         /\ End(r) => /\ req' \in [Requests -> Local]
                      /\ created' \in [Requests -> SUBSET Campaigns]
BY InitialRows DEF HandlersTypeOK, Continue, End

\* The locals of each handler that goes on.
LEMMA LocalTypes ==
  ASSUME HandlersTypeOK, NEW r \in Requests
  PROVE  /\ \A u \in Users : [Idle EXCEPT !.pc = "register", !.user = u] \in Local
         /\ \A u, v \in Users, new \in Roles :
               [Idle EXCEPT !.pc = "role", !.user = u, !.other = v, !.give = new] \in Local
         /\ \A data \in Patches : [Idle EXCEPT !.pc = "patch", !.patch = data] \in Local
         /\ [Idle EXCEPT !.pc = "delete"] \in Local
         /\ [Idle EXCEPT !.pc = "start"] \in Local
         /\ [req[r] EXCEPT !.pc = "save role"] \in Local
         /\ [req[r] EXCEPT !.pc = "save delete"] \in Local
         /\ [req[r] EXCEPT !.pc = "save patch", !.seen = target] \in Local
<1>1. req[r] \in Local /\ target \in Row
  BY DEF HandlersTypeOK
<1>2. Idle \in Local /\ Patches \subseteq Patch
  BY InitialRows, HandlerConstants
<1>3. \A l \in Local, pc \in {"delete", "start", "save role", "save delete", "register",
                             "role", "patch", "save patch"} :
         [l EXCEPT !.pc = pc] \in Local
  BY DEF Local
<1>4. \A l \in Local, u \in Users : [l EXCEPT !.user = u] \in Local
  BY DEF Local
<1>5. \A l \in Local, u \in Users : [l EXCEPT !.other = u] \in Local
  BY DEF Local
<1>6. \A l \in Local, new \in Roles : [l EXCEPT !.give = new] \in Local
  BY DEF Local
<1>7. \A l \in Local, data \in Patch : [l EXCEPT !.patch = data] \in Local
  BY DEF Local
<1>8. \A l \in Local, row \in Row : [l EXCEPT !.seen = row] \in Local
  BY DEF Local
<1> QED
  BY <1>1, <1>2, <1>3, <1>4, <1>5, <1>6, <1>7, <1>8

\* The rows that are written are well typed.
LEMMA SavedRow ==
  ASSUME HandlersTypeOK, NEW r \in Requests, SaveTarget(r)
  PROVE  target' \in Row
<1>1. req[r].patch \in Patch /\ req[r].seen \in Row /\ target \in Row
  BY DEF HandlersTypeOK, Local
<1> DEFINE data == req[r].patch
           seen == req[r].seen
<1>2. /\ Column(Kept(data.type, seen.type), seen.type, target.type) \in {"mock", "custom_http"}
      /\ Column(Kept(data.url, seen.url), seen.url, target.url) \in {"none", "empty", "url"}
      /\ Column(Kept(data.enabled, seen.enabled), seen.enabled, target.enabled) \in {"on", "off"}
  BY <1>1 DEF Column, Kept, Patch, Row
<1>3. /\ Kept(GivenKey(data), seen.config.key) \in {"none", "k1", "k2", "raw"}
      /\ Kept(data.note, seen.config.note) \in {"none", "n1"}
      /\ seen.config \in Config /\ target.config \in Config
  <2>1. GivenKey(data) \in {"keep", "k1", "k2", "none", "raw"}
    BY <1>1 DEF GivenKey, Patch
  <2> QED
    BY <1>1, <2>1 DEF Kept, Patch, Row, Config
<1>4. NewConfig(data, seen.config) \in Config
  BY <1>3 DEF NewConfig, Config
<1>5. ConfigColumn(data, seen.config, target.config) \in Config
  BY <1>3, <1>4 DEF ConfigColumn, Column
<1>6. CASE there = "yes"
  <2>1. target' = [type |-> Column(Kept(data.type, seen.type), seen.type, target.type),
                   url |-> Column(Kept(data.url, seen.url), seen.url, target.url),
                   enabled |-> Column(Kept(data.enabled, seen.enabled), seen.enabled, target.enabled),
                   config |-> ConfigColumn(data, seen.config, target.config)]
    BY <1>6 DEF SaveTarget
  <2> HIDE DEF data, seen
  <2> QED
    BY <1>2, <1>5, <2>1 DEF Row
<1> QED
  BY <1>1, <1>6 DEF SaveTarget

\* A campaign is created.
Creates(r, c) ==
    /\ campaigns' = [campaigns EXCEPT ![c] = "pending"]
    /\ req' = [req EXCEPT ![r].pc = "enqueue", ![r].campaign = c]
    /\ created' = [q \in Requests |-> IF At(q, "save delete")
                                      THEN created[q] \cup {c} ELSE created[q]]
    /\ UNCHANGED <<role, there, target>>

\* A handler commits, and is over.
Saves(r) ==
    /\ End(r)
    /\ \/ InsertUser(r) \/ SaveRole(r) \/ CreateTarget(r) \/ SaveTarget(r)
       \/ SaveDelete(r) \/ Enqueue(r)

\* What the handlers' steps do to the tables.
LEMMA StepKinds ==
  ASSUME HandlersTypeOK, NEW r \in Requests, HandlerStep(r)
  PROVE  \/ \E c \in Campaigns : Creates(r, c)
         \/ UNCHANGED tables /\ \E l \in Local : l.pc # "idle" /\ Continue(r, l)
         \/ UNCHANGED tables /\ End(r)
         \/ Saves(r)
<1> DEFINE On == UNCHANGED tables /\ \E l \in Local : l.pc # "idle" /\ Continue(r, l)
           Off == UNCHANGED tables /\ End(r)
<1>0. Idle \in Local /\ req[r] \in Local
  BY InitialRows DEF HandlersTypeOK
<1>1. ASSUME NEW u \in Users, Register(r, u) PROVE On
  BY <1>1, LocalTypes DEF Register, Idle, tables
<1>2. ASSUME NEW u \in Users, NEW v \in Users, NEW new \in Roles, SetUserRole(r, u, v, new)
      PROVE On
  BY <1>2, LocalTypes DEF SetUserRole, Idle, tables
<1>3. ASSUME LoadUser(r) PROVE On \/ Off
  <2>1. UNCHANGED tables /\ (End(r) \/ Continue(r, [req[r] EXCEPT !.pc = "save role"]))
    BY <1>3 DEF LoadUser, GoOn, tables
  <2>2. [req[r] EXCEPT !.pc = "save role"].pc # "idle"
    BY <1>0 DEF Local
  <2> QED
    BY <2>1, <2>2, LocalTypes
<1>4. ASSUME NEW data \in Patches, UpdateTarget(r, data) PROVE On
  BY <1>4, LocalTypes DEF UpdateTarget, Idle, tables
<1>5. ASSUME LoadTarget(r) PROVE On \/ Off
  <2>1. UNCHANGED tables /\ (End(r) \/ Continue(r, [req[r] EXCEPT !.pc = "save patch", !.seen = target]))
    BY <1>5 DEF LoadTarget, GoOn, tables
  <2>2. [req[r] EXCEPT !.pc = "save patch", !.seen = target].pc # "idle"
    BY <1>0 DEF Local
  <2> QED
    BY <2>1, <2>2, LocalTypes
<1>6. ASSUME DeleteTarget(r) PROVE On
  BY <1>6, LocalTypes DEF DeleteTarget, Idle, tables
<1>7. ASSUME LoadCampaigns(r) PROVE On \/ Off
  <2>1. UNCHANGED tables /\ (End(r) \/ Continue(r, [req[r] EXCEPT !.pc = "save delete"]))
    BY <1>7 DEF LoadCampaigns, GoOn, tables
  <2>2. [req[r] EXCEPT !.pc = "save delete"].pc # "idle"
    BY <1>0 DEF Local
  <2> QED
    BY <2>1, <2>2, LocalTypes
<1>8. ASSUME StartCampaign(r) PROVE On
  BY <1>8, LocalTypes DEF StartCampaign, Idle, tables
<1>9. ASSUME Drop(r) PROVE Off
  BY <1>9 DEF Drop, tables
<1>10. ASSUME InitializeExperiment(r) PROVE (\E c \in Campaigns : Creates(r, c)) \/ Off
  BY <1>10 DEF InitializeExperiment, Creates, tables
<1>11. ASSUME InsertUser(r) \/ SaveRole(r) \/ CreateTarget(r) \/ SaveTarget(r)
              \/ SaveDelete(r) \/ Enqueue(r)
       PROVE  Saves(r)
  BY <1>11 DEF InsertUser, SaveRole, CreateTarget, SaveTarget, SaveDelete, Enqueue, Saves
<1> QED
  BY <1>1, <1>2, <1>3, <1>4, <1>5, <1>6, <1>7, <1>8, <1>9, <1>10, <1>11 DEF HandlerStep

\* Every step keeps the types.
LEMMA TypeStep ==
  ASSUME HandlersTypeOK, NEW r \in Requests, HandlerStep(r)
  PROVE  HandlersTypeOK'
<1>1. /\ role \in [Users -> Roles \cup {"none"}]
      /\ there \in {"no", "yes", "deleted"} /\ target \in Row
      /\ campaigns \in [Campaigns -> {"none", "pending", "queued", "lost"}]
      /\ req \in [Requests -> Local] /\ req[r] \in Local
      /\ created \in [Requests -> SUBSET Campaigns]
  BY DEF HandlersTypeOK
<1>2. CASE (UNCHANGED tables /\ End(r)) \/ Saves(r)
  <2>1. req' \in [Requests -> Local] /\ created' \in [Requests -> SUBSET Campaigns]
    BY <1>2, ReqType DEF Saves
  <2>2. CASE UNCHANGED tables
    BY <1>1, <2>1, <2>2 DEF HandlersTypeOK, tables
  <2>3. CASE InsertUser(r)
    BY <1>1, <2>1, <2>3 DEF HandlersTypeOK, InsertUser, Local, Roles
  <2>4. CASE SaveRole(r)
    BY <1>1, <2>1, <2>4 DEF HandlersTypeOK, SaveRole, Local, Roles
  <2>5. CASE CreateTarget(r)
    BY <1>1, <2>1, <2>5, HandlerConstants DEF HandlersTypeOK, CreateTarget
  <2>6. CASE SaveTarget(r)
    BY <1>1, <2>1, <2>6, SavedRow DEF HandlersTypeOK, SaveTarget
  <2>7. CASE SaveDelete(r)
    BY <1>1, <2>1, <2>7 DEF HandlersTypeOK, SaveDelete
  <2>8. CASE Enqueue(r)
    BY <1>1, <2>1, <2>8 DEF HandlersTypeOK, Enqueue
  <2> QED
    BY <1>2, <2>2, <2>3, <2>4, <2>5, <2>6, <2>7, <2>8 DEF Saves
<1>3. ASSUME NEW c \in Campaigns, Creates(r, c) PROVE HandlersTypeOK'
  <2>1. /\ campaigns' = [campaigns EXCEPT ![c] = "pending"]
        /\ req' = [req EXCEPT ![r].pc = "enqueue", ![r].campaign = c]
        /\ UNCHANGED <<role, there, target>>
    BY <1>3 DEF Creates
  <2>2. \A l \in Local : [l EXCEPT !.campaign = c] \in Local
    BY DEF Local
  <2>3. \A l \in Local : [l EXCEPT !.pc = "enqueue"] \in Local
    BY DEF Local
  <2>4. req' \in [Requests -> Local]
    BY <1>1, <2>1, <2>2, <2>3
  <2>5. created' \in [Requests -> SUBSET Campaigns]
    BY <1>1, <1>3 DEF Creates
  <2> QED
    BY <1>1, <2>1, <2>4, <2>5 DEF HandlersTypeOK
<1>4. CASE UNCHANGED tables /\ \E l \in Local : l.pc # "idle" /\ Continue(r, l)
  <2>1. req' \in [Requests -> Local] /\ created' \in [Requests -> SUBSET Campaigns]
    BY <1>4, ReqType
  <2> QED
    BY <1>1, <1>4, <2>1 DEF HandlersTypeOK, tables
<1> QED
  BY <1>2, <1>3, <1>4, StepKinds

\* Every table and every local stays well typed, whatever the requests do to
\* each other (auth.py, targets.py, campaigns.py).
THEOREM HandlersTypeCorrect == HandlersSpec => []HandlersTypeOK
<1>1. HandlersInit => HandlersTypeOK
  BY InitialRows DEF HandlersInit, HandlersTypeOK
<1>2. HandlersTypeOK /\ [HandlersNext]_vars => HandlersTypeOK'
  <2> SUFFICES ASSUME HandlersTypeOK, [HandlersNext]_vars PROVE HandlersTypeOK'
    OBVIOUS
  <2>1. CASE UNCHANGED vars
    BY <2>1 DEF HandlersTypeOK, vars
  <2> QED
    BY <2>1, TypeStep DEF HandlersNext
<1> QED
  BY <1>1, <1>2, PTL DEF HandlersSpec

-----------------------------------------------------------------------------
(* What a request knows. *)

\* No step but a creation adds a campaign.
LEMMA StartedStep ==
  ASSUME HandlersTypeOK, NEW r \in Requests, HandlerStep(r)
  PROVE  \/ Started' \subseteq Started
         \/ \E c \in Campaigns : Creates(r, c) /\ Started' \subseteq Started \cup {c}
<1>1. campaigns \in [Campaigns -> {"none", "pending", "queued", "lost"}]
  BY DEF HandlersTypeOK
<1>2. CASE UNCHANGED campaigns
  BY <1>2 DEF Started
<1>3. CASE SaveDelete(r) \/ Enqueue(r)
  BY <1>1, <1>3 DEF SaveDelete, Enqueue, Started
<1>4. ASSUME NEW c \in Campaigns, Creates(r, c)
      PROVE  Started' \subseteq Started \cup {c}
  BY <1>1, <1>4 DEF Creates, Started
<1>5. CASE Saves(r)
  BY <1>2, <1>3, <1>5 DEF Saves, InsertUser, SaveRole, CreateTarget, SaveTarget
<1> QED
  BY <1>2, <1>4, <1>5, StepKinds DEF tables

\* What the others know survives the step of a request.
LEMMA OthersInv ==
  ASSUME HandlersTypeOK, NEW r \in Requests, HandlerStep(r),
         NEW q \in Requests \ {r}, LocalInv(q)
  PROVE  LocalInv(q)'
<1>1. req \in [Requests -> Local] /\ created \in [Requests -> SUBSET Campaigns]
  BY DEF HandlersTypeOK
<1>2. ASSUME NEW c \in Campaigns, Creates(r, c), Started' \subseteq Started \cup {c}
      PROVE  LocalInv(q)'
  BY <1>1, <1>2 DEF Creates, LocalInv, At
<1>3. ASSUME ~ \E c \in Campaigns : Creates(r, c) PROVE LocalInv(q)'
  <2>1. req'[q] = req[q] /\ created'[q] = created[q]
    BY <1>1, <1>3, StepKinds DEF Saves, End, Continue
  <2>2. Started' \subseteq Started
    BY <1>3, StartedStep
  <2> QED
    BY <2>1, <2>2 DEF LocalInv
<1>4. CASE Started' \subseteq Started
  <2>1. ASSUME NEW c \in Campaigns, Creates(r, c) PROVE LocalInv(q)'
    BY <1>2, <1>4, <2>1
  <2> QED
    BY <1>3, <2>1
<1> QED
  BY <1>2, <1>4, StartedStep

\* ... and what it finds out itself is so.
LEMMA OwnInv ==
  ASSUME HandlersTypeOK, NEW r \in Requests, HandlerStep(r), LocalInv(r)
  PROVE  LocalInv(r)'
<1>1. req \in [Requests -> Local] /\ req[r] \in Local
  BY DEF HandlersTypeOK
<1>2. Idle.pc = "idle" /\ Idle \in Local
  BY InitialRows DEF Idle
<1>3. CASE End(r)
  <2>1. req'[r].pc = "idle"
    BY <1>1, <1>2, <1>3 DEF End
  <2> QED
    BY <2>1 DEF LocalInv
<1>4. ASSUME NEW c \in Campaigns, Creates(r, c) PROVE LocalInv(r)'
  <2>1. req'[r].pc = "enqueue"
    BY <1>1, <1>4 DEF Creates, Local
  <2> QED
    BY <2>1 DEF LocalInv
<1>5. CASE UNCHANGED tables /\ \E l \in Local : l.pc # "idle" /\ Continue(r, l)
  <2>0. Started' = Started
    BY <1>5 DEF Started, tables
  <2>1. ASSUME NEW u \in Users, Register(r, u) PROVE LocalInv(r)'
    BY <1>1, <2>1 DEF Register, Continue, LocalInv, Idle
  <2>2. ASSUME NEW u \in Users, NEW v \in Users, NEW new \in Roles,
               SetUserRole(r, u, v, new)
        PROVE  LocalInv(r)'
    <3>1. req'[r] = [Idle EXCEPT !.pc = "role", !.user = u, !.other = v, !.give = new]
      BY <1>1, <2>2 DEF SetUserRole, Continue
    <3>2. /\ req'[r].pc = "role" /\ req'[r].user = u /\ req'[r].other = v
          /\ req'[r].give = new
      BY <3>1 DEF Idle
    <3> QED
      BY <2>2, <3>2 DEF SetUserRole, MayGive, LocalInv
  <2>3. ASSUME LoadUser(r), ~End(r) PROVE LocalInv(r)'
    <3>1. /\ req[r].pc = "role"
          /\ req'[r] = [req[r] EXCEPT !.pc = "save role"]
      BY <1>1, <2>3 DEF LoadUser, GoOn, Continue, At
    <3>2. /\ req'[r].pc = "save role" /\ req'[r].user = req[r].user
          /\ req'[r].other = req[r].other /\ req'[r].give = req[r].give
      BY <1>1, <3>1 DEF Local
    <3> QED
      BY <3>1, <3>2 DEF LocalInv
  <2>4. ASSUME NEW data \in Patches, UpdateTarget(r, data) PROVE LocalInv(r)'
    BY <1>1, <2>4 DEF UpdateTarget, Continue, LocalInv, Idle
  <2>5. ASSUME LoadTarget(r), ~End(r) PROVE LocalInv(r)'
    <3>1. req'[r] = [req[r] EXCEPT !.pc = "save patch", !.seen = target]
      BY <1>1, <2>5 DEF LoadTarget, GoOn, Continue
    <3>2. req'[r].pc = "save patch"
      BY <1>1, <3>1 DEF Local
    <3> QED
      BY <3>2 DEF LocalInv
  <2>6. ASSUME DeleteTarget(r) PROVE LocalInv(r)'
    BY <1>1, <2>6 DEF DeleteTarget, Continue, LocalInv, Idle
  <2>7. ASSUME LoadCampaigns(r), ~End(r) PROVE LocalInv(r)'
    <3>1. Started = {} /\ req'[r] = [req[r] EXCEPT !.pc = "save delete"]
      BY <1>1, <2>7 DEF LoadCampaigns, GoOn, Continue
    <3>2. req'[r].pc = "save delete"
      BY <1>1, <3>1 DEF Local
    <3> QED
      BY <2>0, <3>1, <3>2 DEF LocalInv
  <2>8. ASSUME StartCampaign(r) PROVE LocalInv(r)'
    BY <1>1, <2>8 DEF StartCampaign, Continue, LocalInv, Idle
  <2>9. \/ \E u \in Users : Register(r, u)
        \/ \E u, v \in Users, new \in Roles : SetUserRole(r, u, v, new)
        \/ LoadUser(r) \/ (\E data \in Patches : UpdateTarget(r, data))
        \/ LoadTarget(r) \/ DeleteTarget(r) \/ LoadCampaigns(r) \/ StartCampaign(r)
        \/ End(r) \/ \E c \in Campaigns : Creates(r, c)
    BY DEF HandlerStep, InsertUser, SaveRole, CreateTarget, SaveTarget,
       SaveDelete, InitializeExperiment, Creates, Enqueue, Drop
  <2> QED
    BY <1>3, <1>4, <2>1, <2>2, <2>3, <2>4, <2>5, <2>6, <2>7, <2>8, <2>9
<1> QED
  BY <1>3, <1>4, <1>5, StepKinds DEF Saves

\* Every step keeps what the requests know.
LEMMA InvStep == HandlersInv /\ [HandlersNext]_vars => HandlersInv'
<1> SUFFICES ASSUME HandlersInv, [HandlersNext]_vars PROVE HandlersInv'
  OBVIOUS
<1>1. CASE UNCHANGED vars
  BY <1>1 DEF HandlersInv, HandlersTypeOK, LocalInv, vars, Started
<1>2. ASSUME NEW r \in Requests, HandlerStep(r) PROVE HandlersInv'
  <2>1. HandlersTypeOK'
    BY <1>2, TypeStep DEF HandlersInv
  <2>2. ASSUME NEW q \in Requests PROVE LocalInv(q)'
    BY <1>2, <2>2, OwnInv, OthersInv DEF HandlersInv
  <2> QED
    BY <2>1, <2>2 DEF HandlersInv
<1> QED
  BY <1>1, <1>2 DEF HandlersNext

\* The invariant of the handlers.
LEMMA InvHolds == HandlersSpec => []HandlersInv
<1>1. HandlersInit => HandlersInv
  <2>1. HandlersInit => HandlersTypeOK
    BY InitialRows DEF HandlersInit, HandlersTypeOK
  <2>2. ASSUME HandlersInit, NEW r \in Requests PROVE LocalInv(r)
    <3>1. req[r].pc = "idle"
      BY <2>2 DEF HandlersInit, Idle
    <3> QED
      BY <3>1 DEF LocalInv
  <2> QED
    BY <2>1, <2>2 DEF HandlersInv
<1> QED
  BY <1>1, InvStep, PTL DEF HandlersSpec

-----------------------------------------------------------------------------
(* The properties. *)

\* The request that commits is idle after it.
LEMMA CommitIdles ==
  ASSUME HandlersTypeOK, NEW r \in Requests, End(r)
  PROVE  req'[r] = Idle
BY DEF HandlersTypeOK, End

\* The last administrator goes only by the request of one who was demoted
\* while it ran: he cannot demote himself (auth.py, set_user_role).
THEOREM AdminRemainsHolds == HandlersSpec => AdminRemains
<1>1. ASSUME HandlersInv, [HandlersNext]_vars PROVE [LastAdminKept]_vars
  <2>0. CASE UNCHANGED role
    BY <2>0 DEF LastAdminKept, Admins
  <2>1. ASSUME NEW r \in Requests, InsertUser(r) PROVE LastAdminKept
    <3>1. ASSUME NEW u \in Admins PROVE u \in Admins'
      BY <1>1, <2>1, <3>1 DEF InsertUser, Admins, HandlersInv, HandlersTypeOK
    <3> QED
      BY <3>1 DEF LastAdminKept
  <2>2. ASSUME NEW r \in Requests, SaveRole(r) PROVE LastAdminKept
    <3>1. HandlersTypeOK /\ LocalInv(r)
      BY <1>1 DEF HandlersInv
    <3>2. Commits(r, "save role") /\ req[r].pc = "save role"
      BY <2>2, <3>1, CommitIdles DEF SaveRole, Commits, At
    <3>3. CASE req[r].user \in Admins
      <4>1. role'[req[r].user] = "admin"
        BY <2>2, <3>1, <3>2, <3>3 DEF SaveRole, LocalInv, HandlersTypeOK, Admins
      <4> QED
        BY <3>3, <4>1 DEF LastAdminKept, Admins
    <3>4. CASE req[r].user \notin Admins
      BY <3>2, <3>4 DEF LastAdminKept
    <3> QED
      BY <3>3, <3>4
  <2>3. \/ UNCHANGED role \/ \E r \in Requests : InsertUser(r) \/ SaveRole(r)
    BY <1>1 DEF HandlersNext, HandlerStep, vars, Register, SetUserRole, LoadUser,
       CreateTarget, UpdateTarget, LoadTarget, SaveTarget, DeleteTarget, LoadCampaigns,
       SaveDelete, StartCampaign, InitializeExperiment, Enqueue, Drop
  <2> QED
    BY <2>0, <2>1, <2>2, <2>3
<1> QED
  BY <1>1, InvHolds, PTL DEF HandlersSpec, AdminRemains

\* The columns after a PATCH.
LEMMA SavedColumns ==
  ASSUME NEW r \in Requests, SaveTarget(r), there = "yes", NEW data, NEW seen,
         data = req[r].patch, seen = req[r].seen
  PROVE  /\ target'.type = Column(Kept(data.type, seen.type), seen.type, target.type)
         /\ target'.url = Column(Kept(data.url, seen.url), seen.url, target.url)
         /\ target'.enabled = Column(Kept(data.enabled, seen.enabled), seen.enabled, target.enabled)
         /\ target'.config = ConfigColumn(data, seen.config, target.config)
<1> DEFINE type == Column(Kept(data.type, seen.type), seen.type, target.type)
           url == Column(Kept(data.url, seen.url), seen.url, target.url)
           enabled == Column(Kept(data.enabled, seen.enabled), seen.enabled, target.enabled)
           config == ConfigColumn(data, seen.config, target.config)
<1>1. target' = [type |-> type, url |-> url, enabled |-> enabled, config |-> config]
  BY DEF SaveTarget
<1> HIDE DEF type, url, enabled, config
<1>2. /\ target'.type = type /\ target'.url = url /\ target'.enabled = enabled
      /\ target'.config = config
  BY <1>1
<1> QED
  BY <1>2 DEF type, url, enabled, config

\* However PATCHes overlap, a column keeps what it holds or takes what is given
\* for it; only the key may go back to one that was replaced meanwhile, when
\* another option is written with it (targets.py, update_target).
THEOREM UpdatesKeptHolds == HandlersSpec => UpdatesKept
<1>1. ASSUME HandlersInv, [HandlersNext]_vars PROVE [UpdatesApplied]_vars
  <2>0. CASE UNCHANGED target \/ there # "yes"
    BY <2>0 DEF UpdatesApplied
  <2>1. ASSUME NEW r \in Requests, SaveTarget(r), there = "yes" PROVE UpdatesApplied
    <3>1. Commits(r, "save patch")
      BY <1>1, <2>1, CommitIdles DEF SaveTarget, Commits, HandlersInv
    <3>2. PICK data, seen : data = req[r].patch /\ seen = req[r].seen
      OBVIOUS
    <3>3. /\ target'.type = Column(Kept(data.type, seen.type), seen.type, target.type)
          /\ target'.url = Column(Kept(data.url, seen.url), seen.url, target.url)
          /\ target'.enabled = Column(Kept(data.enabled, seen.enabled), seen.enabled, target.enabled)
          /\ target'.config = ConfigColumn(data, seen.config, target.config)
      BY <2>1, <3>2, SavedColumns
    <3>4. /\ target'.type \in {target.type, data.type}
          /\ target'.url \in {target.url, data.url}
          /\ target'.enabled \in {target.enabled, data.enabled}
      BY <3>3 DEF Column, Kept
    <3>5. CASE target'.config.key \in {target.config.key, GivenKey(data)}
      BY <3>1, <3>2, <3>4, <3>5 DEF UpdatesApplied, UpdatedBy
    <3>6. CASE target'.config.key \notin {target.config.key, GivenKey(data)}
      <4>1. /\ data \in Patch /\ seen.config \in Config
            /\ NewConfig(data, seen.config).key = Kept(GivenKey(data), seen.config.key)
            /\ NewConfig(data, seen.config).note = Kept(data.note, seen.config.note)
        BY <1>1, <3>2 DEF HandlersInv, HandlersTypeOK, Local, Row, NewConfig
      <4>2. target'.config = NewConfig(data, seen.config)
        BY <3>3, <3>6 DEF ConfigColumn, Column
      <4>3. GivenKey(data) = "keep" /\ target'.config.key = seen.config.key
        BY <3>6, <4>1, <4>2 DEF Kept
      <4>4. ~Encrypts(data) /\ NewConfig(data, seen.config) # seen.config
        <5>1. ~Encrypts(data)
          BY <4>3 DEF Encrypts, GivenKey
        <5> QED
          BY <3>3, <3>6, <5>1 DEF ConfigColumn, Column
      <4>5. data.note # "keep"
        <5> SUFFICES ASSUME data.note = "keep" PROVE FALSE
          OBVIOUS
        <5>1. NewConfig(data, seen.config) = [key |-> seen.config.key, note |-> seen.config.note]
          BY <4>3 DEF NewConfig, Kept
        <5>2. seen.config = [key |-> seen.config.key, note |-> seen.config.note]
          BY <4>1 DEF Config
        <5> QED
          BY <4>4, <5>1, <5>2
      <4>6. PutsKeyBack(r)
        BY <3>2, <3>6, <4>3, <4>5 DEF PutsKeyBack
      <4> QED
        BY <3>1, <3>2, <3>4, <4>6 DEF UpdatesApplied, UpdatedBy
    <3> QED
      BY <3>5, <3>6
  <2>2. \/ UNCHANGED target \/ there # "yes" \/ \E r \in Requests : SaveTarget(r)
    BY <1>1 DEF HandlersNext, HandlerStep, vars, Register, InsertUser, SaveRole, SetUserRole,
       LoadUser, CreateTarget, UpdateTarget, LoadTarget, DeleteTarget, LoadCampaigns,
       SaveDelete, StartCampaign, InitializeExperiment, Enqueue, Drop
  <2> QED
    BY <2>0, <2>1, <2>2
<1> QED
  BY <1>1, InvHolds, PTL DEF HandlersSpec, UpdatesKept

\* A campaign goes with its target only if it was created after delete_target
\* found none (targets.py, delete_target; campaign.py, initialize_experiment).
THEOREM CampaignsStayHolds == HandlersSpec => CampaignsStay
<1>1. ASSUME HandlersInv, [HandlersNext]_vars PROVE [CampaignsKept]_vars
  <2>1. ASSUME NEW r \in Requests, SaveDelete(r) PROVE CampaignsKept
    <3>1. HandlersTypeOK /\ LocalInv(r)
      BY <1>1 DEF HandlersInv
    <3>2. Commits(r, "save delete") /\ req[r].pc = "save delete"
      BY <2>1, <3>1, CommitIdles DEF SaveDelete, Commits, At
    <3> QED
      BY <3>1, <3>2 DEF LocalInv, CampaignsKept
  <2>2. CASE \A c \in Started : campaigns'[c] # "lost"
    BY <2>2 DEF CampaignsKept
  <2>3. ASSUME NEW r \in Requests, Enqueue(r) \/ InitializeExperiment(r)
        PROVE  \A c \in Started : campaigns'[c] # "lost"
    BY <1>1, <2>3 DEF Enqueue, InitializeExperiment, Started, HandlersInv, HandlersTypeOK
  <2>4. \/ UNCHANGED campaigns
        \/ \E r \in Requests : SaveDelete(r) \/ Enqueue(r) \/ InitializeExperiment(r)
    BY <1>1 DEF HandlersNext, HandlerStep, vars, Register, InsertUser, SaveRole, SetUserRole,
       LoadUser, CreateTarget, UpdateTarget, LoadTarget, SaveTarget, DeleteTarget,
       LoadCampaigns, StartCampaign, Drop
  <2>5. UNCHANGED campaigns => \A c \in Started : campaigns'[c] # "lost"
    BY DEF Started
  <2> QED
    BY <2>1, <2>2, <2>3, <2>4, <2>5
<1> QED
  BY <1>1, InvHolds, PTL DEF HandlersSpec, CampaignsStay
=============================================================================
