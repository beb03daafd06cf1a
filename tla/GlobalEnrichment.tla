-------------------------- MODULE GlobalEnrichment --------------------------
(***************************************************************************)
(* POST /enrichment/trigger: the products that miss a price or an image    *)
(* are listed by the product catalogue, and for each of their business     *)
(* types a job is to be made for every active source, of any tenant.  It   *)
(* composes the registry of sources, which changes meanwhile, and the      *)
(* service token, which it shares with the other callers of the catalogue. *)
(* What a scheduler and requests do with the jobs is in Scraping.          *)
(***************************************************************************)
EXTENDS SourceRegistry, ServiceToken

CONSTANTS
  BusinessTypes,   \* the types of the catalogue's products
  Triggers,        \* requests to enrich, all of them clients of the token
  NoTenant         \* uuid.Nil

ASSUME GlobalEnrichmentAssumption ==
  Triggers \subseteq Clients /\ NoTenant \notin Tenants

VARIABLES
  trig,   \* trig[c]: the business types and the sources left to request c
  jobs    \* the jobs made

vars == <<registryVars, tokenVars, trig, jobs>>

NoTrigger == [pc |-> "idle", types |-> {}, found |-> {}]

Init ==
  /\ RegistryInit /\ TokenInit
  /\ trig = [c \in Triggers |-> NoTrigger]
  /\ jobs = {}

(* Mutant of TriggerTypes: the type that the use case gives is known.      *)
TriggerTypesWithEnrichment == {"scheduled", "manual", "enrichment"}

TriggerTypes == {"scheduled", "manual"}

(* Mutant of NewScrapingJob: no trigger type is refused.                   *)
NewJobUnchecked(tenant, i, trigger) ==
  {[tenant |-> tenant, source |-> i, trigger |-> trigger]}

(* NewScrapingJob, which looks at the trigger type and at nothing else.    *)
NewScrapingJob(tenant, i, trigger) ==
  {[tenant |-> tenant, source |-> i, trigger |-> t] :
     t \in {trigger} \cap TriggerTypes}

(* The request asks for the token, to send one request with it.            *)
StartTrigger(c) ==
  /\ trig[c].pc = "idle"
  /\ Admit
  /\ Begin(c, 1)
  /\ trig' = [trig EXCEPT ![c].pc = "list"]
  /\ UNCHANGED <<sources, req, seed, jobs>>

(* ListNeedingEnrichment has answered; it may be about any of the types.   *)
Listed(c) ==
  /\ trig[c].pc = "list"
  /\ use[c].pc = "done"
  /\ End(c)
  /\ \E types \in SUBSET BusinessTypes :
       trig' = [trig EXCEPT ![c] = [@ EXCEPT !.pc = "types", !.types = types]]
  /\ UNCHANGED <<registryVars, jobs>>

(* It has failed, or the token was refused.                                *)
ListFailed(c) ==
  /\ trig[c].pc = "list"
  /\ use[c].pc = "failed"
  /\ End(c)
  /\ trig' = [trig EXCEPT ![c] = NoTrigger]
  /\ UNCHANGED <<registryVars, jobs>>

(* FindAllActiveByCategoryPlatform: the active sources of every tenant     *)
(* whose category is written like the type.                                *)
NextType(c, type) ==
  /\ trig[c].found = {}
  /\ trig' = [trig EXCEPT
       ![c].types = @ \ {type},
       ![c].found = {i \in Ids : /\ sources[i].active
                                 /\ sources[i].category = type}]
  /\ UNCHANGED <<registryVars, tokenVars, jobs>>

(* A query that fails costs the type its sources.                          *)
SkipType(c, type) ==
  /\ trig[c].found = {}
  /\ Fault
  /\ trig' = [trig EXCEPT ![c].types = @ \ {type}]
  /\ UNCHANGED <<sources, req, seed, tokenVars, jobs>>

(* One source after the other, whatever comes of its job.                  *)
CreateJob(c, i) ==
  /\ jobs' = jobs \cup NewScrapingJob(NoTenant, i, "enrichment")
  /\ trig' = [trig EXCEPT ![c].found = @ \ {i}]
  /\ UNCHANGED <<registryVars, tokenVars>>

Finish(c) ==
  /\ trig[c].pc = "types" /\ trig[c].types = {} /\ trig[c].found = {}
  /\ trig' = [trig EXCEPT ![c] = NoTrigger]
  /\ UNCHANGED <<registryVars, tokenVars, jobs>>

(* POST /sources/{id}/trigger: an active source of the caller's tenant.    *)
TriggerScrape(tenant, i) ==
  /\ sources[i].active /\ sources[i].tenant = tenant
  /\ Admit
  /\ jobs' = jobs \cup NewScrapingJob(tenant, i, "manual")
  /\ UNCHANGED <<sources, req, seed, tokenVars, trig>>

(* The other callers of the catalogue.                                     *)
StartLookup(c, n) ==
  /\ Admit
  /\ Begin(c, n)
  /\ UNCHANGED <<sources, req, seed, trig, jobs>>

EndLookup(c) ==
  /\ End(c)
  /\ UNCHANGED <<registryVars, trig, jobs>>

TriggerStep(c) ==
  \/ StartTrigger(c) \/ Listed(c) \/ ListFailed(c) \/ Finish(c)
  \/ \E type \in trig[c].types : NextType(c, type) \/ SkipType(c, type)
  \/ \E i \in trig[c].found : CreateJob(c, i)

Next ==
  \/ RegistryStep /\ UNCHANGED <<tokenVars, trig, jobs>>
  \/ Tick /\ UNCHANGED <<registryVars, trig, jobs>>
  \/ \E c \in Clients : CallStep(c) /\ UNCHANGED <<registryVars, trig, jobs>>
  \/ \E c \in Triggers : TriggerStep(c)
  \/ \E c \in Clients \ Triggers :
       EndLookup(c) \/ \E n \in 1 .. MaxLoop : StartLookup(c, n)
  \/ \E t \in Tenants, i \in Ids : TriggerScrape(t, i)

Spec == Init /\ [][Next]_vars
-----------------------------------------------------------------------------
(***************************************************************************)
(* Properties.                                                             *)
(***************************************************************************)
(* Beyond types: a source that a request, a job or a trigger refers to is  *)
(* never gone, because a deletion keeps the row.                           *)
TypeOK ==
  /\ RegistryTypeOK /\ TokenTypeOK
  /\ trig \in [Triggers -> [pc : {"idle", "list", "types"},
                            types : SUBSET BusinessTypes,
                            found : SUBSET Ids]]
  /\ jobs \subseteq [tenant : Tenants \cup {NoTenant}, source : Ids,
                     trigger : TriggerTypes]

(* No job carries another tenant than its source's, although the trigger   *)
(* crosses tenants and gives its jobs none: a worker would look for such a *)
(* source under the job's tenant and not find it (GET /jobs neither).      *)
JobsOfTheirTenant == \A j \in jobs : j.tenant = sources[j.source].tenant
=============================================================================
