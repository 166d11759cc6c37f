----------------------------- MODULE ModelCatalog -----------------------------
(***************************************************************************)
(* The catalog tables in PostgreSQL and their two writers: the one-time    *)
(* import of the configuration file at boot (catalog/import.rs), and the   *)
(* admin handlers (admin/models_api.rs, admin/catalog_api.rs) with the     *)
(* listing gate: every deployment of an enabled model has a pricing rule.  *)
(* The gate is check then act.  A handler reads in several queries and     *)
(* writes in several statements, with no transaction around them, so that  *)
(* each await is a step of its own.  The one transaction, set_deployments, *)
(* runs at PostgreSQL's default isolation: its DELETE removes the rows     *)
(* committed before it, and not those a transaction commits meanwhile.     *)
(*                                                                         *)
(* A pricing rule is the pair it is for; its rates decide nothing here.    *)
(* Validation of texts, and the refresh of the snapshot that ends a        *)
(* handler (SharedGatewayState), are left out.  MaxEvents bounds           *)
(* mutations, failing statements and restarts.                             *)
(***************************************************************************)
EXTENDS Integers, SequencesExt

CONSTANTS
  Tasks,           \* the mutations in flight at one time
  Providers, Models, Upstreams,
  RuleIds,
  None,
  FileProviders,   \* [[providers]] of the file, in order
  FileRules,       \* [[pricing]], in order
  Routes,          \* [[routes]]: sequences of providers
  Aliases,         \* model_aliases: a model's name at a provider, or None
  Chains,          \* the chains administrators submit
  RuleInputs,      \* the pairs administrators price
  MaxEvents

Wildcard == "*"
Pairs == (Providers \cup {Wildcard}) \X (Upstreams \cup {Wildcard})
Deployments == Providers \X Upstreams
Rows(c) == {<<c[i][1], c[i][2], i - 1>> : i \in DOMAIN c}

ASSUME FileAssumption ==
  /\ FileProviders \in Seq(Providers)
  /\ FileRules \in Seq(Pairs)
  /\ Routes \in Seq(Seq(Providers))
  /\ Aliases \in [Providers \X Models -> Upstreams \cup {None}]
ASSUME InputAssumption == Chains \subseteq Seq(Deployments) /\ RuleInputs \subseteq Pairs
ASSUME NoneAssumption == None \notin Models \cup Upstreams \cup RuleIds \cup Pairs
ASSUME BoundAssumption == MaxEvents \in Nat

VARIABLES
  providers,   \* the ids of the rows
  pricing,     \* the pair of each rule, None for an id that has no row
  status,      \* models.status, "absent" for a name that has no row
  chain,       \* model_deployments: provider, upstream model, priority
  boot,        \* the program counter of the import
  task,        \* the mutations in flight
  exposed,     \* history: models a raced or half-done mutation may have left unpriced
  populated,   \* history: the tables as this boot found them
  events

tables == <<providers, pricing, status, chain>>
vars == <<tables, boot, task, exposed, populated, events>>

-----------------------------------------------------------------------------
(* pricing_rule_for, uncovered_deployments: exact pair, provider with any  *)
(* model, any provider with the model, anything.                           *)
Lookup(d) == {<<d[1], d[2]>>, <<d[1], Wildcard>>, <<Wildcard, d[2]>>, <<Wildcard, Wildcard>>}
Uncovered(deployments, rules) == {d \in deployments : Lookup(d) \cap rules = {}}

Rules == {pricing[id] : id \in RuleIds} \ {None}
InUse(p) == \E m \in Models : \E d \in chain[m] : d[1] = p

(* An id that no row has and no request names stands for a new UUID.       *)
NewId(id) == pricing[id] = None /\ \A t \in DOMAIN task : task[t].rule # id
Priced(m) == chain[m] # {} /\ Uncovered(chain[m], Rules) = {}

(* No provider twice in a chain.                                           *)
OnePerProvider(c) == \A i, j \in DOMAIN c : c[i][1] = c[j][1] => i = j

Idle == [step |-> "idle", model |-> None, new |-> FALSE, chain |-> <<>>, enabled |-> FALSE,
         unseen |-> {}, rule |-> None, pair |-> None, rules |-> {}, listed |-> {},
         alone |-> TRUE]

Tables == [providers |-> providers, rules |-> Rules, status |-> status, chain |-> chain]
NoTables == [providers |-> {}, rules |-> {},
             status |-> [m \in Models |-> "absent"], chain |-> [m \in Models |-> {}]]

Boot(step) == [step |-> step, todo |-> <<>>, names |-> {}, name |-> None]
Serving == boot.step = "serving"

Init ==
  /\ providers = {}
  /\ pricing = [id \in RuleIds |-> None]
  /\ status = [m \in Models |-> "absent"]
  /\ chain = [m \in Models |-> {}]
  /\ boot = Boot("count_providers")
  /\ task = [t \in Tasks |-> Idle]
  /\ exposed = {}
  /\ populated = NoTables
  /\ events = 0

Event == events < MaxEvents /\ events' = events + 1

-----------------------------------------------------------------------------
(* import_config_once: a table that is empty is filled, one row at a time. *)

CountProviders ==
  /\ boot.step = "count_providers"
  /\ boot' = [Boot("import_providers") EXCEPT !.todo = IF providers = {} THEN FileProviders ELSE <<>>]
  /\ UNCHANGED <<tables, task, exposed, populated, events>>

ImportProvider ==
  /\ boot.step = "import_providers" /\ boot.todo # <<>>
  /\ Head(boot.todo) \notin providers
  /\ providers' = providers \cup {Head(boot.todo)}
  /\ boot' = [boot EXCEPT !.todo = Tail(@)]
  /\ UNCHANGED <<pricing, status, chain, task, exposed, populated, events>>

RulesToImportAlways == FileRules
RulesToImport == IF Rules = {} THEN FileRules ELSE <<>>

CountPricing ==
  /\ boot.step = "import_providers" /\ boot.todo = <<>>
  /\ boot' = [Boot("import_pricing") EXCEPT !.todo = RulesToImport]
  /\ UNCHANGED <<tables, task, exposed, populated, events>>

ImportRule ==
  /\ boot.step = "import_pricing" /\ boot.todo # <<>>
  /\ Head(boot.todo) \notin Rules
  /\ \E id \in RuleIds : NewId(id) /\ pricing' = [pricing EXCEPT ![id] = Head(boot.todo)]
  /\ boot' = [boot EXCEPT !.todo = Tail(@)]
  /\ UNCHANGED <<providers, status, chain, task, exposed, populated, events>>

(* migrate_routes_once: a model for each alias of a routed provider, its   *)
(* chain in the order the routes first name the providers.                 *)
ExtendedWithRepeats(c, p, m) ==
  IF p \in providers /\ Aliases[<<p, m>>] # None THEN Append(c, <<p, Aliases[<<p, m>>]>>)
  ELSE c
Extended(c, p, m) ==
  IF /\ p \in providers /\ Aliases[<<p, m>>] # None
     /\ \A i \in DOMAIN c : c[i][1] # p
    THEN Append(c, <<p, Aliases[<<p, m>>]>>)
    ELSE c

Derived(m) ==
  LET named == FlattenSeq(Routes)
      after[n \in 0 .. Len(named)] ==
        IF n = 0 THEN <<>> ELSE Extended(after[n - 1], named[n], m)
  IN  after[Len(named)]

Serve == boot' = Boot("serving") /\ populated' = NoTables

CountModels ==
  /\ boot.step = "import_pricing" /\ boot.todo = <<>>
  /\ IF Routes = <<>> \/ \E m \in Models : status[m] # "absent"
     THEN Serve
     ELSE /\ boot' = [Boot("migrate") EXCEPT !.names = {m \in Models : Derived(m) # <<>>}]
          /\ UNCHANGED populated
  /\ UNCHANGED <<tables, task, exposed, events>>

MigrateModel ==
  /\ boot.step = "migrate"
  /\ \E m \in boot.names :
       /\ status' = [status EXCEPT ![m] = "disabled"]
       /\ boot' = [boot EXCEPT !.step = "migrate_chain", !.name = m, !.names = @ \ {m}]
  /\ UNCHANGED <<providers, pricing, chain, task, exposed, populated, events>>

MigrateChain ==
  /\ boot.step = "migrate_chain"
  /\ chain' = [chain EXCEPT ![boot.name] = Rows(Derived(boot.name))]
  /\ boot' = [boot EXCEPT !.step = "migrate_status"]
  /\ UNCHANGED <<providers, pricing, status, task, exposed, populated, events>>

MigrateStatus ==
  /\ boot.step = "migrate_status"
  /\ status' = [status EXCEPT ![boot.name] =
                   IF Uncovered(ToSet(Derived(boot.name)), Rules) = {} THEN "enabled" ELSE @]
  /\ boot' = [boot EXCEPT !.step = "migrate", !.name = None]
  /\ UNCHANGED <<providers, pricing, chain, task, exposed, populated, events>>

FinishBoot ==
  /\ boot.step = "migrate" /\ boot.names = {}
  /\ Serve
  /\ UNCHANGED <<tables, task, exposed, events>>

-----------------------------------------------------------------------------
(* create_model and update_model.                                          *)

Begin(t, mutation) ==
  /\ Serving /\ task[t].step = "idle"
  /\ Event
  /\ task' = [task EXCEPT ![t] = mutation]
  /\ UNCHANGED <<tables, boot, exposed, populated>>

CreateModel(t, m, c, on) ==
  Begin(t, [Idle EXCEPT !.step = "list_providers", !.model = m, !.new = TRUE,
                        !.chain = c, !.enabled = on])

UpdateModel(t, m, c, on) ==
  /\ status[m] # "absent"
  /\ Begin(t, [Idle EXCEPT !.step = "list_providers", !.model = m,
                           !.chain = c, !.enabled = on])

Goto(t, step) == task' = [task EXCEPT ![t].step = step]
End(t) == task' = [task EXCEPT ![t] = Idle]

(* The task goes on as said; others read what it is writing.               *)
GoesOn(t, next, others) ==
  task' = [o \in Tasks |-> IF o = t THEN next
                           ELSE IF o \in others THEN [task[o] EXCEPT !.alone = FALSE]
                           ELSE task[o]]

MutatesPricing(t) == task[t].rule # None
MutatesModel(t, m) == task[t].model = m

FirstWrite(t) == IF task[t].new THEN "insert_model" ELSE "set_deployments"

ValidateDeployments(t) ==
  /\ task[t].step = "list_providers"
  /\ IF OnePerProvider(task[t].chain) /\ \A d \in ToSet(task[t].chain) : d[1] \in providers
     THEN Goto(t, IF task[t].enabled THEN "list_pricing" ELSE FirstWrite(t))
     ELSE End(t)
  /\ UNCHANGED <<tables, boot, exposed, populated, events>>

Listable(c) == c # <<>> /\ Uncovered(ToSet(c), Rules) = {}

EnsureListable(t) ==
  /\ task[t].step = "list_pricing"
  /\ IF Listable(task[t].chain) THEN Goto(t, FirstWrite(t)) ELSE End(t)
  /\ UNCHANGED <<tables, boot, exposed, populated, events>>

InsertModel(t) ==
  LET m == task[t].model IN
  /\ task[t].step = "insert_model"
  /\ IF status[m] = "absent"
     THEN status' = [status EXCEPT ![m] = "disabled"] /\ Goto(t, "set_deployments")
     ELSE UNCHANGED status /\ End(t)
  /\ UNCHANGED <<providers, pricing, chain, boot, exposed, populated, events>>

(* set_deployments: the DELETE, and the INSERTs with their COMMIT.  A model *)
(* that is gone before it is no error.                                     *)
AfterChain(t) ==
  IF task[t].new /\ ~task[t].enabled THEN Idle ELSE [task[t] EXCEPT !.step = "set_status"]

ClearDeployments(t) ==
  /\ task[t].step = "set_deployments"
  /\ task' = [task EXCEPT ![t] = IF status[task[t].model] = "absent" THEN AfterChain(t)
                                 ELSE [@ EXCEPT !.step = "insert_deployments"]]
  /\ UNCHANGED <<tables, boot, exposed, populated, events>>

(* The rows of a transaction that committed after the DELETE began stay;   *)
(* the unique constraint and the foreign keys may refuse the new ones.     *)
Commits(t, m, rows) ==
  LET kept == {d \in chain[m] : d \in task[t].unseen} IN
  /\ status[m] # "absent"
  /\ \A d \in rows : d[1] \in providers /\ \A k \in kept : k[1] # d[1]
  /\ chain' = [chain EXCEPT ![m] = kept \cup rows]
  /\ task' = [o \in Tasks |->
               IF o = t THEN AfterChain(t)
               ELSE IF MutatesModel(o, m)
               THEN [task[o] EXCEPT !.alone = FALSE,
                                    !.unseen = IF task[o].step = "insert_deployments"
                                               THEN @ \cup rows ELSE @]
               ELSE IF MutatesPricing(o) THEN [task[o] EXCEPT !.alone = FALSE]
               ELSE task[o]]
  /\ exposed' = IF task[t].alone THEN exposed ELSE exposed \cup {m}

InsertDeployments(t) ==
  LET m == task[t].model  rows == Rows(task[t].chain) IN
  /\ task[t].step = "insert_deployments"
  /\ \/ Commits(t, m, rows)
     \/ /\ \/ status[m] = "absent"
           \/ \E d \in rows : d[1] \notin providers
                             \/ \E k \in chain[m] \cap task[t].unseen : k[1] = d[1]
        /\ End(t)
        /\ UNCHANGED <<chain, exposed>>
  /\ UNCHANGED <<providers, pricing, status, boot, populated, events>>

SetStatus(t) ==
  LET m == task[t].model IN
  /\ task[t].step = "set_status"
  /\ \/ status[m] = "absent" /\ End(t) /\ UNCHANGED <<status, exposed>>
     \/ /\ status[m] # "absent"
        /\ status' = [status EXCEPT ![m] = IF task[t].enabled THEN "enabled" ELSE "disabled"]
        /\ GoesOn(t, Idle, {o \in Tasks : MutatesModel(o, m) \/ MutatesPricing(o)})
        /\ exposed' = IF task[t].alone \/ ~task[t].enabled THEN exposed \ {m} ELSE exposed \cup {m}
  /\ UNCHANGED <<providers, pricing, chain, boot, populated, events>>

DeleteModel(m) ==
  /\ Serving /\ status[m] # "absent"
  /\ Event
  /\ status' = [status EXCEPT ![m] = "absent"]
  /\ chain' = [chain EXCEPT ![m] = {}]
  /\ task' = [o \in Tasks |-> IF MutatesModel(o, m) THEN [task[o] EXCEPT !.alone = FALSE]
                               ELSE task[o]]
  /\ UNCHANGED <<providers, pricing, boot, exposed, populated>>

-----------------------------------------------------------------------------
(* Pricing rules: update and delete run the gate over the enabled models,  *)
(* read in three queries.  A pair of None deletes the rule.                *)

CreatePricing(id, p) ==
  /\ Serving /\ NewId(id) /\ p \notin Rules
  /\ Event
  /\ pricing' = [pricing EXCEPT ![id] = p]
  /\ UNCHANGED <<providers, status, chain, boot, task, exposed, populated>>

ChangePricing(t, id, p) ==
  Begin(t, [Idle EXCEPT !.step = "gate_pricing", !.rule = id, !.pair = p])

ReadRules(t) ==
  /\ task[t].step = "gate_pricing"
  /\ LET kept == {pricing[id] : id \in RuleIds \ {task[t].rule}} IN
     task' = [task EXCEPT ![t].step = "gate_models",
                          ![t].rules = (kept \cup {task[t].pair}) \ {None}]
  /\ UNCHANGED <<tables, boot, exposed, populated, events>>

ReadModels(t) ==
  /\ task[t].step = "gate_models"
  /\ task' = [task EXCEPT ![t].step = "gate_deployments",
                          ![t].listed = {m \in Models : status[m] = "enabled"}]
  /\ UNCHANGED <<tables, boot, exposed, populated, events>>

ReadDeploymentsOfFirst(t) ==
  /\ task[t].step = "gate_deployments"
  /\ IF task[t].listed = {} \/ \E m \in task[t].listed : Uncovered(chain[m], task[t].rules) = {}
     THEN Goto(t, "write_pricing") ELSE End(t)
  /\ UNCHANGED <<tables, boot, exposed, populated, events>>

ReadDeployments(t) ==
  /\ task[t].step = "gate_deployments"
  /\ IF \A m \in task[t].listed : Uncovered(chain[m], task[t].rules) = {}
     THEN Goto(t, "write_pricing") ELSE End(t)
  /\ UNCHANGED <<tables, boot, exposed, populated, events>>

Conflicts(id, p) == p # None /\ \E other \in RuleIds \ {id} : pricing[other] = p

WritePricing(t) ==
  LET id == task[t].rule  p == task[t].pair IN
  /\ task[t].step = "write_pricing"
  /\ IF pricing[id] = None \/ Conflicts(id, p)
     THEN End(t) /\ UNCHANGED <<pricing, exposed>>
     ELSE /\ pricing' = [pricing EXCEPT ![id] = p]
          /\ GoesOn(t, Idle, {o \in Tasks : task[o].step # "idle"})
          /\ exposed' = IF task[t].alone THEN exposed
                        ELSE exposed \cup {m \in Models : status[m] = "enabled"}
  /\ UNCHANGED <<providers, status, chain, boot, populated, events>>

-----------------------------------------------------------------------------
CreateProvider(p) ==
  /\ Serving /\ p \notin providers
  /\ Event
  /\ providers' = providers \cup {p}
  /\ UNCHANGED <<pricing, status, chain, boot, task, exposed, populated>>

DeleteProvider(p) ==
  /\ Serving /\ p \in providers /\ ~InUse(p)
  /\ Event
  /\ providers' = providers \ {p}
  /\ UNCHANGED <<pricing, status, chain, boot, task, exposed, populated>>

(* Between the new chain of a model and the status that disables it, the   *)
(* model is still enabled.                                                 *)
Disabling(t) == task[t].step = "set_status" /\ ~task[t].enabled
LeftOpen(ts) == {task[t].model : t \in {o \in ts : Disabling(o)}}

(* A statement fails, or the client hangs up.                              *)
Fail(t) ==
  /\ task[t].step # "idle"
  /\ Event
  /\ End(t)
  /\ exposed' = exposed \cup LeftOpen({t})
  /\ UNCHANGED <<tables, boot, populated>>

(* The process dies, or boot fails; it starts again.                       *)
Restart ==
  /\ Event
  /\ boot' = Boot("count_providers")
  /\ populated' = Tables
  /\ task' = [t \in Tasks |-> Idle]
  /\ exposed' = exposed \cup LeftOpen(Tasks)
  /\ UNCHANGED tables

-----------------------------------------------------------------------------
BootStep ==
  \/ CountProviders \/ ImportProvider \/ CountPricing \/ ImportRule \/ CountModels
  \/ MigrateModel \/ MigrateChain \/ MigrateStatus \/ FinishBoot

ModelStep(t) ==
  \/ \E m \in Models, c \in Chains, on \in BOOLEAN :
       CreateModel(t, m, c, on) \/ UpdateModel(t, m, c, on)
  \/ ValidateDeployments(t) \/ EnsureListable(t)
  \/ InsertModel(t) \/ ClearDeployments(t) \/ InsertDeployments(t) \/ SetStatus(t)

PricingStep(t) ==
  \/ \E id \in RuleIds, p \in RuleInputs \cup {None} : ChangePricing(t, id, p)
  \/ ReadRules(t) \/ ReadModels(t) \/ ReadDeployments(t) \/ WritePricing(t)

Next ==
  \/ BootStep
  \/ \E t \in Tasks : ModelStep(t) \/ PricingStep(t) \/ Fail(t)
  \/ \E m \in Models : DeleteModel(m)
  \/ \E id \in RuleIds, p \in RuleInputs : CreatePricing(id, p)
  \/ \E p \in Providers : CreateProvider(p) \/ DeleteProvider(p)
  \/ Restart

Spec == Init /\ [][Next]_vars

-----------------------------------------------------------------------------
(* Properties.                                                             *)

(* Every variable has its type, no two rules price the same pair, and a    *)
(* chain names no provider twice, nor one that does not exist.             *)
TypeOK ==
  /\ providers \subseteq Providers
  /\ pricing \in [RuleIds -> Pairs \cup {None}]
  /\ \A i, j \in RuleIds : pricing[i] # None /\ pricing[i] = pricing[j] => i = j
  /\ status \in [Models -> {"absent", "disabled", "enabled"}]
  /\ chain \in [Models -> SUBSET (Providers \X Upstreams \X Nat)]
  /\ \A m \in Models : \A d \in chain[m] :
       /\ d[1] \in providers
       /\ \A e \in chain[m] : d[1] = e[1] => d = e
  /\ boot.step \in {"count_providers", "import_providers", "import_pricing", "migrate",
                    "migrate_chain", "migrate_status", "serving"}
  /\ boot.names \subseteq Models /\ boot.name \in Models \cup {None}
  /\ \A t \in Tasks :
       /\ task[t].step \in {"idle", "list_providers", "list_pricing", "insert_model",
                            "set_deployments", "insert_deployments", "set_status",
                            "gate_pricing", "gate_models", "gate_deployments", "write_pricing"}
       /\ task[t].model \in Models \cup {None} /\ task[t].rule \in RuleIds \cup {None}
       /\ task[t].chain \in Seq(Deployments)
       /\ task[t].unseen \subseteq Providers \X Upstreams \X Nat
       /\ task[t].rules \subseteq Pairs /\ task[t].listed \subseteq Models
  /\ exposed \subseteq Models
  /\ events \in 0 .. MaxEvents

(* "every deployment of an enabled model must resolve a rule"              *)
(* (catalog/mod.rs:48-49), as far as check-then-act can promise it: an     *)
(* enabled model is priced, unless the last mutation that could have       *)
(* uncovered it raced one that changed what its gate had read, or stopped  *)
(* between its statements, or is about to disable the model.  Mutations of *)
(* other models, new rules, providers and the import disturb nothing.      *)
EnabledIsPricedUnlessRaced ==
  \A m \in Models \ exposed :
    status[m] = "enabled" => Priced(m) \/ m \in LeftOpen(Tasks)

(* "Replaces a model's deployment chain wholesale, in the given order      *)
(* (index = priority)" (catalog/store.rs:66-67): the priorities of a       *)
(* chain of n deployments are 0 to n-1.                                    *)
ChainsAreReplacedWholesale ==
  \A m \in Models : {d[3] : d \in chain[m]} = 0 .. Cardinality(chain[m]) - 1

(* "Import is idempotent - it never runs against populated tables"         *)
(* (catalog/import.rs:15-16): whatever died before, in an import or        *)
(* between the statements of a handler, a boot changes no table that had a *)
(* row when it began.                                                      *)
ImportLeavesPopulatedTables ==
  ~Serving =>
    /\ populated.providers # {} => providers = populated.providers
    /\ populated.rules # {} => Rules = populated.rules
    /\ populated.status # NoTables.status
         => status = populated.status /\ chain = populated.chain
=============================================================================
