------------------------- MODULE ModelCatalog_proofs -------------------------
(***************************************************************************)
(* What the listing gate promises, that the import leaves populated tables *)
(* alone, and the types of the catalog, chains without repetitions among   *)
(* them, proved for any tasks, models, providers, rules and routes.        *)
(***************************************************************************)
EXTENDS ModelCatalog, SequenceTheorems, WellFoundedInduction, TLAPS

ModelSteps == {"list_providers", "list_pricing", "insert_model", "set_deployments",
               "insert_deployments", "set_status"}
PricingSteps == {"gate_pricing", "gate_models", "gate_deployments", "write_pricing"}

TaskRecord ==
  [step : {"idle"} \cup ModelSteps \cup PricingSteps,
   model : Models \cup {None}, new : BOOLEAN, chain : Seq(Deployments), enabled : BOOLEAN,
   unseen : SUBSET (Providers \X Upstreams \X Nat),
   rule : RuleIds \cup {None}, pair : Pairs \cup {None}, rules : SUBSET Pairs,
   listed : SUBSET Models, alone : BOOLEAN]

(* As much of the types as the argument needs.                             *)
Shape ==
  /\ pricing \in [RuleIds -> Pairs \cup {None}]
  /\ status \in [Models -> {"absent", "disabled", "enabled"}]
  /\ chain = [m \in Models |-> chain[m]]
  /\ boot = [step |-> boot.step, todo |-> boot.todo, names |-> boot.names, name |-> boot.name]
  /\ boot.names \subseteq Models
  /\ task \in [Tasks -> TaskRecord]
  /\ exposed \subseteq Models

(* The listener opens after the import.                                    *)
Quiet == ~Serving => \A t \in Tasks : task[t].step = "idle"

(* What the import relies on when it enables a model.                      *)
Migrating == boot.step \in {"migrate_chain", "migrate_status"}
BootKnows ==
  /\ boot.names # {} => boot.step \in {"migrate", "migrate_chain", "migrate_status"}
  /\ \A m \in boot.names : Derived(m) # <<>>
  /\ Migrating => /\ boot.name \in Models
                  /\ Derived(boot.name) # <<>>
                  /\ status[boot.name] = "disabled"
  /\ boot.step = "migrate_status" => chain[boot.name] = Rows(Derived(boot.name))
  /\ boot.step = "import_pricing" => boot.todo \in Seq(Pairs)

Role(t) ==
  /\ task[t].step \in ModelSteps => task[t].model \in Models
  /\ task[t].step \in PricingSteps => task[t].rule \in RuleIds

(* What a model mutation that nothing interfered with knows at each step.  *)
Inserted(t) == task[t].step \in {"set_deployments", "insert_deployments", "set_status"}
KnowsModel(t) ==
  LET m == task[t].model IN
  /\ task[t].unseen = {}
  /\ Inserted(t) => status[m] # "absent" /\ (task[t].new => status[m] = "disabled")
  /\ task[t].step \in ModelSteps /\ ~task[t].new => status[m] # "absent"
  /\ task[t].enabled =>
       /\ task[t].step \in {"insert_model", "set_deployments", "insert_deployments"}
            => Listable(task[t].chain)
       /\ task[t].step = "set_status" => Priced(m)

(* What a pricing mutation knows: the rules it gated are no more than those *)
(* its write will leave, and they cover every enabled model.               *)
Enabled == {m \in Models : status[m] = "enabled"}
Candidate(t) ==
  ({pricing[id] : id \in RuleIds \ {task[t].rule}} \cup {task[t].pair}) \ {None}
KnowsPricing(t) ==
  /\ task[t].step \in {"gate_models", "gate_deployments", "write_pricing"}
       => task[t].rules \subseteq Candidate(t)
  /\ task[t].step = "gate_deployments" => Enabled \subseteq task[t].listed
  /\ task[t].step = "write_pricing"
       => \A m \in Enabled : Uncovered(chain[m], task[t].rules) = {}

Knows(t) == task[t].alone => KnowsModel(t) /\ KnowsPricing(t)

IInv ==
  /\ Shape /\ Quiet /\ BootKnows
  /\ \A t \in Tasks : Role(t) /\ Knows(t)
  /\ EnabledIsPricedUnlessRaced

-----------------------------------------------------------------------------
(* Coverage and rows.                                                      *)

(* More rules cover no less.                                               *)
LEMMA MoreRulesCover ==
  ASSUME NEW deployments, NEW few, NEW many, few \subseteq many,
         Uncovered(deployments, few) = {}
  PROVE  Uncovered(deployments, many) = {}
  BY DEF Uncovered

(* The rows of a chain that is covered are covered.                        *)
LEMMA RowsAreCovered ==
  ASSUME NEW c, NEW rules, Uncovered(ToSet(c), rules) = {}
  PROVE  Uncovered(Rows(c), rules) = {}
<1> SUFFICES ASSUME NEW d \in Rows(c) PROVE Lookup(d) \cap rules # {}
  BY DEF Uncovered
<1>1. PICK i \in DOMAIN c : d = <<c[i][1], c[i][2], i - 1>>
  BY DEF Rows
<1>2. Lookup(d) = Lookup(c[i])
  BY <1>1 DEF Lookup
<1>3. c[i] \in ToSet(c)
  BY DEF ToSet
<1> QED
  BY <1>2, <1>3 DEF Uncovered

(* A chain of at least one deployment has a row.                           *)
LEMMA ChainHasRows ==
  ASSUME NEW c \in Seq(Deployments), c # <<>>
  PROVE  Rows(c) # {}
<1>1. 1 \in DOMAIN c
  OBVIOUS
<1> QED
  BY <1>1 DEF Rows

-----------------------------------------------------------------------------
(* A set that holds 0, and n + 1 with n, holds every number.               *)
LEMMA SetOfAllNumbers ==
  ASSUME NEW L, 0 \in L, \A n \in Nat : n \in L => n + 1 \in L
  PROVE  Nat \subseteq L
<1> DEFINE less == {ss \in Nat \X Nat : ss[1] < ss[2]}
           bad == {n \in Nat : n \notin L}
<1> SUFFICES ASSUME bad # {} PROVE FALSE
  OBVIOUS
<1>1. IsWellFoundedOn(less, Nat)
  BY NatLessThanWellFounded DEF OpToRel
<1>2. bad \subseteq Nat
  OBVIOUS
<1> HIDE DEF less
<1>3. PICK n \in bad : \A k \in bad : <<k, n>> \notin less
  <2> HIDE DEF bad
  <2> QED
    BY <1>1, <1>2, WFMin
<1>4. n \in Nat /\ n # 0 /\ n - 1 \in Nat
  BY <1>3
<1>5. <<n - 1, n>> \in less
  BY <1>4 DEF less
<1> QED
  BY <1>3, <1>4, <1>5

(* The routes end to end are a sequence of their providers.                *)
IsFlattening(flatten, seqs, n) ==
  flatten = [i \in 1 .. n |-> IF i = 1 THEN seqs[i] ELSE flatten[i - 1] \o seqs[i]]

LEMMA FlattenType ==
  ASSUME NEW S, NEW seqs \in Seq(Seq(S))
  PROVE  FlattenSeq(seqs) \in Seq(S)
<1>1. Len(seqs) \in Nat /\ DOMAIN seqs = 1 .. Len(seqs) /\ \A i \in 1 .. Len(seqs) : seqs[i] \in Seq(S)
  BY LenProperties
<1> DEFINE L == {n \in Nat : \E flatten : IsFlattening(flatten, seqs, n)}
<1>2. 0 \in L
  <2>1. IsFlattening([i \in 1 .. 0 |-> <<>>], seqs, 0)
    BY DEF IsFlattening
  <2> QED
    BY <2>1
<1>3. ASSUME NEW n \in Nat, n \in L PROVE n + 1 \in L
  <2>1. PICK before : IsFlattening(before, seqs, n)
    BY <1>3
  <2> DEFINE end == IF n = 0 THEN seqs[1] ELSE before[n] \o seqs[n + 1]
             after == [i \in 1 .. n + 1 |-> IF i = n + 1 THEN end ELSE before[i]]
  <2>2. ASSUME NEW i \in 1 .. n + 1
        PROVE  after[i] = IF i = 1 THEN seqs[i] ELSE after[i - 1] \o seqs[i]
    <3>1. CASE i = n + 1
      <4>1. after[i] = end /\ (i # 1 => after[i - 1] = before[n])
        BY <3>1
      <4> HIDE DEF after
      <4> QED
        BY <3>1, <4>1
    <3>2. CASE i # n + 1
      <4>1. i \in 1 .. n /\ after[i] = before[i] /\ (i # 1 => after[i - 1] = before[i - 1])
        BY <3>2
      <4>2. before[i] = IF i = 1 THEN seqs[i] ELSE before[i - 1] \o seqs[i]
        BY <2>1, <4>1 DEF IsFlattening
      <4> HIDE DEF after
      <4> QED
        BY <4>1, <4>2
    <3> QED
      BY <3>1, <3>2
  <2>3. after = [i \in 1 .. n + 1 |-> after[i]]
    OBVIOUS
  <2> HIDE DEF after
  <2>4. IsFlattening(after, seqs, n + 1)
    BY <2>2, <2>3 DEF IsFlattening
  <2> QED
    BY <2>4
<1> HIDE DEF L
<1>4. Nat \subseteq L
  BY <1>2, <1>3, SetOfAllNumbers
<1> DEFINE n == Len(seqs)
           flatten == CHOOSE f : IsFlattening(f, seqs, n)
<1>5. IsFlattening(flatten, seqs, n)
  BY <1>1, <1>4 DEF L
<1>6. n # 0 => FlattenSeq(seqs) = flatten[n]
  BY DEF FlattenSeq, IsFlattening
<1>7. n = 0 => FlattenSeq(seqs) = seqs /\ seqs = <<>>
  BY <1>1, EmptySeq DEF FlattenSeq
<1> HIDE DEF flatten
<1> DEFINE G == {i \in Nat : i \in 1 .. n => flatten[i] \in Seq(S)}
<1>8. 0 \in G
  OBVIOUS
<1>9. ASSUME NEW i \in Nat, i \in G PROVE i + 1 \in G
  <2> SUFFICES ASSUME i + 1 \in 1 .. n PROVE flatten[i + 1] \in Seq(S)
    OBVIOUS
  <2>1. flatten[i + 1] = IF i + 1 = 1 THEN seqs[i + 1] ELSE flatten[(i + 1) - 1] \o seqs[i + 1]
    BY <1>5 DEF IsFlattening
  <2>2. CASE i = 0
    BY <1>1, <2>1, <2>2
  <2>3. CASE i # 0
    <3>1. i \in 1 .. n /\ (i + 1) - 1 = i
      BY <1>1, <2>3
    <3>2. flatten[i] \in Seq(S) /\ seqs[i + 1] \in Seq(S)
      BY <1>1, <1>9, <3>1
    <3> QED
      BY <2>1, <2>3, <3>1, <3>2
  <2> QED
    BY <2>2, <2>3
<1> HIDE DEF G
<1>10. Nat \subseteq G
  BY <1>8, <1>9, SetOfAllNumbers
<1>11. n # 0 => flatten[n] \in Seq(S)
  BY <1>1, <1>10 DEF G
<1> QED
  BY <1>6, <1>7, <1>11, EmptySeq

(* A derived chain is one of deployments to existing providers, none twice.*)
Aliased(m) == {<<p, Aliases[<<p, m>>]>> : p \in {q \in providers : Aliases[<<q, m>>] # None}}

LEMMA ExtendedType ==
  ASSUME NEW m, NEW p, NEW c \in Seq(Aliased(m)), OnePerProvider(c)
  PROVE  Extended(c, p, m) \in Seq(Aliased(m)) /\ OnePerProvider(Extended(c, p, m))
<1>1. CASE Extended(c, p, m) = c
  BY <1>1
<1>2. CASE Extended(c, p, m) # c
  <2> DEFINE d == <<p, Aliases[<<p, m>>]>>
             longer == Append(c, d)
  <2>1. /\ Extended(c, p, m) = longer
        /\ p \in providers /\ Aliases[<<p, m>>] # None
        /\ \A i \in DOMAIN c : c[i][1] # p
    BY <1>2 DEF Extended
  <2>2. d \in Aliased(m)
    BY <2>1 DEF Aliased
  <2> DEFINE S == Aliased(m)
  <2> HIDE DEF S
  <2>3. /\ longer \in Seq(S) /\ Len(longer) = Len(c) + 1 /\ Len(c) \in Nat
        /\ DOMAIN c = 1 .. Len(c) /\ DOMAIN longer = 1 .. Len(c) + 1
        /\ longer[Len(c) + 1] = d /\ \A i \in 1 .. Len(c) : longer[i] = c[i]
    <3>1. c \in Seq(S) /\ d \in S
      BY <2>2 DEF S
    <3> HIDE DEF d
    <3> QED
      BY <3>1, AppendProperties, LenProperties
  <2>4. d[1] = p
    OBVIOUS
  <2> HIDE DEF longer, d
  <2>5. ASSUME NEW i \in DOMAIN longer, NEW j \in DOMAIN longer, longer[i][1] = longer[j][1]
        PROVE  i = j
    <3>1. CASE i = Len(c) + 1 /\ j = Len(c) + 1
      BY <3>1
    <3>2. CASE i \in DOMAIN c /\ j \in DOMAIN c
      BY <2>3, <2>5, <3>2 DEF OnePerProvider
    <3>3. CASE i = Len(c) + 1 /\ j \in DOMAIN c
      BY <2>1, <2>3, <2>4, <2>5, <3>3
    <3>4. CASE j = Len(c) + 1 /\ i \in DOMAIN c
      BY <2>1, <2>3, <2>4, <2>5, <3>4
    <3> QED
      BY <2>3, <3>1, <3>2, <3>3, <3>4
  <2> QED
    BY <2>1, <2>3, <2>5 DEF OnePerProvider, S
<1> QED
  BY <1>1, <1>2

IsDerivation(after, named, m, n) ==
  after = [k \in 0 .. n |-> IF k = 0 THEN <<>> ELSE Extended(after[k - 1], named[k], m)]

LEMMA DerivedType ==
  ASSUME NEW m
  PROVE  Derived(m) \in Seq(Aliased(m)) /\ OnePerProvider(Derived(m))
<1> DEFINE named == FlattenSeq(Routes)
           n == Len(named)
<1>1. n \in Nat
  <2>1. named \in Seq(Providers)
    BY FileAssumption, FlattenType
  <2> QED
    BY <2>1, LenProperties
<1> DEFINE L == {k \in Nat : \E after : IsDerivation(after, named, m, k)}
<1>2. 0 \in L
  <2>1. IsDerivation([k \in 0 .. 0 |-> <<>>], named, m, 0)
    BY DEF IsDerivation
  <2> QED
    BY <2>1
<1>3. ASSUME NEW k \in Nat, k \in L PROVE k + 1 \in L
  <2>1. PICK before : IsDerivation(before, named, m, k)
    BY <1>3
  <2> DEFINE end == Extended(before[k], named[k + 1], m)
             after == [i \in 0 .. k + 1 |-> IF i = k + 1 THEN end ELSE before[i]]
  <2> HIDE DEF named
  <2>2. ASSUME NEW i \in 0 .. k + 1
        PROVE  after[i] = IF i = 0 THEN <<>> ELSE Extended(after[i - 1], named[i], m)
    <3>1. CASE i = k + 1
      <4>1. after[i] = end /\ after[i - 1] = before[k] /\ i # 0
        BY <3>1
      <4> HIDE DEF after
      <4> QED
        BY <3>1, <4>1
    <3>2. CASE i # k + 1
      <4>1. i \in 0 .. k /\ after[i] = before[i] /\ (i # 0 => after[i - 1] = before[i - 1])
        BY <3>2
      <4>2. before[i] = IF i = 0 THEN <<>> ELSE Extended(before[i - 1], named[i], m)
        BY <2>1, <4>1 DEF IsDerivation
      <4> HIDE DEF after
      <4> QED
        BY <4>1, <4>2
    <3> QED
      BY <3>1, <3>2
  <2>3. after = [i \in 0 .. k + 1 |-> after[i]]
    OBVIOUS
  <2> HIDE DEF after
  <2>4. IsDerivation(after, named, m, k + 1)
    BY <2>2, <2>3 DEF IsDerivation
  <2> QED
    BY <2>4
<1> HIDE DEF L
<1>4. Nat \subseteq L
  BY <1>2, <1>3, SetOfAllNumbers
<1> DEFINE after == CHOOSE f : IsDerivation(f, named, m, n)
<1>5. IsDerivation(after, named, m, n)
  BY <1>1, <1>4 DEF L
<1>6. Derived(m) = after[n]
  <2> HIDE DEF named
  <2> QED
    BY DEF Derived, IsDerivation, named
<1> HIDE DEF after, named
<1> DEFINE Good(c) == c \in Seq(Aliased(m)) /\ OnePerProvider(c)
           G == {k \in Nat : k <= n => Good(after[k])}
<1>7. 0 \in G
  <2>1. after[0] = <<>>
    BY <1>1, <1>5 DEF IsDerivation
  <2>2. Good(<<>>)
    BY EmptySeq DEF OnePerProvider
  <2> QED
    BY <2>1, <2>2
<1>8. ASSUME NEW k \in Nat, k \in G PROVE k + 1 \in G
  <2> SUFFICES ASSUME k + 1 <= n PROVE Good(after[k + 1])
    OBVIOUS
  <2>1. k + 1 \in 0 .. n /\ k + 1 # 0 /\ (k + 1) - 1 = k /\ k <= n
    BY <1>1
  <2>2. after[k + 1] = Extended(after[k], named[k + 1], m)
    <3> HIDE DEF n
    <3> QED
      BY <1>5, <2>1 DEF IsDerivation
  <2>3. Good(after[k])
    BY <1>8, <2>1
  <2> QED
    BY <2>2, <2>3, ExtendedType
<1> HIDE DEF G
<1>9. Nat \subseteq G
  BY <1>7, <1>8, SetOfAllNumbers
<1>10. Good(after[n])
  BY <1>1, <1>9 DEF G
<1> QED
  BY <1>6, <1>10

(* A model the migration derives has a row: <<>> is the only empty chain.  *)
LEMMA DerivedHasRows ==
  ASSUME NEW m, Derived(m) # <<>>
  PROVE  Rows(Derived(m)) # {}
<1>1. 1 \in DOMAIN Derived(m)
  BY DerivedType, EmptySeq, LenProperties
<1> QED
  BY <1>1 DEF Rows

-----------------------------------------------------------------------------
(* A handler at rest has the type of a handler.                            *)
LEMMA IdleTyped == Idle \in TaskRecord /\ Idle.step = "idle"
<1>1. <<>> \in Seq(Deployments)
  OBVIOUS
<1> QED
  BY <1>1 DEF Idle, TaskRecord

(* Empty tables, no handler, the import at its first step.                *)
LEMMA InitInv ==
  ASSUME Init
  PROVE  IInv
<1>1. Shape
  BY IdleTyped DEF Init, Shape, Boot
<1>2. Quiet /\ BootKnows
  BY IdleTyped DEF Init, Quiet, BootKnows, Migrating, Boot
<1>3. \A t \in Tasks : Role(t) /\ Knows(t)
  BY DEF Init, Idle, Role, Knows, KnowsModel, KnowsPricing, Inserted, ModelSteps, PricingSteps
<1>4. EnabledIsPricedUnlessRaced
  BY DEF Init, EnabledIsPricedUnlessRaced
<1> QED
  BY <1>1, <1>2, <1>3, <1>4 DEF IInv

-----------------------------------------------------------------------------
(* Steps that write no table.                                              *)

(* What handlers know of the tables is a function of the tables.           *)
LEMMA TablesKept ==
  ASSUME UNCHANGED tables
  PROVE  /\ Rules' = Rules /\ Enabled' = Enabled
         /\ \A c : Listable(c)' = Listable(c)
         /\ \A m : Priced(m)' = Priced(m)
         /\ \A t : task'[t] = task[t] => Candidate(t)' = Candidate(t)
<1>1. Rules' = Rules /\ Enabled' = Enabled
  BY DEF tables, Rules, Enabled
<1>2. \A c : Listable(c)' = Listable(c)
  BY <1>1 DEF Listable
<1>3. \A m : Priced(m)' = Priced(m)
  BY <1>1 DEF Priced, tables
<1>4. \A t : task'[t] = task[t] => Candidate(t)' = Candidate(t)
  BY DEF Candidate, tables
<1> QED
  BY <1>1, <1>2, <1>3, <1>4

(* A step of one handler keeps the invariant if that handler knows what it *)
(* must at its new step, and was not about to disable a model.             *)
LEMMA TaskStep ==
  ASSUME IInv, Serving, NEW t \in Tasks, NEW r \in TaskRecord,
         task' = [task EXCEPT ![t] = r],
         UNCHANGED <<tables, boot, exposed>>,
         Role(t)', Knows(t)', ~Disabling(t)
  PROVE  IInv'
<1> USE DEF tables
<1>1. Shape'
  BY DEF IInv, Shape
<1>2. Quiet' /\ BootKnows'
  BY DEF IInv, Quiet, Serving, BootKnows, Migrating
<1>3. ASSUME NEW o \in Tasks PROVE Role(o)' /\ Knows(o)'
  <2>1. CASE o = t
    BY <2>1
  <2>2. CASE o # t
    <3>1. task'[o] = task[o]
      BY <2>2 DEF IInv, Shape
    <3> QED
      BY <3>1, TablesKept DEF IInv, Role, Knows, KnowsModel, KnowsPricing, Inserted
  <2> QED
    BY <2>1, <2>2
<1>4. LeftOpen(Tasks) \subseteq LeftOpen(Tasks)'
  BY DEF IInv, Shape, LeftOpen, Disabling
<1>5. EnabledIsPricedUnlessRaced'
  BY <1>4 DEF IInv, EnabledIsPricedUnlessRaced, Priced, Rules
<1> QED
  BY <1>1, <1>2, <1>3, <1>5 DEF IInv

(* A handler that ends knows nothing.                                      *)
LEMMA EndStep ==
  ASSUME IInv, Serving, NEW t \in Tasks, End(t), ~Disabling(t),
         UNCHANGED <<tables, boot, exposed>>
  PROVE  IInv'
<1>1. task'[t] = Idle
  BY DEF IInv, Shape, End
<1>2. Role(t)' /\ Knows(t)'
  BY <1>1 DEF Idle, Role, Knows, KnowsModel, KnowsPricing, Inserted, ModelSteps, PricingSteps
<1> QED
  BY <1>2, IdleTyped, TaskStep DEF End

(* A check that passed: only the step changes.                             *)
LEMMA GotoStep ==
  ASSUME IInv, Serving, NEW t \in Tasks, ~Disabling(t),
         NEW s \in ModelSteps \cup PricingSteps, Goto(t, s),
         UNCHANGED <<tables, boot, exposed>>,
         Role(t)', Knows(t)'
  PROVE  IInv'
<1> DEFINE r == [task[t] EXCEPT !.step = s]
<1>1. r \in TaskRecord
  BY ZenonT(60) DEF IInv, Shape, TaskRecord
<1>2. task' = [task EXCEPT ![t] = r]
  BY DEF Goto
<1> HIDE DEF r
<1> QED
  BY <1>1, <1>2, TaskStep

(* Only a server that listens has a handler that is not idle.              *)
LEMMA BusyIsServing ==
  ASSUME IInv, NEW t \in Tasks, task[t].step # "idle"
  PROVE  Serving
BY DEF IInv, Quiet

(* A mutation begins without having read anything.                         *)
LEMMA BeginStep ==
  ASSUME IInv, NEW t \in Tasks, NEW r \in TaskRecord, Begin(t, r),
         r.alone, r.unseen = {},
         \/ r.step = "list_providers" /\ r.model \in Models /\ (~r.new => status[r.model] # "absent")
         \/ r.step = "gate_pricing" /\ r.rule \in RuleIds
  PROVE  IInv'
<1>1. task'[t] = r /\ Serving /\ ~Disabling(t) /\ task' = [task EXCEPT ![t] = r]
  BY DEF Begin, IInv, Shape, Disabling
<1>2. UNCHANGED <<tables, boot, exposed>>
  BY DEF Begin
<1>3. Role(t)'
  BY <1>1 DEF Role, ModelSteps, PricingSteps
<1>4. KnowsModel(t)' /\ KnowsPricing(t)'
  BY <1>1, <1>2 DEF KnowsModel, KnowsPricing, Inserted, ModelSteps, tables
<1> QED
  BY <1>1, <1>2, <1>3, <1>4, TaskStep DEF Knows

(* create_model, update_model, update_pricing and delete_pricing arrive.   *)
LEMMA Begins ==
  ASSUME IInv, NEW t \in Tasks,
         \/ \E m \in Models, c \in Chains, on \in BOOLEAN :
              CreateModel(t, m, c, on) \/ UpdateModel(t, m, c, on)
         \/ \E id \in RuleIds, p \in RuleInputs \cup {None} : ChangePricing(t, id, p)
  PROVE  IInv'
<1>1. ASSUME NEW m \in Models, NEW c \in Chains, NEW on \in BOOLEAN, CreateModel(t, m, c, on)
      PROVE  IInv'
  <2> DEFINE r == [Idle EXCEPT !.step = "list_providers", !.model = m, !.new = TRUE,
                               !.chain = c, !.enabled = on]
  <2>1. r \in TaskRecord /\ r.alone /\ r.unseen = {} /\ r.step = "list_providers"
                         /\ r.model = m /\ r.new
    BY InputAssumption DEF Idle, TaskRecord, ModelSteps
  <2>2. Begin(t, r)
    BY <1>1 DEF CreateModel
  <2> HIDE DEF r
  <2> QED
    BY <2>1, <2>2, BeginStep
<1>2. ASSUME NEW m \in Models, NEW c \in Chains, NEW on \in BOOLEAN, UpdateModel(t, m, c, on)
      PROVE  IInv'
  <2> DEFINE r == [Idle EXCEPT !.step = "list_providers", !.model = m,
                               !.chain = c, !.enabled = on]
  <2>1. r \in TaskRecord /\ r.alone /\ r.unseen = {} /\ r.step = "list_providers" /\ r.model = m
    BY InputAssumption DEF Idle, TaskRecord, ModelSteps
  <2>2. Begin(t, r) /\ status[m] # "absent"
    BY <1>2 DEF UpdateModel
  <2> HIDE DEF r
  <2> QED
    BY <2>1, <2>2, BeginStep
<1>3. ASSUME NEW id \in RuleIds, NEW p \in RuleInputs \cup {None}, ChangePricing(t, id, p)
      PROVE  IInv'
  <2> DEFINE r == [Idle EXCEPT !.step = "gate_pricing", !.rule = id, !.pair = p]
  <2>1. r \in TaskRecord /\ r.alone /\ r.unseen = {} /\ r.step = "gate_pricing" /\ r.rule = id
    BY InputAssumption, IdleTyped DEF Idle, TaskRecord, PricingSteps
  <2>2. Begin(t, r)
    BY <1>3 DEF ChangePricing
  <2> HIDE DEF r
  <2> QED
    BY <2>1, <2>2, BeginStep
<1> QED
  BY <1>1, <1>2, <1>3

(* The checks of a model mutation.                                         *)
LEMMA ModelChecks ==
  ASSUME IInv, NEW t \in Tasks, ValidateDeployments(t) \/ EnsureListable(t)
  PROVE  IInv'
<1>1. task[t].step \in {"list_providers", "list_pricing"} /\ ~Disabling(t)
  BY DEF ValidateDeployments, EnsureListable, Disabling
<1>2. Serving /\ task[t] \in TaskRecord /\ task[t].model \in Models
  BY <1>1, BusyIsServing DEF IInv, Shape, Role, ModelSteps
<1>3. UNCHANGED <<tables, boot, exposed>>
  BY DEF ValidateDeployments, EnsureListable
<1>4. CASE End(t)
  BY <1>1, <1>2, <1>3, <1>4, EndStep
<1>5. ASSUME NEW s \in {"list_pricing", FirstWrite(t)}, Goto(t, s),
             task[t].enabled /\ s = FirstWrite(t) => Listable(task[t].chain)
      PROVE  IInv'
  <2>1. /\ s \in {"list_pricing", "insert_model", "set_deployments"}
        /\ s = "set_deployments" => ~task[t].new
        /\ s # "list_pricing" => s = FirstWrite(t)
    BY <1>5 DEF FirstWrite
  <2>2. task'[t] = [task[t] EXCEPT !.step = s]
    BY <1>5 DEF Goto, IInv, Shape
  <2>3. Role(t)'
    BY <1>2, <2>1, <2>2 DEF Role, TaskRecord, PricingSteps
  <2>4. Knows(t)'
    <3> SUFFICES ASSUME task[t].alone PROVE KnowsModel(t)' /\ KnowsPricing(t)'
      BY <1>2, <2>2 DEF Knows, TaskRecord
    <3>1. KnowsModel(t)
      BY DEF IInv, Knows
    <3>2. task[t].step \in ModelSteps
      BY <1>1 DEF ModelSteps
    <3>3. KnowsModel(t)'
      BY <1>2, <1>3, <1>5, <2>1, <2>2, <3>1, <3>2, TablesKept
         DEF KnowsModel, Inserted, TaskRecord, tables
    <3>4. KnowsPricing(t)'
      BY <1>2, <2>1, <2>2 DEF KnowsPricing, TaskRecord
    <3> QED
      BY <3>3, <3>4
  <2>5. s \in ModelSteps \cup PricingSteps
    BY <2>1 DEF ModelSteps
  <2> QED
    BY <1>1, <1>2, <1>3, <1>5, <2>3, <2>4, <2>5, GotoStep
<1>6. CASE ValidateDeployments(t) /\ ~End(t)
  <2>1. Goto(t, IF task[t].enabled THEN "list_pricing" ELSE FirstWrite(t))
    BY <1>6 DEF ValidateDeployments
  <2>2. FirstWrite(t) # "list_pricing"
    BY DEF FirstWrite
  <2> QED
    BY <1>5, <2>1, <2>2
<1>7. CASE EnsureListable(t) /\ ~End(t)
  BY <1>5, <1>7 DEF EnsureListable
<1> QED
  BY <1>4, <1>6, <1>7

(* The DELETE of set_deployments.                                          *)
LEMMA ClearDeploymentsStep ==
  ASSUME IInv, NEW t \in Tasks, ClearDeployments(t)
  PROVE  IInv'
<1> DEFINE r == IF status[task[t].model] = "absent" THEN AfterChain(t)
                ELSE [task[t] EXCEPT !.step = "insert_deployments"]
<1>1. task[t].step = "set_deployments" /\ ~Disabling(t)
  BY DEF ClearDeployments, Disabling
<1>2. Serving /\ task[t] \in TaskRecord /\ task[t].model \in Models
  BY <1>1, BusyIsServing DEF IInv, Shape, Role, ModelSteps
<1>3. UNCHANGED <<tables, boot, exposed>> /\ task' = [task EXCEPT ![t] = r]
  BY DEF ClearDeployments
<1>4. task'[t] = r
  BY <1>3 DEF IInv, Shape
<1>5. CASE r = Idle
  BY <1>1, <1>2, <1>3, <1>5, EndStep DEF End
<1>6. CASE r # Idle
  <2>1. /\ r \in TaskRecord
        /\ r.step \in {"insert_deployments", "set_status"}
        /\ r = [task[t] EXCEPT !.step = r.step]
        /\ status[task[t].model] # "absent" => r.step = "insert_deployments"
    BY <1>2, <1>6 DEF TaskRecord, AfterChain, ModelSteps
  <2>2. Role(t)'
    BY <1>2, <1>4, <2>1 DEF Role, TaskRecord, PricingSteps
  <2>3. Knows(t)'
    <3> SUFFICES ASSUME task[t].alone PROVE KnowsModel(t)' /\ KnowsPricing(t)'
      BY <1>2, <1>4, <2>1 DEF Knows, TaskRecord
    <3>1. KnowsModel(t)
      BY DEF IInv, Knows
    <3>2. r.step = "insert_deployments"
      BY <1>1, <2>1, <3>1 DEF KnowsModel, Inserted
    <3>3. KnowsModel(t)'
      BY <1>1, <1>2, <1>3, <1>4, <2>1, <3>1, <3>2, TablesKept
         DEF KnowsModel, Inserted, TaskRecord, tables
    <3>4. KnowsPricing(t)'
      BY <1>2, <1>4, <2>1, <3>2 DEF KnowsPricing, TaskRecord
    <3> QED
      BY <3>3, <3>4
  <2> QED
    BY <1>1, <1>2, <1>3, <2>1, <2>2, <2>3, TaskStep
<1> QED
  BY <1>5, <1>6

(* The three queries of the pricing gate.                                  *)
LEMMA PricingReads ==
  ASSUME IInv, NEW t \in Tasks, ReadRules(t) \/ ReadModels(t) \/ ReadDeployments(t)
  PROVE  IInv'
<1>1. task[t].step \in {"gate_pricing", "gate_models", "gate_deployments"} /\ ~Disabling(t)
  BY DEF ReadRules, ReadModels, ReadDeployments, Disabling
<1>2. Serving /\ task[t] \in TaskRecord /\ task[t].rule \in RuleIds
  BY <1>1, BusyIsServing DEF IInv, Shape, Role, PricingSteps
<1>3. UNCHANGED <<tables, boot, exposed>>
  BY DEF ReadRules, ReadModels, ReadDeployments
<1>4. CASE ReadDeployments(t) /\ End(t)
  BY <1>1, <1>2, <1>3, <1>4, EndStep
<1>5. ASSUME NEW r \in TaskRecord, task' = [task EXCEPT ![t] = r],
             r.step \in {"gate_models", "gate_deployments", "write_pricing"},
             r.rule = task[t].rule, r.pair = task[t].pair, r.alone = task[t].alone,
             r.unseen = task[t].unseen,
             task[t].alone =>
               /\ r.rules \subseteq Candidate(t)
               /\ r.step = "gate_deployments" => Enabled \subseteq r.listed
               /\ r.step = "write_pricing" => \A m \in Enabled : Uncovered(chain[m], r.rules) = {}
      PROVE  IInv'
  <2>1. task'[t] = r
    BY <1>5 DEF IInv, Shape
  <2>2. Role(t)'
    BY <1>2, <1>5, <2>1 DEF Role, ModelSteps
  <2>3. Knows(t)'
    <3> SUFFICES ASSUME task[t].alone PROVE KnowsModel(t)' /\ KnowsPricing(t)'
      BY <1>5, <2>1 DEF Knows
    <3>1. KnowsModel(t)'
      BY <1>5, <2>1 DEF IInv, Knows, KnowsModel, Inserted, ModelSteps
    <3>2. Candidate(t)' = Candidate(t) /\ Enabled' = Enabled /\ chain' = chain
      BY <1>3, <1>5, <2>1 DEF Candidate, Enabled, tables
    <3>3. KnowsPricing(t)'
      BY <1>5, <2>1, <3>2 DEF KnowsPricing
    <3> QED
      BY <3>1, <3>3
  <2> QED
    BY <1>1, <1>2, <1>3, <1>5, <2>2, <2>3, TaskStep
<1>6. CASE ReadRules(t)
  <2> DEFINE r == [task[t] EXCEPT !.step = "gate_models", !.rules = Candidate(t)]
  <2>1. Candidate(t) \subseteq Pairs
    BY <1>2 DEF Candidate, TaskRecord, IInv, Shape
  <2>2. /\ r \in TaskRecord /\ r.step = "gate_models" /\ r.rules = Candidate(t)
        /\ r.rule = task[t].rule /\ r.pair = task[t].pair /\ r.alone = task[t].alone
        /\ r.unseen = task[t].unseen
    BY <1>2, <2>1 DEF TaskRecord, PricingSteps
  <2>3. task' = [task EXCEPT ![t] = r]
    BY <1>6, <1>2 DEF ReadRules, Candidate, TaskRecord, IInv, Shape
  <2> HIDE DEF r
  <2> QED
    BY <1>5, <2>2, <2>3
<1>7. CASE ReadModels(t)
  <2> DEFINE r == [task[t] EXCEPT !.step = "gate_deployments", !.listed = Enabled]
  <2>1. /\ r \in TaskRecord /\ r.step = "gate_deployments" /\ r.rules = task[t].rules
        /\ r.rule = task[t].rule /\ r.pair = task[t].pair /\ r.alone = task[t].alone
        /\ r.unseen = task[t].unseen /\ r.listed = Enabled
    BY <1>2 DEF TaskRecord, PricingSteps, Enabled
  <2>2. task' = [task EXCEPT ![t] = r]
    BY <1>7, <1>2 DEF ReadModels, Enabled, TaskRecord, IInv, Shape
  <2>3. task[t].alone => r.rules \subseteq Candidate(t)
    BY <1>7, <2>1 DEF ReadModels, IInv, Knows, KnowsPricing
  <2> HIDE DEF r
  <2> QED
    BY <1>5, <2>1, <2>2, <2>3
<1>8. CASE ReadDeployments(t) /\ ~End(t)
  <2> DEFINE r == [task[t] EXCEPT !.step = "write_pricing"]
  <2>1. /\ r \in TaskRecord /\ r.step = "write_pricing" /\ r.rules = task[t].rules
        /\ r.rule = task[t].rule /\ r.pair = task[t].pair /\ r.alone = task[t].alone
        /\ r.unseen = task[t].unseen
    BY <1>2 DEF TaskRecord, PricingSteps
  <2>2. task' = [task EXCEPT ![t] = r] /\ \A m \in task[t].listed : Uncovered(chain[m], r.rules) = {}
    BY <1>8, <2>1 DEF ReadDeployments, Goto
  <2>3. task[t].alone => r.rules \subseteq Candidate(t) /\ Enabled \subseteq task[t].listed
    BY <1>8, <2>1 DEF ReadDeployments, IInv, Knows, KnowsPricing
  <2> HIDE DEF r
  <2> QED
    BY <1>5, <2>1, <2>2, <2>3
<1> QED
  BY <1>4, <1>6, <1>7, <1>8

-----------------------------------------------------------------------------
(* Steps that write the tables, while the server listens.                  *)

(* What the import relied on is over once the server listens.              *)
LEMMA ServingKeepsBoot ==
  ASSUME IInv, Serving, UNCHANGED boot
  PROVE  Quiet' /\ BootKnows'
<1>1. boot.names = {} /\ ~Migrating /\ boot.step \notin {"migrate_status", "import_pricing"}
  BY DEF Serving, IInv, BootKnows, Migrating
<1> QED
  BY <1>1 DEF Quiet, Serving, BootKnows, Migrating

(* What a write leaves of the other handlers: they stand where they stood, *)
(* and one that still counts as alone has changed in nothing.              *)
Stands(o) ==
  /\ task'[o] \in TaskRecord
  /\ task'[o].step = task[o].step /\ task'[o].model = task[o].model
  /\ task'[o].enabled = task[o].enabled /\ task'[o].rule = task[o].rule
  /\ task'[o].alone => task'[o] = task[o]

(* Who stands keeps its role, and stays about to disable its model.        *)
LEMMA StandingKeepsRole ==
  ASSUME IInv, NEW o \in Tasks, Stands(o)
  PROVE  /\ Role(o)'
         /\ Disabling(o) => Disabling(o)' /\ task[o].model \in LeftOpen(Tasks)'
BY DEF IInv, Role, Stands, Disabling, LeftOpen

(* create_model: the model is new, so no other handler knows of it.        *)
LEMMA InsertModelStep ==
  ASSUME IInv, NEW t \in Tasks, InsertModel(t)
  PROVE  IInv'
<1> DEFINE m == task[t].model
           r == [task[t] EXCEPT !.step = "set_deployments"]
<1>1. task[t].step = "insert_model" /\ ~Disabling(t)
  BY DEF InsertModel, Disabling
<1>2. Serving /\ task[t] \in TaskRecord /\ m \in Models
  BY <1>1, BusyIsServing DEF IInv, Shape, Role, ModelSteps
<1>3. CASE status[m] # "absent"
  BY <1>1, <1>2, <1>3, EndStep DEF InsertModel, tables
<1>4. CASE status[m] = "absent"
  <2>1. /\ status' = [status EXCEPT ![m] = "disabled"]
        /\ UNCHANGED <<providers, pricing, chain, boot, exposed>>
        /\ task' = [task EXCEPT ![t] = r]
    BY <1>4 DEF InsertModel, Goto
  <2>2. r \in TaskRecord
    BY <1>2 DEF TaskRecord, ModelSteps
  <2>3. Shape'
    BY <1>2, <2>1, <2>2 DEF IInv, Shape
  <2>4. Quiet' /\ BootKnows'
    BY <1>2, <2>1, ServingKeepsBoot
  <2>5. Rules' = Rules /\ Enabled' = Enabled
    BY <1>4, <2>1 DEF Rules, Enabled, IInv, Shape
  <2>6. ASSUME NEW o \in Tasks PROVE Role(o)' /\ Knows(o)'
    <3>1. CASE o = t
      <4>1. task'[o] = r
        BY <2>1, <3>1 DEF IInv, Shape
      <4>2. Role(o)'
        BY <1>2, <4>1 DEF Role, TaskRecord, PricingSteps
      <4>3. task[t].alone => KnowsModel(o)'
        BY <1>1, <1>2, <2>1, <2>5, <3>1, <4>1
           DEF IInv, Shape, Knows, KnowsModel, Inserted, TaskRecord, Listable
      <4>4. KnowsPricing(o)'
        BY <1>2, <4>1 DEF KnowsPricing, TaskRecord
      <4> QED
        BY <1>2, <4>1, <4>2, <4>3, <4>4 DEF Knows, TaskRecord
    <3>2. CASE o # t
      <4>1. task'[o] = task[o] /\ Role(o) /\ Knows(o)
        BY <2>1, <3>2 DEF IInv, Shape
      <4>2. Role(o)'
        BY <4>1 DEF Role
      <4>3. task[o].alone => KnowsModel(o)'
        BY <1>4, <2>1, <2>5, <4>1
           DEF IInv, Shape, Role, Knows, KnowsModel, Inserted, ModelSteps, Listable, Priced
      <4>4. task[o].alone => KnowsPricing(o)'
        <5>1. Candidate(o)' = Candidate(o)
          BY <2>1, <4>1 DEF Candidate
        <5> QED
          BY <2>1, <2>5, <4>1, <5>1 DEF Knows, KnowsPricing
      <4> QED
        BY <4>1, <4>2, <4>3, <4>4 DEF Knows
    <3> QED
      BY <3>1, <3>2
  <2>7. EnabledIsPricedUnlessRaced'
    <3>1. LeftOpen(Tasks) \subseteq LeftOpen(Tasks)'
      BY <1>1, <2>1 DEF LeftOpen, Disabling, IInv, Shape
    <3>2. \A n \in Models : status'[n] = "enabled" => status[n] = "enabled"
      BY <2>1 DEF IInv, Shape
    <3> QED
      BY <2>1, <2>5, <3>1, <3>2 DEF EnabledIsPricedUnlessRaced, IInv, Priced
  <2> QED
    BY <2>3, <2>4, <2>6, <2>7 DEF IInv
<1> QED
  BY <1>3, <1>4

(* The INSERTs of set_deployments.  What was checked is what is written,   *)
(* unless another edit of the model has committed in between.              *)
LEMMA InsertDeploymentsStep ==
  ASSUME IInv, NEW t \in Tasks, InsertDeployments(t)
  PROVE  IInv'
<1> DEFINE m == task[t].model
           rows == Rows(task[t].chain)
           kept == {d \in chain[m] : d \in task[t].unseen}
<1>1. task[t].step = "insert_deployments" /\ ~Disabling(t)
  BY DEF InsertDeployments, Disabling
<1>2. Serving /\ task[t] \in TaskRecord /\ m \in Models /\ task[t].chain \in Seq(Deployments)
  BY <1>1, BusyIsServing DEF IInv, Shape, Role, ModelSteps, TaskRecord
<1>3. UNCHANGED <<providers, pricing, status, boot>>
  BY DEF InsertDeployments
<1>4. CASE End(t) /\ UNCHANGED <<chain, exposed>>
  BY <1>1, <1>2, <1>3, <1>4, EndStep DEF tables
<1>5. CASE Commits(t, m, rows)
  <2>1. /\ chain' = [chain EXCEPT ![m] = kept \cup rows]
        /\ exposed' = IF task[t].alone THEN exposed ELSE exposed \cup {m}
        /\ task'[t] = AfterChain(t)
    BY <1>5 DEF Commits
  <2>2. rows \in SUBSET (Providers \X Upstreams \X Nat)
    BY <1>2 DEF Rows, Deployments
  <2>3. ASSUME NEW o \in Tasks, o # t
        PROVE  /\ Stands(o)
               /\ task'[o].alone => task[o].model # m /\ task[o].rule = None
    <3>1. task[o] \in TaskRecord
      BY DEF IInv, Shape
    <3>2. CASE MutatesModel(o, m)
      <4>1. task'[o] = [task[o] EXCEPT !.alone = FALSE,
                                       !.unseen = IF task[o].step = "insert_deployments"
                                                  THEN @ \cup rows ELSE @]
        BY <1>5, <2>3, <3>2 DEF Commits
      <4> QED
        BY <2>2, <3>1, <4>1, ZenonT(60) DEF Stands, TaskRecord
    <3>3. CASE ~MutatesModel(o, m) /\ MutatesPricing(o)
      <4>1. task'[o] = [task[o] EXCEPT !.alone = FALSE]
        BY <1>5, <2>3, <3>3 DEF Commits
      <4> QED
        BY <3>1, <4>1 DEF Stands, TaskRecord
    <3>4. CASE ~MutatesModel(o, m) /\ ~MutatesPricing(o)
      <4>1. task'[o] = task[o]
        BY <1>5, <2>3, <3>4 DEF Commits
      <4> QED
        BY <3>1, <3>4, <4>1 DEF Stands, MutatesModel, MutatesPricing
    <3> QED
      BY <3>2, <3>3, <3>4
  <2>4. AfterChain(t) \in TaskRecord
    BY <1>2, IdleTyped DEF AfterChain, TaskRecord, ModelSteps
  <2>5. Shape'
    <3>1. task' \in [Tasks -> TaskRecord]
      BY <1>5, <2>1, <2>3, <2>4 DEF Commits, Stands
    <3> QED
      BY <1>2, <1>3, <2>1, <3>1 DEF IInv, Shape
  <2>6. Quiet' /\ BootKnows'
    BY <1>2, <1>3, ServingKeepsBoot
  <2>7. Rules' = Rules
    BY <1>3 DEF Rules
  <2>8. task[t].alone /\ task[t].enabled =>
          chain'[m] # {} /\ Uncovered(chain'[m], Rules') = {}
    <3> SUFFICES ASSUME task[t].alone, task[t].enabled
                 PROVE  chain'[m] # {} /\ Uncovered(chain'[m], Rules') = {}
      OBVIOUS
    <3>1. Listable(task[t].chain) /\ kept = {}
      BY <1>1 DEF IInv, Knows, KnowsModel
    <3>2. chain'[m] = rows
      BY <1>2, <2>1, <3>1 DEF IInv, Shape
    <3> QED
      BY <1>2, <2>7, <3>1, <3>2, ChainHasRows, RowsAreCovered DEF Listable
  <2>9. Role(t)' /\ Knows(t)'
    <3>1. CASE AfterChain(t) = Idle
      BY <2>1, <3>1
         DEF Idle, Role, Knows, KnowsModel, KnowsPricing, Inserted, ModelSteps, PricingSteps
    <3>2. CASE AfterChain(t) # Idle
      <4>1. task'[t] = [task[t] EXCEPT !.step = "set_status"]
        BY <2>1, <3>2 DEF AfterChain
      <4>2. Role(t)'
        BY <1>2, <4>1 DEF Role, TaskRecord, PricingSteps
      <4>3. task[t].alone => KnowsModel(t)'
        BY <1>1, <1>2, <1>3, <2>8, <4>1
           DEF IInv, Knows, KnowsModel, Inserted, TaskRecord, ModelSteps, Priced
      <4>4. KnowsPricing(t)'
        BY <1>2, <4>1 DEF KnowsPricing, TaskRecord
      <4> QED
        BY <1>2, <4>1, <4>2, <4>3, <4>4 DEF Knows, TaskRecord
    <3> QED
      BY <3>1, <3>2
  <2>10. ASSUME NEW o \in Tasks, o # t PROVE Role(o)' /\ Knows(o)'
    <3>1. Stands(o) /\ Role(o)'
      BY <2>3, <2>10, StandingKeepsRole
    <3>2. ASSUME task'[o].alone PROVE KnowsModel(o)' /\ KnowsPricing(o)'
      <4>1. task'[o] = task[o] /\ task[o].model # m /\ task[o].rule = None /\ task[o].alone
        BY <2>3, <2>10, <3>1, <3>2 DEF Stands
      <4>2. KnowsModel(o) /\ Role(o)
        BY <4>1 DEF IInv, Knows
      <4>3. task[o].step = "set_status" /\ Priced(task[o].model) => Priced(task[o].model)'
        BY <2>1, <2>7, <4>1, <4>2 DEF Role, ModelSteps, Priced, IInv, Shape
      <4>4. KnowsModel(o)'
        BY <1>3, <2>7, <4>1, <4>2, <4>3 DEF KnowsModel, Inserted, Listable
      <4>5. KnowsPricing(o)'
        BY <4>1, <4>2, NoneAssumption DEF KnowsPricing, Role, PricingSteps
      <4> QED
        BY <4>4, <4>5
    <3> QED
      BY <3>1, <3>2 DEF Knows
  <2>11. EnabledIsPricedUnlessRaced'
    <3> SUFFICES ASSUME NEW n \in Models \ exposed', status[n] = "enabled"
                 PROVE  Priced(n)' \/ n \in LeftOpen(Tasks)'
      BY <1>3 DEF EnabledIsPricedUnlessRaced
    <3>1. CASE n = m
      <4>1. task[t].alone
        BY <2>1, <3>1
      <4>2. CASE ~task[t].enabled
        <5>1. ~task[t].new
          BY <1>1, <3>1, <4>1 DEF IInv, Knows, KnowsModel, Inserted
        <5>2. task'[t] = [task[t] EXCEPT !.step = "set_status"]
          BY <2>1, <5>1 DEF AfterChain
        <5>3. Disabling(t)' /\ task'[t].model = n
          BY <1>2, <3>1, <4>2, <5>2 DEF Disabling, TaskRecord
        <5> QED
          BY <5>3 DEF LeftOpen
      <4> QED
        BY <2>8, <3>1, <4>1, <4>2 DEF Priced
    <3>2. CASE n # m
      <4>1. Priced(n) \/ n \in LeftOpen(Tasks)
        BY <2>1 DEF IInv, EnabledIsPricedUnlessRaced
      <4>2. Priced(n) => Priced(n)'
        BY <2>1, <2>7, <3>2 DEF Priced, IInv, Shape
      <4>3. n \in LeftOpen(Tasks) => n \in LeftOpen(Tasks)'
        BY <1>1, <2>3, StandingKeepsRole DEF LeftOpen
      <4> QED
        BY <4>1, <4>2, <4>3
    <3> QED
      BY <3>1, <3>2
  <2> QED
    BY <2>5, <2>6, <2>9, <2>10, <2>11 DEF IInv
<1> QED
  BY <1>4, <1>5 DEF InsertDeployments

(* A write that ends its handler and disturbs some others.                 *)
LEMMA GoesOnStands ==
  ASSUME IInv, NEW t \in Tasks, NEW others \in SUBSET Tasks, GoesOn(t, Idle, others)
  PROVE  /\ task' \in [Tasks -> TaskRecord]
         /\ task'[t] = Idle /\ Role(t)' /\ Knows(t)'
         /\ \A o \in Tasks \ {t} : Stands(o) /\ (task'[o].alone => o \notin others)
<1>1. task'[t] = Idle
  BY DEF GoesOn
<1>2. ASSUME NEW o \in Tasks, o # t
      PROVE  Stands(o) /\ (task'[o].alone => o \notin others)
  <2>1. task[o] \in TaskRecord
    BY DEF IInv, Shape
  <2>2. CASE o \in others
    <3>1. task'[o] = [task[o] EXCEPT !.alone = FALSE]
      BY <1>2, <2>2 DEF GoesOn
    <3> QED
      BY <2>1, <3>1 DEF Stands, TaskRecord
  <2>3. CASE o \notin others
    <3>1. task'[o] = task[o]
      BY <1>2, <2>3 DEF GoesOn
    <3> QED
      BY <2>1, <2>3, <3>1 DEF Stands
  <2> QED
    BY <2>2, <2>3
<1>3. task' \in [Tasks -> TaskRecord]
  BY <1>1, <1>2, IdleTyped DEF GoesOn, Stands
<1>4. Role(t)' /\ Knows(t)'
  BY <1>1 DEF Idle, Role, Knows, KnowsModel, KnowsPricing, Inserted, ModelSteps, PricingSteps
<1> QED
  BY <1>1, <1>2, <1>3, <1>4

(* set_model_status: an undisturbed handler enables what it found priced.  *)
LEMMA SetStatusStep ==
  ASSUME IInv, NEW t \in Tasks, SetStatus(t)
  PROVE  IInv'
<1> DEFINE m == task[t].model
           others == {o \in Tasks : MutatesModel(o, m) \/ MutatesPricing(o)}
<1>1. task[t].step = "set_status"
  BY DEF SetStatus
<1>2. Serving /\ task[t] \in TaskRecord /\ m \in Models
  BY <1>1, BusyIsServing DEF IInv, Shape, Role, ModelSteps
<1>3. UNCHANGED <<providers, pricing, chain, boot>>
  BY DEF SetStatus
<1>4. Rules' = Rules /\ \A n : Priced(n)' = Priced(n)
  BY <1>3 DEF Rules, Priced
<1>5. Quiet' /\ BootKnows'
  BY <1>2, <1>3, ServingKeepsBoot
<1>6. CASE status[m] = "absent" /\ End(t) /\ UNCHANGED <<status, exposed>>
  <2>1. task' = [task EXCEPT ![t] = Idle]
    BY <1>6 DEF End
  <2>2. GoesOn(t, Idle, {})
    BY <2>1 DEF GoesOn, IInv, Shape
  <2>3. Shape'
    BY <1>3, <1>6, <2>2, GoesOnStands DEF IInv, Shape
  <2>4. ASSUME NEW o \in Tasks PROVE Role(o)' /\ Knows(o)'
    <3>1. CASE o = t
      BY <2>2, <3>1, GoesOnStands
    <3>2. CASE o # t
      <4>1. task'[o] = task[o] /\ Role(o) /\ Knows(o)
        BY <2>1, <3>2 DEF IInv, Shape
      <4> QED
        BY <1>3, <1>6, <4>1, TablesKept
           DEF tables, Role, Knows, KnowsModel, KnowsPricing, Inserted
    <3> QED
      BY <3>1, <3>2
  <2>5. EnabledIsPricedUnlessRaced'
    <3> SUFFICES ASSUME NEW n \in Models \ exposed, status[n] = "enabled", n \in LeftOpen(Tasks)
                 PROVE  n \in LeftOpen(Tasks)'
      BY <1>4, <1>6 DEF EnabledIsPricedUnlessRaced, IInv
    <3>1. PICK o \in Tasks : Disabling(o) /\ task[o].model = n
      BY DEF LeftOpen
    <3>2. o # t
      BY <1>6, <3>1
    <3> QED
      BY <2>2, <3>1, <3>2, GoesOnStands, StandingKeepsRole
  <2> QED
    BY <1>5, <2>3, <2>4, <2>5 DEF IInv
<1>7. CASE /\ status[m] # "absent"
           /\ status' = [status EXCEPT ![m] = IF task[t].enabled THEN "enabled" ELSE "disabled"]
           /\ GoesOn(t, Idle, others)
           /\ exposed' = IF task[t].alone \/ ~task[t].enabled THEN exposed \ {m}
                         ELSE exposed \cup {m}
  <2>1. Shape'
    BY <1>2, <1>3, <1>7, GoesOnStands DEF IInv, Shape
  <2>2. ASSUME NEW o \in Tasks PROVE Role(o)' /\ Knows(o)'
    <3>1. CASE o = t
      BY <1>7, <3>1, GoesOnStands
    <3>2. CASE o # t
      <4>1. Stands(o) /\ Role(o)' /\ (task'[o].alone => o \notin others)
        BY <1>7, <3>2, GoesOnStands, StandingKeepsRole
      <4>2. ASSUME task'[o].alone PROVE KnowsModel(o)' /\ KnowsPricing(o)'
        <5>1. task'[o] = task[o] /\ task[o].model # m /\ task[o].rule = None
          BY <4>1, <4>2 DEF Stands, MutatesModel, MutatesPricing
        <5>2. KnowsModel(o) /\ Role(o)
          BY <4>2, <5>1 DEF IInv, Knows
        <5>3. task[o].step \in ModelSteps => status'[task[o].model] = status[task[o].model]
          BY <1>7, <5>1, <5>2 DEF Role, IInv, Shape
        <5>4. KnowsModel(o)'
          BY <1>4, <5>1, <5>2, <5>3 DEF KnowsModel, Inserted, Listable, ModelSteps
        <5>5. KnowsPricing(o)'
          BY <5>1, <5>2, NoneAssumption DEF KnowsPricing, Role, PricingSteps
        <5> QED
          BY <5>4, <5>5
      <4> QED
        BY <4>1, <4>2 DEF Knows
    <3> QED
      BY <3>1, <3>2
  <2>3. EnabledIsPricedUnlessRaced'
    <3> SUFFICES ASSUME NEW n \in Models \ exposed', status'[n] = "enabled"
                 PROVE  Priced(n) \/ n \in LeftOpen(Tasks)'
      BY <1>4 DEF EnabledIsPricedUnlessRaced
    <3>1. CASE n = m
      <4>1. task[t].enabled /\ task[t].alone
        BY <1>2, <1>7, <3>1 DEF IInv, Shape
      <4> QED
        BY <1>1, <3>1, <4>1 DEF IInv, Knows, KnowsModel
    <3>2. CASE n # m
      <4>1. status[n] = "enabled" /\ n \notin exposed
        BY <1>7, <3>2 DEF IInv, Shape
      <4>2. CASE n \in LeftOpen(Tasks)
        <5>1. PICK o \in Tasks : Disabling(o) /\ task[o].model = n
          BY <4>2 DEF LeftOpen
        <5> QED
          BY <1>7, <3>2, <5>1, GoesOnStands, StandingKeepsRole
      <4> QED
        BY <4>1, <4>2 DEF IInv, EnabledIsPricedUnlessRaced
    <3> QED
      BY <3>1, <3>2
  <2> QED
    BY <1>5, <2>1, <2>2, <2>3 DEF IInv
<1> QED
  BY <1>6, <1>7 DEF SetStatus

(* A deleted model takes its chain with it; what is gone needs no price.   *)
LEMMA DeleteModelStep ==
  ASSUME IInv, NEW m \in Models, DeleteModel(m)
  PROVE  IInv'
<1>1. /\ Serving
      /\ status' = [status EXCEPT ![m] = "absent"]
      /\ chain' = [chain EXCEPT ![m] = {}]
      /\ UNCHANGED <<providers, pricing, boot, exposed>>
  BY DEF DeleteModel
<1>2. ASSUME NEW o \in Tasks
      PROVE  Stands(o) /\ (task'[o].alone => task[o].model # m)
  <2>1. task[o] \in TaskRecord
    BY DEF IInv, Shape
  <2>2. task'[o] = IF MutatesModel(o, m) THEN [task[o] EXCEPT !.alone = FALSE] ELSE task[o]
    BY DEF DeleteModel
  <2> QED
    BY <2>1, <2>2, ZenonT(60) DEF Stands, TaskRecord, MutatesModel
<1>3. Shape'
  <2>1. task' \in [Tasks -> TaskRecord]
    BY <1>2 DEF DeleteModel, Stands
  <2> QED
    BY <1>1, <2>1 DEF IInv, Shape
<1>4. Quiet' /\ BootKnows'
  BY <1>1, ServingKeepsBoot
<1>5. Rules' = Rules
  BY <1>1 DEF Rules
<1>6. ASSUME NEW n, n # m
      PROVE  status'[n] = status[n] /\ chain'[n] = chain[n] /\ Priced(n)' = Priced(n)
  <2>1. status'[n] = status[n] /\ chain'[n] = chain[n]
    BY <1>1, <1>6 DEF IInv, Shape
  <2> QED
    BY <1>5, <2>1 DEF Priced
<1>7. Enabled' \subseteq Enabled /\ m \notin Enabled'
  BY <1>1 DEF Enabled, IInv, Shape
<1>8. ASSUME NEW o \in Tasks PROVE Role(o)' /\ Knows(o)'
  <2>1. Stands(o) /\ Role(o)'
    BY <1>2, StandingKeepsRole
  <2>2. ASSUME task'[o].alone PROVE KnowsModel(o)' /\ KnowsPricing(o)'
    <3>1. task'[o] = task[o] /\ task[o].model # m
      BY <1>2, <2>1, <2>2 DEF Stands
    <3>2. KnowsModel(o) /\ KnowsPricing(o)
      BY <2>2, <3>1 DEF IInv, Knows
    <3>3. KnowsModel(o)'
      <4>1. status'[task[o].model] = status[task[o].model]
        BY <1>6, <3>1
      <4>2. Priced(task[o].model) => Priced(task[o].model)'
        BY <1>6, <3>1
      <4> QED
        BY <1>5, <3>1, <3>2, <4>1, <4>2 DEF KnowsModel, Inserted, Listable
    <3>4. Candidate(o)' = Candidate(o)
      BY <1>1, <3>1 DEF Candidate
    <3>5. KnowsPricing(o)'
      BY <1>6, <1>7, <3>1, <3>2, <3>4 DEF KnowsPricing
    <3> QED
      BY <3>3, <3>5
  <2> QED
    BY <2>1, <2>2 DEF Knows
<1>9. EnabledIsPricedUnlessRaced'
  <2> SUFFICES ASSUME NEW n \in Models \ exposed, status'[n] = "enabled"
               PROVE  Priced(n)' \/ n \in LeftOpen(Tasks)'
    BY <1>1 DEF EnabledIsPricedUnlessRaced
  <2>1. n # m
    BY <1>7 DEF Enabled
  <2>2. Priced(n) \/ n \in LeftOpen(Tasks)
    BY <1>6, <2>1 DEF IInv, EnabledIsPricedUnlessRaced
  <2>3. n \in LeftOpen(Tasks) => n \in LeftOpen(Tasks)'
    BY <1>2, StandingKeepsRole DEF LeftOpen
  <2> QED
    BY <1>6, <2>1, <2>2, <2>3
<1> QED
  BY <1>3, <1>4, <1>8, <1>9 DEF IInv

(* A rule is added under an id no handler is about to write: nothing that  *)
(* was covered is uncovered.                                               *)
LEMMA RuleAdded ==
  ASSUME IInv, NEW id \in RuleIds, NEW p \in Pairs, NewId(id),
         pricing' = [pricing EXCEPT ![id] = p],
         UNCHANGED <<status, chain, task, exposed>>,
         Shape', Quiet', BootKnows'
  PROVE  IInv'
<1>1. Rules \subseteq Rules'
  BY DEF NewId, Rules, IInv, Shape
<1>2. \A c : Listable(c) => Listable(c)'
  BY <1>1, MoreRulesCover DEF Listable
<1>3. \A m : Priced(m) => Priced(m)'
  BY <1>1, MoreRulesCover DEF Priced
<1>4. ASSUME NEW t \in Tasks PROVE Role(t)' /\ Knows(t)'
  <2>1. Role(t) /\ Knows(t)
    BY DEF IInv
  <2>2. Candidate(t) \subseteq Candidate(t)'
    <3>1. task[t].rule # id
      BY DEF NewId, IInv, Shape
    <3>2. \A x \in RuleIds \ {task[t].rule} : pricing[x] # None => pricing'[x] = pricing[x]
      BY <3>1 DEF NewId, IInv, Shape
    <3> QED
      BY <3>2 DEF Candidate
  <2>3. KnowsModel(t) => KnowsModel(t)'
    BY <1>2, <1>3 DEF KnowsModel, Inserted
  <2>4. KnowsPricing(t) => KnowsPricing(t)'
    BY <2>2 DEF KnowsPricing, Enabled
  <2> QED
    BY <2>1, <2>3, <2>4 DEF Role, Knows
<1>5. EnabledIsPricedUnlessRaced'
  BY <1>3 DEF IInv, EnabledIsPricedUnlessRaced, LeftOpen, Disabling
<1> QED
  BY <1>4, <1>5 DEF IInv

(* create_pricing needs no gate.                                           *)
LEMMA CreatePricingStep ==
  ASSUME IInv, NEW id \in RuleIds, NEW p \in RuleInputs, CreatePricing(id, p)
  PROVE  IInv'
<1>1. /\ Serving /\ NewId(id) /\ p \in Pairs
      /\ pricing' = [pricing EXCEPT ![id] = p]
      /\ UNCHANGED <<status, chain, boot, task, exposed>>
  BY InputAssumption DEF CreatePricing
<1>2. Shape'
  BY <1>1 DEF IInv, Shape
<1>3. Quiet' /\ BootKnows'
  BY <1>1, ServingKeepsBoot
<1> QED
  BY <1>1, <1>2, <1>3, RuleAdded

(* What a pricing change leaves is what its gate has seen, or more.        *)
LEMMA WritePricingStep ==
  ASSUME IInv, NEW t \in Tasks, WritePricing(t)
  PROVE  IInv'
<1> DEFINE id == task[t].rule
           p == task[t].pair
           others == {o \in Tasks : task[o].step # "idle"}
<1>1. task[t].step = "write_pricing" /\ ~Disabling(t)
  BY DEF WritePricing, Disabling
<1>2. Serving /\ task[t] \in TaskRecord /\ id \in RuleIds /\ p \in Pairs \cup {None}
  BY <1>1, BusyIsServing DEF IInv, Shape, Role, PricingSteps, TaskRecord
<1>3. UNCHANGED <<providers, status, chain, boot>>
  BY DEF WritePricing
<1>4. CASE End(t) /\ UNCHANGED <<pricing, exposed>>
  BY <1>1, <1>2, <1>3, <1>4, EndStep DEF tables
<1>5. CASE /\ pricing' = [pricing EXCEPT ![id] = p]
           /\ GoesOn(t, Idle, others)
           /\ exposed' = IF task[t].alone THEN exposed
                         ELSE exposed \cup {m \in Models : status[m] = "enabled"}
  <2>1. Shape'
    BY <1>2, <1>3, <1>5, GoesOnStands DEF IInv, Shape
  <2>2. Quiet' /\ BootKnows'
    BY <1>2, <1>3, ServingKeepsBoot
  <2>3. ASSUME NEW o \in Tasks PROVE Role(o)' /\ Knows(o)'
    <3>1. CASE o = t
      BY <1>5, <3>1, GoesOnStands
    <3>2. CASE o # t
      <4>1. Stands(o) /\ Role(o)' /\ (task'[o].alone => o \notin others)
        BY <1>5, <3>2, GoesOnStands, StandingKeepsRole
      <4>2. ASSUME task'[o].alone PROVE KnowsModel(o)' /\ KnowsPricing(o)'
        <5>1. task'[o] = task[o] /\ task[o].step = "idle"
          BY <4>1, <4>2 DEF Stands
        <5>2. task[o].unseen = {}
          BY <4>2, <5>1 DEF IInv, Knows, KnowsModel
        <5> QED
          BY <5>1, <5>2 DEF KnowsModel, KnowsPricing, Inserted, ModelSteps
      <4> QED
        BY <4>1, <4>2 DEF Knows
    <3> QED
      BY <3>1, <3>2
  <2>4. Rules' = Candidate(t)
    BY <1>2, <1>5 DEF Rules, Candidate, IInv, Shape
  <2>5. EnabledIsPricedUnlessRaced'
    <3> SUFFICES ASSUME NEW n \in Models \ exposed', status[n] = "enabled"
                 PROVE  Priced(n)' \/ n \in LeftOpen(Tasks)'
      BY <1>3 DEF EnabledIsPricedUnlessRaced
    <3>1. task[t].alone /\ n \notin exposed
      BY <1>5
    <3>2. Uncovered(chain[n], task[t].rules) = {} /\ task[t].rules \subseteq Rules'
      BY <1>1, <2>4, <3>1 DEF IInv, Knows, KnowsPricing, Enabled
    <3>3. Uncovered(chain'[n], Rules') = {}
      BY <1>3, <3>2, MoreRulesCover
    <3>4. CASE n \in LeftOpen(Tasks)
      <4>1. PICK o \in Tasks : Disabling(o) /\ task[o].model = n
        BY <3>4 DEF LeftOpen
      <4> QED
        BY <1>1, <1>5, <4>1, GoesOnStands, StandingKeepsRole
    <3>5. CASE Priced(n)
      BY <1>3, <3>3, <3>5 DEF Priced
    <3> QED
      BY <3>1, <3>4, <3>5 DEF IInv, EnabledIsPricedUnlessRaced
  <2> QED
    BY <2>1, <2>2, <2>3, <2>5 DEF IInv
<1> QED
  BY <1>4, <1>5 DEF WritePricing

(* A step that leaves rules, models, chains and handlers alone.            *)
LEMMA NothingOfInterest ==
  ASSUME IInv, UNCHANGED <<pricing, status, chain, task, exposed>>,
         Shape', Quiet', BootKnows'
  PROVE  IInv'
<1>1. /\ Rules' = Rules /\ Enabled' = Enabled
      /\ \A t : Candidate(t)' = Candidate(t)
  BY DEF Rules, Enabled, Candidate
<1>2. \A m : Priced(m)' = Priced(m)
  BY <1>1 DEF Priced
<1>3. \A c : Listable(c)' = Listable(c)
  BY <1>1 DEF Listable
<1>4. ASSUME NEW t \in Tasks PROVE Role(t)' /\ Knows(t)'
  BY <1>1, <1>2, <1>3 DEF IInv, Role, Knows, KnowsModel, KnowsPricing, Inserted
<1>5. EnabledIsPricedUnlessRaced'
  BY <1>2 DEF IInv, EnabledIsPricedUnlessRaced, LeftOpen, Disabling
<1> QED
  BY <1>4, <1>5 DEF IInv

(* create_provider and delete_provider.                                    *)
LEMMA ProviderSteps ==
  ASSUME IInv, NEW p \in Providers, CreateProvider(p) \/ DeleteProvider(p)
  PROVE  IInv'
<1>1. Serving /\ UNCHANGED <<pricing, status, chain, boot, task, exposed>>
  BY DEF CreateProvider, DeleteProvider
<1>2. Shape'
  BY <1>1 DEF IInv, Shape
<1>3. Quiet' /\ BootKnows'
  BY <1>1, ServingKeepsBoot
<1> QED
  BY <1>1, <1>2, <1>3, NothingOfInterest

(* A handler that stops half-way exposes the model it was about to disable. *)
LEMMA FailStep ==
  ASSUME IInv, NEW t \in Tasks, Fail(t)
  PROVE  IInv'
<1>1. Serving /\ task' = [task EXCEPT ![t] = Idle] /\ UNCHANGED <<tables, boot>>
  BY BusyIsServing DEF Fail, End
<1>2. exposed' = exposed \cup LeftOpen({t})
  BY DEF Fail
<1>3. LeftOpen({t}) \subseteq Models
  BY DEF LeftOpen, Disabling, IInv, Role, ModelSteps
<1>4. Shape'
  BY <1>1, <1>2, <1>3, IdleTyped DEF IInv, Shape, tables
<1>5. Quiet' /\ BootKnows'
  BY <1>1, ServingKeepsBoot
<1>6. ASSUME NEW o \in Tasks PROVE Role(o)' /\ Knows(o)'
  <2>1. CASE o = t
    <3>1. task'[o] = Idle
      BY <1>1, <2>1 DEF IInv, Shape
    <3> QED
      BY <3>1 DEF Idle, Role, Knows, KnowsModel, KnowsPricing, Inserted, ModelSteps, PricingSteps
  <2>2. CASE o # t
    <3>1. task'[o] = task[o] /\ Role(o) /\ Knows(o)
      BY <1>1, <2>2 DEF IInv, Shape
    <3> QED
      BY <1>1, <3>1, TablesKept DEF tables, Role, Knows, KnowsModel, KnowsPricing, Inserted
  <2> QED
    BY <2>1, <2>2
<1>7. EnabledIsPricedUnlessRaced'
  <2> SUFFICES ASSUME NEW n \in Models \ exposed', status[n] = "enabled"
               PROVE  Priced(n)' \/ n \in LeftOpen(Tasks)'
    BY <1>1 DEF EnabledIsPricedUnlessRaced, tables
  <2>1. CASE n \in LeftOpen(Tasks)
    <3>1. PICK o \in Tasks : Disabling(o) /\ task[o].model = n
      BY <2>1 DEF LeftOpen
    <3>2. o # t
      BY <1>2, <3>1 DEF LeftOpen
    <3>3. task'[o] = task[o]
      BY <1>1, <3>2 DEF IInv, Shape
    <3> QED
      BY <3>1, <3>3 DEF LeftOpen, Disabling
  <2>2. CASE Priced(n)
    BY <1>1, <2>2, TablesKept
  <2> QED
    BY <1>2, <2>1, <2>2 DEF IInv, EnabledIsPricedUnlessRaced
<1> QED
  BY <1>4, <1>5, <1>6, <1>7 DEF IInv

(* A restart forgets what the handlers knew, and leaves no gate half done   *)
(* but those it exposes.                                                   *)
LEMMA RestartStep ==
  ASSUME IInv, Restart
  PROVE  IInv'
<1>1. /\ boot' = Boot("count_providers") /\ task' = [t \in Tasks |-> Idle]
      /\ exposed' = exposed \cup LeftOpen(Tasks) /\ UNCHANGED tables
  BY DEF Restart
<1>2. LeftOpen(Tasks) \subseteq Models
  BY DEF LeftOpen, Disabling, IInv, Role, ModelSteps
<1>3. Shape'
  BY <1>1, <1>2, IdleTyped DEF IInv, Shape, tables, Boot
<1>4. Quiet' /\ BootKnows'
  BY <1>1, IdleTyped DEF Quiet, BootKnows, Migrating, Boot
<1>5. ASSUME NEW o \in Tasks PROVE Role(o)' /\ Knows(o)'
  <2>1. task'[o] = Idle
    BY <1>1
  <2> QED
    BY <2>1 DEF Idle, Role, Knows, KnowsModel, KnowsPricing, Inserted, ModelSteps, PricingSteps
<1>6. EnabledIsPricedUnlessRaced'
  BY <1>1, TablesKept DEF IInv, EnabledIsPricedUnlessRaced, tables
<1> QED
  BY <1>3, <1>4, <1>5, <1>6 DEF IInv

-----------------------------------------------------------------------------
(* The import, before the server listens.                                  *)

(* The counts and the providers change nothing that is priced.             *)
LEMMA ImportSteps ==
  ASSUME IInv,
         CountProviders \/ ImportProvider \/ CountPricing \/ CountModels \/ FinishBoot
  PROVE  IInv'
<1>1. UNCHANGED <<pricing, status, chain, task, exposed>> /\ ~Serving
  BY DEF CountProviders, ImportProvider, CountPricing, CountModels, FinishBoot, tables, Serving
<1>2. \A t \in Tasks : task[t].step = "idle"
  BY <1>1 DEF IInv, Quiet
<1>3. Shape' /\ BootKnows'
  <2>1. CASE CountProviders
    BY <2>1 DEF CountProviders, IInv, Shape, BootKnows, Migrating, Boot, tables
  <2>2. CASE ImportProvider
    BY <2>2 DEF ImportProvider, IInv, Shape, BootKnows, Migrating
  <2>3. CASE CountPricing
    <3>1. RulesToImport \in Seq(Pairs)
      BY FileAssumption DEF RulesToImport
    <3> QED
      BY <2>3, <3>1 DEF CountPricing, IInv, Shape, BootKnows, Migrating, Boot, tables
  <2>4. CASE CountModels /\ Serve
    BY <2>4 DEF CountModels, Serve, IInv, Shape, BootKnows, Migrating, Boot, tables
  <2>5. CASE CountModels /\ boot' = [Boot("migrate") EXCEPT !.names = {m \in Models : Derived(m) # <<>>}]
    <3>1. \A m : Derived(m)' = Derived(m)
      BY <2>5 DEF CountModels, tables, Derived, Extended
    <3> QED
      BY <2>5, <3>1 DEF CountModels, IInv, Shape, BootKnows, Migrating, Boot, tables
  <2>6. CASE FinishBoot
    BY <2>6 DEF FinishBoot, Serve, IInv, Shape, BootKnows, Migrating, Boot, tables
  <2> QED
    BY <2>1, <2>2, <2>3, <2>4, <2>5, <2>6 DEF CountModels
<1> QED
  BY <1>1, <1>2, <1>3, NothingOfInterest DEF Quiet

(* An imported rule is an added rule.                                      *)
LEMMA ImportRuleStep ==
  ASSUME IInv, ImportRule
  PROVE  IInv'
<1>1. /\ UNCHANGED <<providers, status, chain, task, exposed>> /\ ~Serving
      /\ boot' = [boot EXCEPT !.todo = Tail(@)] /\ boot.step = "import_pricing" /\ boot.todo # <<>>
  BY DEF ImportRule, Serving
<1>2. boot.todo \in Seq(Pairs)
  BY <1>1 DEF IInv, BootKnows
<1>3. PICK id \in RuleIds : NewId(id) /\ pricing' = [pricing EXCEPT ![id] = Head(boot.todo)]
  BY DEF ImportRule
<1>4. Head(boot.todo) \in Pairs /\ Tail(boot.todo) \in Seq(Pairs)
  BY <1>1, <1>2
<1>5. Shape'
  BY <1>1, <1>3, <1>4 DEF IInv, Shape
<1>6. Quiet' /\ BootKnows'
  BY <1>1, <1>4 DEF IInv, Shape, Quiet, Serving, BootKnows, Migrating
<1> QED
  BY <1>1, <1>3, <1>4, <1>5, <1>6, RuleAdded

(* Before the server listens no handler runs, and what is enabled is priced. *)
LEMMA QuietStep ==
  ASSUME IInv, ~Serving, UNCHANGED <<task, exposed>>, Shape', BootKnows',
         \A n \in Models : status'[n] = "enabled" =>
            Priced(n)' \/ (status[n] = "enabled" /\ (Priced(n) => Priced(n)'))
  PROVE  IInv'
<1>1. \A t \in Tasks : task[t].step = "idle" /\ (task[t].alone => task[t].unseen = {})
  BY DEF IInv, Quiet, Knows, KnowsModel
<1>2. \A t \in Tasks : Role(t)' /\ Knows(t)'
  BY <1>1 DEF Role, Knows, KnowsModel, KnowsPricing, Inserted, ModelSteps, PricingSteps
<1>3. LeftOpen(Tasks) = {}
  BY <1>1 DEF LeftOpen, Disabling
<1>4. EnabledIsPricedUnlessRaced'
  BY <1>3 DEF IInv, EnabledIsPricedUnlessRaced
<1> QED
  BY <1>1, <1>2, <1>4 DEF IInv, Quiet

(* A model is created disabled, given its chain, and enabled if that chain *)
(* is covered by the rules there are.                                      *)
LEMMA MigrateSteps ==
  ASSUME IInv, MigrateModel \/ MigrateChain \/ MigrateStatus
  PROVE  IInv'
<1>1. UNCHANGED <<providers, pricing, task, exposed>> /\ ~Serving
  BY DEF MigrateModel, MigrateChain, MigrateStatus, Serving
<1>2. Rules' = Rules /\ \A m : Derived(m)' = Derived(m)
  BY <1>1 DEF Rules, Derived, Extended
<1>3. CASE MigrateModel
  <2>1. PICK m \in boot.names :
          /\ status' = [status EXCEPT ![m] = "disabled"]
          /\ boot' = [boot EXCEPT !.step = "migrate_chain", !.name = m, !.names = @ \ {m}]
    BY <1>3 DEF MigrateModel
  <2>2. m \in Models /\ Derived(m) # <<>> /\ UNCHANGED chain
    BY <1>3 DEF MigrateModel, IInv, Shape, BootKnows
  <2>3. Shape'
    BY <1>1, <2>1, <2>2 DEF IInv, Shape
  <2>4. BootKnows'
    BY <1>2, <2>1, <2>2 DEF IInv, Shape, BootKnows, Migrating
  <2>5. \A n \in Models : status'[n] = "enabled" => status[n] = "enabled" /\ (Priced(n) => Priced(n)')
    BY <1>2, <2>1, <2>2 DEF IInv, Shape, Priced
  <2> QED
    BY <1>1, <2>3, <2>4, <2>5, QuietStep
<1>4. CASE MigrateChain
  <2>1. PICK m \in Models : m = boot.name /\ Derived(m) # <<>> /\ status[m] = "disabled"
    BY <1>4 DEF MigrateChain, IInv, BootKnows, Migrating
  <2>2. /\ chain' = [chain EXCEPT ![m] = Rows(Derived(m))] /\ UNCHANGED status
        /\ boot' = [boot EXCEPT !.step = "migrate_status"]
    BY <1>4, <2>1 DEF MigrateChain
  <2>3. Shape'
    BY <1>1, <2>2 DEF IInv, Shape
  <2>4. BootKnows'
    <3>1. chain'[m] = Rows(Derived(m))
      BY <2>2 DEF IInv, Shape
    <3>2. boot'.step = "migrate_status" /\ boot'.name = m /\ boot'.names = boot.names
      BY <2>1, <2>2 DEF IInv, Shape
    <3>3. Rows(Derived(m))' = Rows(Derived(m))
      BY <1>2 DEF Rows
    <3> QED
      BY <1>2, <2>1, <2>2, <3>1, <3>2, <3>3 DEF IInv, BootKnows, Migrating
  <2>5. \A n \in Models : status'[n] = "enabled" => status[n] = "enabled" /\ (Priced(n) => Priced(n)')
    BY <1>2, <2>1, <2>2 DEF IInv, Shape, Priced
  <2> QED
    BY <1>1, <2>3, <2>4, <2>5, QuietStep
<1>5. CASE MigrateStatus
  <2> DEFINE m == boot.name
  <2>1. /\ status' = [status EXCEPT ![m] =
                        IF Uncovered(ToSet(Derived(m)), Rules) = {} THEN "enabled" ELSE @]
        /\ boot' = [boot EXCEPT !.step = "migrate", !.name = None] /\ UNCHANGED chain
    BY <1>5 DEF MigrateStatus
  <2>2. /\ m \in Models /\ Derived(m) # <<>> /\ status[m] = "disabled"
        /\ chain[m] = Rows(Derived(m))
    BY <1>5 DEF MigrateStatus, IInv, BootKnows, Migrating
  <2>3. Shape'
    BY <1>1, <2>1, <2>2 DEF IInv, Shape
  <2>4. BootKnows'
    BY <1>2, <2>1 DEF IInv, Shape, BootKnows, Migrating
  <2>5. ASSUME NEW n \in Models, status'[n] = "enabled"
        PROVE  Priced(n)' \/ (status[n] = "enabled" /\ (Priced(n) => Priced(n)'))
    <3>1. CASE n = m
      <4>1. Uncovered(ToSet(Derived(m)), Rules) = {}
        BY <2>1, <2>2, <2>5, <3>1 DEF IInv, Shape
      <4>2. Priced(n)
        BY <2>2, <3>1, <4>1, DerivedHasRows, RowsAreCovered DEF Priced
      <4> QED
        BY <1>2, <2>1, <4>2 DEF Priced
    <3>2. CASE n # m
      BY <1>2, <2>1, <2>5, <3>2 DEF IInv, Shape, Priced
    <3> QED
      BY <3>1, <3>2
  <2> QED
    BY <1>1, <2>3, <2>4, <2>5, QuietStep
<1> QED
  BY <1>3, <1>4, <1>5

-----------------------------------------------------------------------------
(* Every step keeps the invariant.                                         *)
LEMMA Inductive ==
  ASSUME IInv, [Next]_vars
  PROVE  IInv'
<1>1. CASE BootStep
  BY <1>1, ImportSteps, ImportRuleStep, MigrateSteps DEF BootStep
<1>2. ASSUME NEW t \in Tasks, ModelStep(t)
      PROVE  IInv'
  BY <1>2, Begins, ModelChecks, InsertModelStep, ClearDeploymentsStep, InsertDeploymentsStep,
     SetStatusStep DEF ModelStep
<1>3. ASSUME NEW t \in Tasks, PricingStep(t)
      PROVE  IInv'
  BY <1>3, Begins, PricingReads, WritePricingStep DEF PricingStep
<1>4. ASSUME NEW t \in Tasks, Fail(t)
      PROVE  IInv'
  BY <1>4, FailStep
<1>5. ASSUME NEW m \in Models, DeleteModel(m)
      PROVE  IInv'
  BY <1>5, DeleteModelStep
<1>6. ASSUME NEW id \in RuleIds, NEW p \in RuleInputs, CreatePricing(id, p)
      PROVE  IInv'
  BY <1>6, CreatePricingStep
<1>7. ASSUME NEW p \in Providers, CreateProvider(p) \/ DeleteProvider(p)
      PROVE  IInv'
  BY <1>7, ProviderSteps
<1>8. CASE Restart
  BY <1>8, RestartStep
<1>9. CASE UNCHANGED vars
  <2>1. UNCHANGED <<providers, pricing, status, chain, boot, task, exposed>>
    BY <1>9 DEF vars, tables
  <2>2. Shape' /\ Quiet'
    BY <2>1 DEF IInv, Shape, Quiet, Serving
  <2>3. BootKnows'
    <3>1. \A m : Derived(m)' = Derived(m)
      BY <2>1 DEF Derived, Extended
    <3> QED
      BY <2>1, <3>1 DEF IInv, BootKnows, Migrating, Rows
  <2> QED
    BY <2>1, <2>2, <2>3, NothingOfInterest
<1> QED
  BY <1>1, <1>2, <1>3, <1>4, <1>5, <1>6, <1>7, <1>8, <1>9 DEF Next

(* However many mutations are in flight, and wherever they fail or the     *)
(* process dies: an enabled model is priced unless the last mutation that  *)
(* could have uncovered it raced one that changed what its gate had read   *)
(* (models_api.rs:145-259, catalog_api.rs:332-420).                        *)
THEOREM GateHolds == Spec => []EnabledIsPricedUnlessRaced
<1>1. Init => IInv
  BY InitInv
<1>2. IInv /\ [Next]_vars => IInv'
  BY Inductive
<1>3. IInv => EnabledIsPricedUnlessRaced
  BY DEF IInv
<1> QED
  BY <1>1, <1>2, <1>3, PTL DEF Spec

-----------------------------------------------------------------------------
(* What a boot found.                                                      *)

(* A table that had a row when the boot began is as it was, and no row is  *)
(* left to import into it.                                                 *)
BootFound ==
  ~Serving =>
    /\ populated.providers # {} =>
         providers = populated.providers /\ (boot.step = "import_providers" => boot.todo = <<>>)
    /\ populated.rules # {} =>
         Rules = populated.rules /\ (boot.step = "import_pricing" => boot.todo = <<>>)
    /\ populated.status # NoTables.status =>
         /\ status = populated.status /\ chain = populated.chain
         /\ boot.step \in {"count_providers", "import_providers", "import_pricing"}

LEMMA BootSteps ==
  ASSUME IInv, BootFound, BootStep, ~Serving'
  PROVE  BootFound'
<1>1. ~Serving
  BY DEF BootStep, CountProviders, ImportProvider, CountPricing, ImportRule, CountModels,
         MigrateModel, MigrateChain, MigrateStatus, FinishBoot, Serving
<1>2. ~Serve /\ populated' = populated
  <2>1. ~Serve
    BY DEF Serve, Serving, Boot
  <2> QED
    BY <2>1 DEF BootStep, CountProviders, ImportProvider, CountPricing, ImportRule, CountModels,
                MigrateModel, MigrateChain, MigrateStatus, FinishBoot
<1>3. boot = [step |-> boot.step, todo |-> boot.todo, names |-> boot.names, name |-> boot.name]
  BY DEF IInv, Shape
<1>4. CASE CountProviders
  <2>1. /\ boot'.step = "import_providers" /\ boot'.todo = IF providers = {} THEN FileProviders ELSE <<>>
        /\ UNCHANGED tables /\ Rules' = Rules
    BY <1>4 DEF CountProviders, Boot, tables, Rules
  <2> QED
    BY <1>1, <1>2, <2>1 DEF BootFound, tables
<1>5. CASE ImportProvider
  <2>1. /\ boot.step = "import_providers" /\ boot.todo # <<>> /\ boot'.step = "import_providers"
        /\ UNCHANGED <<pricing, status, chain>> /\ Rules' = Rules
    BY <1>3, <1>5 DEF ImportProvider, Rules
  <2> QED
    BY <1>1, <1>2, <2>1 DEF BootFound
<1>6. CASE CountPricing
  <2>1. /\ boot'.step = "import_pricing" /\ boot'.todo = RulesToImport
        /\ UNCHANGED tables /\ Rules' = Rules /\ boot.step = "import_providers"
    BY <1>6 DEF CountPricing, Boot, tables, Rules
  <2> QED
    BY <1>1, <1>2, <2>1 DEF BootFound, RulesToImport, tables
<1>7. CASE ImportRule
  <2>1. /\ boot.step = "import_pricing" /\ boot.todo # <<>> /\ boot'.step = "import_pricing"
        /\ UNCHANGED <<providers, status, chain>>
    BY <1>3, <1>7 DEF ImportRule
  <2> QED
    BY <1>1, <1>2, <2>1 DEF BootFound
<1>8. CASE CountModels
  <2>1. /\ boot'.step = "migrate" /\ UNCHANGED tables /\ Rules' = Rules
        /\ \A m \in Models : status[m] = "absent"
    BY <1>2, <1>8 DEF CountModels, Boot, tables, Rules
  <2>2. status = NoTables.status
    <3>1. status = [m \in Models |-> status[m]]
      BY DEF IInv, Shape
    <3> QED
      BY <2>1, <3>1 DEF NoTables
  <2> QED
    BY <1>1, <1>2, <2>1, <2>2 DEF BootFound, tables
<1>9. CASE MigrateModel \/ MigrateChain \/ MigrateStatus
  <2>1. /\ boot.step \in {"migrate", "migrate_chain", "migrate_status"}
        /\ boot'.step \in {"migrate", "migrate_chain", "migrate_status"}
        /\ UNCHANGED <<providers, pricing>> /\ Rules' = Rules
    <3>1. UNCHANGED <<providers, pricing>>
      BY <1>9 DEF MigrateModel, MigrateChain, MigrateStatus
    <3>2. Rules' = Rules
      BY <3>1 DEF Rules
    <3>3. \/ boot.step = "migrate" /\ \E m \in boot.names :
                boot' = [boot EXCEPT !.step = "migrate_chain", !.name = m, !.names = @ \ {m}]
          \/ boot.step = "migrate_chain" /\ boot' = [boot EXCEPT !.step = "migrate_status"]
          \/ boot.step = "migrate_status"
               /\ boot' = [boot EXCEPT !.step = "migrate", !.name = None]
      BY <1>9 DEF MigrateModel, MigrateChain, MigrateStatus
    <3>4. /\ boot.step \in {"migrate", "migrate_chain", "migrate_status"}
          /\ boot'.step \in {"migrate", "migrate_chain", "migrate_status"}
      BY <1>3, <3>3
    <3> QED
      BY <3>1, <3>2, <3>4
  <2> QED
    BY <1>1, <1>2, <2>1 DEF BootFound
<1>10. CASE FinishBoot
  BY <1>2, <1>10 DEF FinishBoot
<1> QED
  BY <1>4, <1>5, <1>6, <1>7, <1>8, <1>9, <1>10 DEF BootStep

(* Handlers and administrators run while the server listens.               *)
LEMMA OthersServe ==
  ASSUME IInv, [Next]_vars
  PROVE  \/ BootStep \/ Restart \/ UNCHANGED vars
         \/ Serving /\ boot' = boot
<1>1. ASSUME NEW t \in Tasks, ModelStep(t) \/ PricingStep(t) \/ Fail(t)
      PROVE  Serving /\ boot' = boot
  <2>1. Serving \/ task[t].step # "idle"
    BY <1>1 DEF ModelStep, PricingStep, Fail, CreateModel, UpdateModel, ChangePricing, Begin,
                ValidateDeployments, EnsureListable, InsertModel, ClearDeployments,
                InsertDeployments, SetStatus, ReadRules, ReadModels, ReadDeployments,
                WritePricing
  <2>2. Serving
    BY <2>1 DEF IInv, Quiet
  <2>3. boot' = boot
    BY <1>1 DEF ModelStep, PricingStep, Fail, CreateModel, UpdateModel, ChangePricing, Begin,
                ValidateDeployments, EnsureListable, InsertModel, ClearDeployments,
                InsertDeployments, SetStatus, ReadRules, ReadModels, ReadDeployments,
                WritePricing
  <2> QED
    BY <2>2, <2>3
<1>2. ASSUME \/ \E m \in Models : DeleteModel(m)
             \/ \E id \in RuleIds, p \in RuleInputs : CreatePricing(id, p)
             \/ \E p \in Providers : CreateProvider(p) \/ DeleteProvider(p)
      PROVE  Serving /\ boot' = boot
  BY <1>2 DEF DeleteModel, CreatePricing, CreateProvider, DeleteProvider
<1> QED
  BY <1>1, <1>2 DEF Next

(* Whatever the file says and wherever an earlier boot or a handler died,  *)
(* a boot changes no table that had a row when it began                    *)
(* (catalog/import.rs:15-199).                                             *)
THEOREM ImportIsOnce == Spec => []ImportLeavesPopulatedTables
<1>1. Init => IInv /\ BootFound
  <2>1. Init => BootFound
    BY DEF Init, BootFound, NoTables
  <2> QED
    BY <2>1, InitInv
<1>2. IInv /\ BootFound /\ [Next]_vars => IInv' /\ BootFound'
  <2> SUFFICES ASSUME IInv, BootFound, [Next]_vars, ~Serving' PROVE BootFound'
    BY Inductive DEF BootFound
  <2>1. CASE BootStep
    BY <2>1, BootSteps
  <2>2. CASE Restart
    <3>1. Rules' = Rules /\ boot'.step = "count_providers"
      BY <2>2 DEF Restart, Boot, tables, Rules
    <3> QED
      BY <2>2, <3>1 DEF Restart, Tables, BootFound, tables
  <2>3. CASE UNCHANGED vars
    <3>1. Rules' = Rules /\ Serving' = Serving
      BY <2>3 DEF vars, tables, Rules, Serving
    <3> QED
      BY <2>3, <3>1 DEF vars, tables, BootFound
  <2>4. CASE Serving /\ boot' = boot
    BY <2>4 DEF Serving
  <2> QED
    BY <2>1, <2>2, <2>3, <2>4, OthersServe
<1>3. BootFound => ImportLeavesPopulatedTables
  BY DEF BootFound, ImportLeavesPopulatedTables
<1> QED
  BY <1>1, <1>2, <1>3, PTL DEF Spec

-----------------------------------------------------------------------------
(* Types.  A chain that is about to be written was validated.              *)

Validated(t) ==
  task[t].step \in ModelSteps \ {"list_providers"} => OnePerProvider(task[t].chain)
AllValidated == \A t \in Tasks : Validated(t)

RulesDiffer == \A i, j \in RuleIds : pricing[i] # None /\ pricing[i] = pricing[j] => i = j

ChainsFit ==
  \A m \in Models :
    /\ chain[m] \subseteq Providers \X Upstreams \X Nat
    /\ \A d \in chain[m] :
         /\ d[1] \in providers
         /\ \A e \in chain[m] : d[1] = e[1] => d = e

BootTyped ==
  /\ boot.step \in {"count_providers", "import_providers", "import_pricing", "migrate",
                    "migrate_chain", "migrate_status", "serving"}
  /\ boot.name \in Models \cup {None}
  /\ boot.step = "import_providers" => boot.todo \in Seq(Providers)

TInv ==
  /\ providers \subseteq Providers
  /\ RulesDiffer /\ ChainsFit /\ BootTyped /\ AllValidated
  /\ events \in 0 .. MaxEvents

LEMMA RowsFit ==
  ASSUME NEW c \in Seq(Deployments), OnePerProvider(c)
  PROVE  /\ Rows(c) \subseteq Providers \X Upstreams \X Nat
         /\ \A d \in Rows(c) : d[1] \in {e[1] : e \in ToSet(c)}
         /\ \A d \in Rows(c), e \in Rows(c) : d[1] = e[1] => d = e
<1>1. ASSUME NEW d \in Rows(c)
      PROVE  \E i \in 1 .. Len(c) :
               /\ d = <<c[i][1], c[i][2], i - 1>> /\ d[1] = c[i][1]
               /\ c[i][1] \in Providers /\ c[i][2] \in Upstreams /\ i - 1 \in Nat
  <2>1. PICK i \in 1 .. Len(c) : d = <<c[i][1], c[i][2], i - 1>>
    BY LenProperties DEF Rows
  <2>2. c[i] \in Providers \X Upstreams
    BY DEF Deployments
  <2> QED
    BY <2>1, <2>2, LenProperties
<1>2. Rows(c) \subseteq Providers \X Upstreams \X Nat
  BY <1>1
<1>3. \A d \in Rows(c) : d[1] \in {e[1] : e \in ToSet(c)}
  BY <1>1, LenProperties DEF ToSet
<1>4. ASSUME NEW d \in Rows(c), NEW e \in Rows(c), d[1] = e[1]
      PROVE  d = e
  <2>1. PICK i \in 1 .. Len(c) : d = <<c[i][1], c[i][2], i - 1>> /\ d[1] = c[i][1]
    BY <1>1
  <2>2. PICK j \in 1 .. Len(c) : e = <<c[j][1], c[j][2], j - 1>> /\ e[1] = c[j][1]
    BY <1>1
  <2>3. i = j
    BY <1>4, <2>1, <2>2, LenProperties DEF OnePerProvider
  <2> QED
    BY <2>1, <2>2, <2>3
<1> QED
  BY <1>2, <1>3, <1>4

(* What a derived chain is made of.                                        *)
LEMMA DerivedFits ==
  ASSUME NEW m \in Models, providers \subseteq Providers
  PROVE  /\ Derived(m) \in Seq(Deployments)
         /\ OnePerProvider(Derived(m))
         /\ \A d \in ToSet(Derived(m)) : d[1] \in providers
<1>0. ASSUME NEW d \in Aliased(m) PROVE d \in Deployments /\ d[1] \in providers
  <2>1. PICK p \in providers : d = <<p, Aliases[<<p, m>>]>> /\ Aliases[<<p, m>>] # None
    BY DEF Aliased
  <2>2. p \in Providers /\ <<p, m>> \in Providers \X Models
    OBVIOUS
  <2>3. Aliases[<<p, m>>] \in Upstreams
    BY <2>1, <2>2, FileAssumption
  <2> QED
    BY <2>1, <2>2, <2>3 DEF Deployments
<1>1. Aliased(m) \subseteq Deployments
  BY <1>0
<1>2. \A d \in Aliased(m) : d[1] \in providers
  BY <1>0
<1>3. Derived(m) \in Seq(Aliased(m)) /\ OnePerProvider(Derived(m))
  BY DerivedType
<1>4. \A i \in DOMAIN Derived(m) : Derived(m)[i] \in Aliased(m)
  BY <1>3
<1>5. Derived(m) \in Seq(Deployments)
  BY <1>1, <1>3
<1> QED
  BY <1>2, <1>3, <1>4, <1>5 DEF ToSet

LEMMA InitTyped == Init => TInv
  BY BoundAssumption DEF Init, TInv, RulesDiffer, ChainsFit, BootTyped, AllValidated, Validated,
                         Boot, Idle, ModelSteps

(* A step of one handler, whose chain is unchanged once it was validated.  *)
LEMMA OneMoves ==
  ASSUME IInv, AllValidated, NEW t \in Tasks, NEW r, task' = [task EXCEPT ![t] = r],
         r.step \in ModelSteps \ {"list_providers"} => OnePerProvider(r.chain)
  PROVE  AllValidated'
<1> SUFFICES ASSUME NEW o \in Tasks PROVE Validated(o)'
  BY DEF AllValidated
<1>1. task'[o] = IF o = t THEN r ELSE task[o]
  BY DEF IInv, Shape
<1> QED
  BY <1>1 DEF AllValidated, Validated

(* A write that others take notice of leaves their chains alone.           *)
LEMMA OthersNotice ==
  ASSUME IInv, AllValidated, NEW next, next.step \in {"idle", "set_status"}, NEW t \in Tasks,
         next.step = "set_status" => next.chain = task[t].chain /\ task[t].step \in ModelSteps \ {"list_providers"},
         NEW f, task' = [o \in Tasks |-> IF o = t THEN next ELSE f[o]],
         \A o \in Tasks : f[o].step = task[o].step /\ f[o].chain = task[o].chain
  PROVE  AllValidated'
<1> SUFFICES ASSUME NEW o \in Tasks PROVE Validated(o)'
  BY DEF AllValidated
<1>1. task'[o] = IF o = t THEN next ELSE f[o]
  OBVIOUS
<1>2. CASE o = t
  BY <1>1, <1>2 DEF AllValidated, Validated, ModelSteps
<1>3. CASE o # t
  BY <1>1, <1>3 DEF AllValidated, Validated
<1> QED
  BY <1>2, <1>3

LEMMA NoticeLeavesChains ==
  ASSUME IInv, NEW o \in Tasks
  PROVE  /\ [task[o] EXCEPT !.alone = FALSE].step = task[o].step
         /\ [task[o] EXCEPT !.alone = FALSE].chain = task[o].chain
         /\ \A u : /\ [task[o] EXCEPT !.alone = FALSE, !.unseen = u].step = task[o].step
                   /\ [task[o] EXCEPT !.alone = FALSE, !.unseen = u].chain = task[o].chain
<1>1. task[o] \in TaskRecord
  BY DEF IInv, Shape
<1> QED
  BY <1>1 DEF TaskRecord

LEMMA StepsValidate ==
  ASSUME IInv, AllValidated, [Next]_vars
  PROVE  AllValidated'
<1>0. \A t \in Tasks : task[t] \in TaskRecord
  BY DEF IInv, Shape
<1>1. CASE task' = task
  BY <1>1 DEF AllValidated, Validated
<1>2. CASE Restart
  BY <1>2 DEF Restart, AllValidated, Validated, Idle, ModelSteps
<1>3. ASSUME NEW m \in Models, DeleteModel(m)
      PROVE  AllValidated'
  <2> SUFFICES ASSUME NEW o \in Tasks PROVE Validated(o)'
    BY DEF AllValidated
  <2>1. task'[o].step = task[o].step /\ task'[o].chain = task[o].chain
    BY <1>3, NoticeLeavesChains DEF DeleteModel
  <2> QED
    BY <2>1 DEF AllValidated, Validated
<1>4. ASSUME NEW t \in Tasks, End(t)
      PROVE  AllValidated'
  BY <1>4, OneMoves DEF End, Idle, ModelSteps
<1>5. ASSUME NEW t \in Tasks, NEW mutation, Begin(t, mutation),
             mutation.step \notin ModelSteps \ {"list_providers"}
      PROVE  AllValidated'
  BY <1>5, OneMoves DEF Begin
<1>6. ASSUME NEW t \in Tasks, NEW s, Goto(t, s),
             s \in ModelSteps \ {"list_providers"} => OnePerProvider(task[t].chain)
      PROVE  AllValidated'
  <2> DEFINE r == [task[t] EXCEPT !.step = s]
  <2>1. task' = [task EXCEPT ![t] = r]
    BY <1>6 DEF Goto
  <2>2. r.step = s /\ r.chain = task[t].chain
    BY <1>0 DEF TaskRecord
  <2> HIDE DEF r
  <2> QED
    BY <1>6, <2>1, <2>2, OneMoves
<1>7. ASSUME NEW t \in Tasks, ModelStep(t)
      PROVE  AllValidated'
  <2>1. ASSUME NEW m \in Models, NEW c \in Chains, NEW on \in BOOLEAN,
               CreateModel(t, m, c, on) \/ UpdateModel(t, m, c, on)
        PROVE  AllValidated'
    BY <1>5, <2>1 DEF CreateModel, UpdateModel, Idle, ModelSteps
  <2>2. CASE ValidateDeployments(t)
    <3>1. \/ End(t)
          \/ OnePerProvider(task[t].chain)
               /\ \E s : Goto(t, s)
      BY <2>2 DEF ValidateDeployments
    <3> QED
      BY <1>4, <1>6, <3>1
  <2>3. CASE EnsureListable(t)
    <3>1. OnePerProvider(task[t].chain)
      BY <2>3 DEF EnsureListable, AllValidated, Validated, ModelSteps
    <3> QED
      BY <1>4, <1>6, <2>3, <3>1 DEF EnsureListable
  <2>4. CASE InsertModel(t)
    <3>1. OnePerProvider(task[t].chain)
      BY <2>4 DEF InsertModel, AllValidated, Validated, ModelSteps
    <3> QED
      BY <1>4, <1>6, <2>4, <3>1 DEF InsertModel
  <2>5. CASE ClearDeployments(t)
    <3> DEFINE r == IF status[task[t].model] = "absent" THEN AfterChain(t)
                    ELSE [task[t] EXCEPT !.step = "insert_deployments"]
    <3>1. task' = [task EXCEPT ![t] = r] /\ OnePerProvider(task[t].chain)
      BY <2>5 DEF ClearDeployments, AllValidated, Validated, ModelSteps
    <3>2. r.chain = task[t].chain \/ r.step = "idle"
      BY <1>0 DEF AfterChain, Idle, TaskRecord
    <3> HIDE DEF r
    <3> QED
      BY <3>1, <3>2, OneMoves DEF ModelSteps
  <2>6. CASE InsertDeployments(t)
    <3> DEFINE m == task[t].model
               rows == Rows(task[t].chain)
    <3>1. CASE End(t)
      BY <1>4, <3>1
    <3>2. CASE Commits(t, m, rows)
      <4> DEFINE f == [o \in Tasks |->
                  IF MutatesModel(o, m)
                  THEN [task[o] EXCEPT !.alone = FALSE,
                                       !.unseen = IF task[o].step = "insert_deployments"
                                                  THEN @ \cup rows ELSE @]
                  ELSE IF MutatesPricing(o) THEN [task[o] EXCEPT !.alone = FALSE]
                  ELSE task[o]]
      <4>1. task' = [o \in Tasks |-> IF o = t THEN AfterChain(t) ELSE f[o]]
        BY <3>2 DEF Commits
      <4>2. \A o \in Tasks : f[o].step = task[o].step /\ f[o].chain = task[o].chain
        BY NoticeLeavesChains
      <4>3. /\ AfterChain(t).step \in {"idle", "set_status"}
            /\ AfterChain(t).step = "set_status" => AfterChain(t).chain = task[t].chain
        BY <1>0 DEF AfterChain, Idle, TaskRecord
      <4>4. task[t].step \in ModelSteps \ {"list_providers"}
        BY <2>6 DEF InsertDeployments, ModelSteps
      <4> HIDE DEF f
      <4> QED
        BY <4>1, <4>2, <4>3, <4>4, OthersNotice
    <3> QED
      BY <2>6, <3>1, <3>2 DEF InsertDeployments
  <2>7. CASE SetStatus(t)
    <3> DEFINE others == {o \in Tasks : MutatesModel(o, task[t].model) \/ MutatesPricing(o)}
               f == [o \in Tasks |-> IF o \in others THEN [task[o] EXCEPT !.alone = FALSE]
                                     ELSE task[o]]
    <3>1. \A o \in Tasks : f[o].step = task[o].step /\ f[o].chain = task[o].chain
      BY NoticeLeavesChains
    <3>2. End(t) \/ task' = [o \in Tasks |-> IF o = t THEN Idle ELSE f[o]]
      BY <2>7 DEF SetStatus, GoesOn
    <3> HIDE DEF f
    <3> QED
      BY <1>4, <3>1, <3>2, OthersNotice DEF Idle
  <2> QED
    BY <1>7, <2>1, <2>2, <2>3, <2>4, <2>5, <2>6, <2>7 DEF ModelStep
<1>8. ASSUME NEW t \in Tasks, PricingStep(t)
      PROVE  AllValidated'
  <2>1. ASSUME NEW id \in RuleIds, NEW p \in RuleInputs \cup {None}, ChangePricing(t, id, p)
        PROVE  AllValidated'
    BY <1>5, <2>1 DEF ChangePricing, Idle, ModelSteps
  <2>2. CASE ReadRules(t)
    <3>1. PICK rules : task' = [task EXCEPT ![t] = [task[t] EXCEPT !.step = "gate_models", !.rules = rules]]
      BY <2>2 DEF ReadRules
    <3>2. [task[t] EXCEPT !.step = "gate_models", !.rules = rules].step = "gate_models"
      BY <1>0 DEF TaskRecord
    <3> QED
      BY <3>1, <3>2, OneMoves DEF ModelSteps
  <2>3. CASE ReadModels(t)
    <3>1. PICK listed : task' = [task EXCEPT ![t] = [task[t] EXCEPT !.step = "gate_deployments", !.listed = listed]]
      BY <2>3 DEF ReadModels
    <3>2. [task[t] EXCEPT !.step = "gate_deployments", !.listed = listed].step = "gate_deployments"
      BY <1>0 DEF TaskRecord
    <3> QED
      BY <3>1, <3>2, OneMoves DEF ModelSteps
  <2>4. CASE ReadDeployments(t)
    BY <1>4, <1>6, <2>4 DEF ReadDeployments, ModelSteps
  <2>5. CASE WritePricing(t)
    <3> DEFINE others == {o \in Tasks : task[o].step # "idle"}
               f == [o \in Tasks |-> IF o \in others THEN [task[o] EXCEPT !.alone = FALSE]
                                     ELSE task[o]]
    <3>1. \A o \in Tasks : f[o].step = task[o].step /\ f[o].chain = task[o].chain
      BY NoticeLeavesChains
    <3>2. End(t) \/ task' = [o \in Tasks |-> IF o = t THEN Idle ELSE f[o]]
      BY <2>5 DEF WritePricing, GoesOn
    <3> HIDE DEF f
    <3> QED
      BY <1>4, <3>1, <3>2, OthersNotice DEF Idle
  <2> QED
    BY <1>8, <2>1, <2>2, <2>3, <2>4, <2>5 DEF PricingStep
<1>9. ASSUME \/ BootStep \/ UNCHANGED vars
             \/ \E id \in RuleIds, p \in RuleInputs : CreatePricing(id, p)
             \/ \E p \in Providers : CreateProvider(p) \/ DeleteProvider(p)
      PROVE  task' = task
  BY <1>9 DEF BootStep, CountProviders, ImportProvider, CountPricing, ImportRule, CountModels,
              MigrateModel, MigrateChain, MigrateStatus, FinishBoot, vars,
              CreatePricing, CreateProvider, DeleteProvider
<1>10. \A t \in Tasks : Fail(t) => End(t)
  BY DEF Fail
<1> QED
  BY <1>1, <1>2, <1>3, <1>4, <1>7, <1>8, <1>9, <1>10 DEF Next

LEMMA UntouchedTables ==
  ASSUME TInv, UNCHANGED <<providers, pricing, chain>>
  PROVE  providers' \subseteq Providers /\ RulesDiffer' /\ ChainsFit'
  BY DEF TInv, RulesDiffer, ChainsFit

(* A rule that no row prices yet, or that only its own row did, is added.  *)
LEMMA RuleWritten ==
  ASSUME IInv, RulesDiffer, NEW id \in RuleIds, NEW p, pricing' = [pricing EXCEPT ![id] = p],
         p # None => \A other \in RuleIds \ {id} : pricing[other] # p
  PROVE  RulesDiffer'
<1>1. \A i \in RuleIds : pricing'[i] = IF i = id THEN p ELSE pricing[i]
  BY DEF IInv, Shape
<1> QED
  BY <1>1 DEF RulesDiffer

LEMMA ChainWritten ==
  ASSUME IInv, TInv, NEW m \in Models, NEW rows, chain' = [chain EXCEPT ![m] = rows],
         providers' = providers,
         rows \subseteq Providers \X Upstreams \X Nat,
         \A d \in rows : d[1] \in providers,
         \A d \in rows, e \in rows : d[1] = e[1] => d = e
  PROVE  ChainsFit'
<1>1. \A n \in Models : chain'[n] = IF n = m THEN rows ELSE chain[n]
  BY DEF IInv, Shape
<1> QED
  BY <1>1 DEF TInv, ChainsFit

LEMMA BootTypes ==
  ASSUME IInv, TInv, BootStep
  PROVE  /\ providers' \subseteq Providers
         /\ RulesDiffer' /\ ChainsFit' /\ BootTyped'
<1>1. boot = [step |-> boot.step, todo |-> boot.todo, names |-> boot.names, name |-> boot.name]
  BY DEF IInv, Shape
<1>2. CASE CountProviders
  <2>1. BootTyped'
    BY <1>2, FileAssumption DEF CountProviders, Boot, BootTyped
  <2> QED
    BY <1>2, <2>1, UntouchedTables DEF CountProviders, tables
<1>3. CASE ImportProvider
  <2>1. boot.todo \in Seq(Providers) /\ boot.todo # <<>>
    BY <1>3 DEF ImportProvider, TInv, BootTyped
  <2>2. Head(boot.todo) \in Providers /\ Tail(boot.todo) \in Seq(Providers)
    BY <2>1
  <2>3. BootTyped'
    BY <1>1, <1>3, <2>2 DEF ImportProvider, TInv, BootTyped
  <2>4. providers' \subseteq Providers /\ providers \subseteq providers' /\ UNCHANGED <<pricing, chain>>
    BY <1>3, <2>2 DEF ImportProvider, TInv
  <2> QED
    BY <2>3, <2>4 DEF TInv, RulesDiffer, ChainsFit
<1>4. CASE CountPricing
  <2>1. BootTyped'
    BY <1>4 DEF CountPricing, Boot, BootTyped
  <2> QED
    BY <1>4, <2>1, UntouchedTables DEF CountPricing, tables
<1>5. CASE ImportRule
  <2>1. PICK id \in RuleIds : pricing' = [pricing EXCEPT ![id] = Head(boot.todo)]
    BY <1>5 DEF ImportRule
  <2>2. boot.todo \in Seq(Pairs) /\ boot.todo # <<>> /\ Head(boot.todo) \notin Rules
    BY <1>5 DEF ImportRule, IInv, BootKnows
  <2>3. Head(boot.todo) \in Pairs
    BY <2>2
  <2>4. Head(boot.todo) # None /\ \A i \in RuleIds : pricing[i] # Head(boot.todo)
    BY <2>2, <2>3, NoneAssumption DEF Rules
  <2>5. RulesDiffer'
    BY <2>1, <2>4, RuleWritten DEF TInv
  <2>6. BootTyped'
    BY <1>1, <1>5 DEF ImportRule, TInv, BootTyped
  <2> QED
    BY <1>5, <2>5, <2>6 DEF ImportRule, TInv, ChainsFit
<1>6. CASE CountModels \/ FinishBoot
  <2>1. BootTyped'
    <3>1. \/ boot' = Boot("serving")
          \/ boot' = [Boot("migrate") EXCEPT !.names = {m \in Models : Derived(m) # <<>>}]
      BY <1>6 DEF CountModels, FinishBoot, Serve
    <3>2. boot'.step \in {"serving", "migrate"} /\ boot'.name = None
      BY <3>1 DEF Boot
    <3> QED
      BY <3>2 DEF BootTyped
  <2> QED
    BY <1>6, <2>1, UntouchedTables DEF CountModels, FinishBoot, tables
<1>7. CASE MigrateModel
  <2>1. PICK m \in boot.names :
          boot' = [boot EXCEPT !.step = "migrate_chain", !.name = m, !.names = @ \ {m}]
    BY <1>7 DEF MigrateModel
  <2>2. m \in Models
    BY DEF IInv, Shape
  <2>3. BootTyped'
    BY <1>1, <2>1, <2>2 DEF BootTyped
  <2> QED
    BY <1>7, <2>3, UntouchedTables DEF MigrateModel
<1>8. CASE MigrateChain
  <2> DEFINE m == boot.name
             rows == Rows(Derived(m))
  <2>1. m \in Models
    BY <1>8 DEF MigrateChain, IInv, BootKnows, Migrating
  <2>2. /\ Derived(m) \in Seq(Deployments) /\ OnePerProvider(Derived(m))
        /\ \A d \in ToSet(Derived(m)) : d[1] \in providers
    BY <2>1, DerivedFits DEF TInv
  <2>3. /\ rows \subseteq Providers \X Upstreams \X Nat
        /\ \A d \in rows : d[1] \in {e[1] : e \in ToSet(Derived(m))}
        /\ \A d \in rows, e \in rows : d[1] = e[1] => d = e
    BY <2>2, RowsFit
  <2>4. \A d \in rows : d[1] \in providers
    BY <2>2, <2>3
  <2>5. chain' = [chain EXCEPT ![m] = rows] /\ UNCHANGED <<providers, pricing>>
    BY <1>8 DEF MigrateChain
  <2> HIDE DEF rows, m
  <2>6. ChainsFit'
    BY <2>1, <2>3, <2>4, <2>5, ChainWritten
  <2>7. BootTyped'
    BY <1>1, <1>8 DEF MigrateChain, TInv, BootTyped
  <2> QED
    BY <2>5, <2>6, <2>7 DEF TInv, RulesDiffer
<1>9. CASE MigrateStatus
  <2>1. BootTyped'
    BY <1>1, <1>9 DEF MigrateStatus, BootTyped
  <2> QED
    BY <1>9, <2>1, UntouchedTables DEF MigrateStatus
<1> QED
  BY <1>2, <1>3, <1>4, <1>5, <1>6, <1>7, <1>8, <1>9 DEF BootStep

(* The rows of a chain that its transaction commits.                       *)
LEMMA CommittedChainFits ==
  ASSUME IInv, TInv, NEW t \in Tasks, InsertDeployments(t)
  PROVE  ChainsFit'
<1> DEFINE m == task[t].model
           rows == Rows(task[t].chain)
           kept == {d \in chain[m] : d \in task[t].unseen}
<1>1. m \in Models /\ providers' = providers /\ task[t].chain \in Seq(Deployments)
  <2>1. task[t] \in TaskRecord /\ task[t].step \in ModelSteps
    BY DEF InsertDeployments, IInv, Shape, ModelSteps
  <2> QED
    BY <2>1 DEF InsertDeployments, IInv, Role, TaskRecord
<1>2. CASE chain' = chain
  BY <1>1, <1>2 DEF TInv, ChainsFit
<1>3. CASE Commits(t, m, rows)
  <2>1. /\ \A d \in rows : d[1] \in providers /\ \A k \in kept : k[1] # d[1]
        /\ chain' = [chain EXCEPT ![m] = kept \cup rows]
    BY <1>3 DEF Commits
  <2>2. OnePerProvider(task[t].chain)
    BY DEF InsertDeployments, TInv, AllValidated, Validated, ModelSteps
  <2>3. /\ rows \subseteq Providers \X Upstreams \X Nat
        /\ \A d \in rows, e \in rows : d[1] = e[1] => d = e
    BY <1>1, <2>2, RowsFit
  <2>4. /\ kept \subseteq Providers \X Upstreams \X Nat
        /\ \A d \in kept : d[1] \in providers
        /\ \A d \in kept, e \in kept : d[1] = e[1] => d = e
    BY <1>1 DEF TInv, ChainsFit
  <2> HIDE DEF rows, kept, m
  <2> DEFINE new == kept \cup rows
  <2>5. /\ new \subseteq Providers \X Upstreams \X Nat
        /\ \A d \in new : d[1] \in providers
        /\ \A d \in new, e \in new : d[1] = e[1] => d = e
    BY <2>1, <2>3, <2>4
  <2> HIDE DEF new
  <2> QED
    BY <1>1, <2>1, <2>5, ChainWritten DEF new
<1> QED
  BY <1>2, <1>3 DEF InsertDeployments

LEMMA TypesNext ==
  ASSUME IInv, TInv, [Next]_vars
  PROVE  TInv'
<1>1. AllValidated'
  BY StepsValidate DEF TInv
<1>2. events' \in 0 .. MaxEvents
  <2>1. events' = events \/ Event
    BY ZenonT(60) DEF Next, vars, BootStep, CountProviders, ImportProvider, CountPricing, ImportRule,
           CountModels, MigrateModel, MigrateChain, MigrateStatus, FinishBoot,
           ModelStep, CreateModel, UpdateModel, Begin, ValidateDeployments, EnsureListable,
           InsertModel, ClearDeployments, InsertDeployments, SetStatus,
           PricingStep, ChangePricing, ReadRules, ReadModels, ReadDeployments, WritePricing,
           Fail, DeleteModel, CreatePricing, CreateProvider, DeleteProvider, Restart
  <2> QED
    BY <2>1, BoundAssumption DEF Event, TInv
<1>3. CASE BootStep
  BY <1>1, <1>2, <1>3, BootTypes DEF TInv
<1>4. CASE Restart
  <2>1. BootTyped'
    BY <1>4 DEF Restart, Boot, BootTyped
  <2> QED
    BY <1>1, <1>2, <1>4, <2>1, UntouchedTables DEF Restart, tables, TInv
<1>5. CASE ~BootStep /\ ~Restart
  <2>1. BootTyped'
    <3>1. boot' = boot
      BY <1>5, OthersServe DEF vars
    <3> QED
      BY <3>1 DEF TInv, BootTyped
  <2>2. CASE UNCHANGED <<providers, pricing, chain>>
    BY <1>1, <1>2, <2>1, <2>2, UntouchedTables DEF TInv
  <2>3. ASSUME NEW t \in Tasks, ModelStep(t), ~InsertDeployments(t)
        PROVE  UNCHANGED <<providers, pricing, chain>>
    BY <2>3 DEF ModelStep, CreateModel, UpdateModel, Begin, ValidateDeployments, EnsureListable,
                InsertModel, ClearDeployments, SetStatus, tables
  <2>4. ASSUME NEW t \in Tasks, InsertDeployments(t)
        PROVE  TInv'
    <3>1. ChainsFit' /\ providers' = providers /\ pricing' = pricing
      BY <2>4, CommittedChainFits DEF InsertDeployments
    <3> QED
      BY <1>1, <1>2, <2>1, <3>1 DEF TInv, RulesDiffer
  <2>5. ASSUME NEW t \in Tasks, PricingStep(t), ~WritePricing(t)
        PROVE  UNCHANGED <<providers, pricing, chain>>
    BY <2>5 DEF PricingStep, ChangePricing, Begin, ReadRules, ReadModels, ReadDeployments, tables
  <2>6. ASSUME NEW t \in Tasks, WritePricing(t)
        PROVE  TInv'
    <3> DEFINE id == task[t].rule
               p == task[t].pair
    <3>1. id \in RuleIds /\ UNCHANGED <<providers, chain>>
      BY <2>6 DEF WritePricing, IInv, Role, PricingSteps
    <3>2. \/ pricing' = pricing
          \/ pricing' = [pricing EXCEPT ![id] = p] /\ ~Conflicts(id, p)
      BY <2>6 DEF WritePricing
    <3>3. RulesDiffer'
      <4>1. CASE pricing' = pricing
        BY <4>1 DEF TInv, RulesDiffer
      <4>2. CASE pricing' = [pricing EXCEPT ![id] = p] /\ ~Conflicts(id, p)
        <5> HIDE DEF id, p
        <5> QED
          BY <3>1, <4>2, RuleWritten DEF TInv, Conflicts
      <4> QED
        BY <3>2, <4>1, <4>2
    <3> QED
      BY <1>1, <1>2, <2>1, <3>1, <3>3 DEF TInv, ChainsFit
  <2>7. ASSUME NEW m \in Models, DeleteModel(m)
        PROVE  TInv'
    <3>1. chain' = [chain EXCEPT ![m] = {}] /\ UNCHANGED <<providers, pricing>>
      BY <2>7 DEF DeleteModel
    <3>2. ChainsFit'
      BY <3>1, ChainWritten
    <3> QED
      BY <1>1, <1>2, <2>1, <3>1, <3>2 DEF TInv, RulesDiffer
  <2>8. ASSUME NEW id \in RuleIds, NEW p \in RuleInputs, CreatePricing(id, p)
        PROVE  TInv'
    <3>1. /\ pricing' = [pricing EXCEPT ![id] = p] /\ UNCHANGED <<providers, chain>>
          /\ p \notin Rules /\ p # None
      BY <2>8, InputAssumption, NoneAssumption DEF CreatePricing
    <3>2. RulesDiffer'
      BY <3>1, RuleWritten DEF TInv, Rules
    <3> QED
      BY <1>1, <1>2, <2>1, <3>1, <3>2 DEF TInv, ChainsFit
  <2>9. ASSUME NEW p \in Providers, CreateProvider(p) \/ DeleteProvider(p)
        PROVE  TInv'
    <3>1. UNCHANGED <<pricing, chain>> /\ providers' \subseteq Providers
      BY <2>9 DEF CreateProvider, DeleteProvider, TInv
    <3>2. ASSUME NEW m \in Models, NEW d \in chain[m] PROVE d[1] \in providers'
      BY <2>9, <3>2 DEF CreateProvider, DeleteProvider, InUse, TInv, ChainsFit
    <3>3. ChainsFit'
      BY <3>1, <3>2 DEF TInv, ChainsFit
    <3> QED
      BY <1>1, <1>2, <2>1, <3>1, <3>3 DEF TInv, RulesDiffer
  <2>10. \A t \in Tasks : Fail(t) => UNCHANGED <<providers, pricing, chain>>
    BY DEF Fail, tables
  <2>11. UNCHANGED vars => UNCHANGED <<providers, pricing, chain>>
    BY DEF vars, tables
  <2> QED
    BY <1>5, <2>2, <2>3, <2>4, <2>5, <2>6, <2>7, <2>8, <2>9, <2>10, <2>11 DEF Next
<1> QED
  BY <1>3, <1>4, <1>5

(* For any file, chains and rules, and with mutations in flight, failing   *)
(* and raced: no two rules price one pair, and a chain names no provider   *)
(* twice nor one that was deleted, the one the import derives included     *)
(* (store.rs:260-420, import.rs:102-138, db.rs:100-140).                   *)
THEOREM CatalogTypeCorrect == Spec => []TypeOK
<1>1. Init => IInv /\ TInv
  BY InitInv, InitTyped
<1>2. IInv /\ TInv /\ [Next]_vars => IInv' /\ TInv'
  BY Inductive, TypesNext
<1>3. IInv /\ TInv => TypeOK
  <2> SUFFICES ASSUME IInv, TInv PROVE TypeOK
    OBVIOUS
  <2>1. chain \in [Models -> SUBSET (Providers \X Upstreams \X Nat)]
    BY DEF IInv, Shape, TInv, ChainsFit
  <2>2. \A t \in Tasks : task[t] \in TaskRecord
    BY DEF IInv, Shape
  <2>3. ASSUME NEW t \in Tasks
        PROVE  /\ task[t].step \in {"idle", "list_providers", "list_pricing", "insert_model",
                            "set_deployments", "insert_deployments", "set_status",
                            "gate_pricing", "gate_models", "gate_deployments", "write_pricing"}
               /\ task[t].model \in Models \cup {None} /\ task[t].rule \in RuleIds \cup {None}
               /\ task[t].chain \in Seq(Deployments)
               /\ task[t].unseen \subseteq Providers \X Upstreams \X Nat
               /\ task[t].rules \subseteq Pairs /\ task[t].listed \subseteq Models
    BY <2>2 DEF TaskRecord, ModelSteps, PricingSteps
  <2> QED
    BY <2>1, <2>3 DEF TypeOK, IInv, Shape, TInv, RulesDiffer, ChainsFit, BootTyped
<1> QED
  BY <1>1, <1>2, <1>3, PTL DEF Spec
=============================================================================
