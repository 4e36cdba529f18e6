---------------------------- MODULE SchemaProofs ----------------------------
(***************************************************************************)
(* The safety of SchemaSync, for any number of attributes, names, failures *)
(* and crashes. The registry names no attribute twice, what the loop has   *)
(* visited is stored, and every name in a row, in the registry or in the   *)
(* directory was given to the attribute it is kept for.                    *)
(***************************************************************************)
EXTENDS SchemaSync, TLAPS

Injective ==
    \A n, m \in Names : registry[n] = registry[m] /\ registry[n] # NoGuid => n = m

Visited ==
    /\ pc \in {"persisting", "polling"} =>
         \A n \in Names \ todo : registry[n] # NoGuid => rows[registry[n]] = n
    /\ todo # {} => pc = "persisting"

Held ==
    /\ \A g \in Guids : adSchema[g] # NoName => g \in holders[adSchema[g]]
    /\ \A g \in Guids : rows[g] # NoName => g \in holders[rows[g]]
    /\ \A n \in Names : registry[n] # NoGuid => registry[n] \in holders[n]

Inv == TypeOK /\ Injective /\ Visited /\ Held

\* The invariant holds in the initial states.
LEMMA InvInit == Init => Inv
<1> SUFFICES ASSUME Init PROVE Inv
    OBVIOUS
<1> USE SchemaSyncAssumption DEF Init, NoRows, NoEntries
<1>1. TypeOK
    BY DEF TypeOK, Starting
<1>2. Injective /\ Visited /\ Held
    BY DEF Injective, Visited, Held
<1> QED BY <1>1, <1>2 DEF Inv

(* A fatal error or a crash forgets the registry and leaves the database.  *)
LEMMA InvExit ==
    ASSUME Inv, Exit, UNCHANGED dirVars, UNCHANGED dbVars, faults' \in Nat, crashes' \in Nat
    PROVE  Inv'
<1> USE SchemaSyncAssumption DEF Inv, Exit, dirVars, dbVars, NoEntries
<1>1. TypeOK'
    BY DEF TypeOK
<1>2. Injective' /\ Visited' /\ Held'
    BY DEF Injective, Visited, Held, TypeOK
<1> QED BY <1>1, <1>2

(* Names only ever get more holders.                                       *)
LEMMA InvEnvironment == ASSUME Inv, Environment PROVE Inv'
<1> USE SchemaSyncAssumption DEF Inv, Environment, memVars, dbVars, envVars
<1>1. ASSUME NEW g \in Guids, NEW n \in Names, NameAttribute(g, n)
      PROVE  Inv'
  <2> USE <1>1 DEF NameAttribute
  <2>1. TypeOK'
      BY DEF TypeOK
  <2>2. Injective' /\ Visited'
      BY DEF Injective, Visited
  <2>3. \A m \in Names : holders[m] \subseteq holders'[m]
      BY DEF TypeOK
  <2>4. \A h \in Guids : adSchema'[h] # NoName => h \in holders'[adSchema'[h]]
    <3> SUFFICES ASSUME NEW h \in Guids, adSchema'[h] # NoName
                 PROVE  h \in holders'[adSchema'[h]]
        OBVIOUS
    <3>1. CASE h = g
        BY <3>1 DEF TypeOK
    <3>2. CASE h # g
      <4>1. adSchema'[h] = adSchema[h] /\ adSchema[h] \in Names
          BY <3>2 DEF TypeOK
      <4> QED BY <2>3, <4>1 DEF Held
    <3> QED BY <3>1, <3>2
  <2>5. Held'
      BY <2>3, <2>4 DEF Held, TypeOK
  <2> QED BY <2>1, <2>2, <2>5
<1>2. ASSUME NEW g \in Guids, Deactivate(g)
      PROVE  Inv'
    BY <1>2 DEF Deactivate, TypeOK, Injective, Visited, Held
<1>3. CASE WebConnects \/ WebDisconnects
    BY <1>3 DEF WebConnects, WebDisconnects, TypeOK, Injective, Visited, Held
<1> QED BY <1>1, <1>2, <1>3

(* An upsert changes the row of one attribute, and no other name of the    *)
(* registry stands for that attribute.                                     *)
LEMMA InvUpsert ==
    ASSUME Inv, NEW n \in Names, UpsertAttributeSchema(n)
    PROVE  Inv'
<1> USE SchemaSyncAssumption
        DEF Inv, UpsertAttributeSchema, Upserted, dirVars, envVars
<1>1. n \in todo /\ registry[n] \in Guids /\ registry[n] # NoGuid
    BY DEF TypeOK
<1>2. TypeOK'
    BY <1>1 DEF TypeOK
<1>3. Injective'
    BY DEF Injective
<1>4. Visited'
  <2>1. ASSUME NEW m \in Names \ todo', registry[m] # NoGuid
        PROVE  rows'[registry[m]] = m
    <3>1. CASE m = n
        BY <1>1, <3>1 DEF TypeOK
    <3>2. CASE m # n
      <4>1. registry[m] # registry[n] /\ registry[m] \in Guids
          BY <1>1, <2>1, <3>2 DEF Injective, TypeOK
      <4> QED BY <2>1, <3>2, <4>1 DEF Visited, TypeOK
    <3> QED BY <3>1, <3>2
  <2> QED BY <2>1 DEF Visited
<1>5. Held'
  <2>1. ASSUME NEW g \in Guids, rows'[g] # NoName
        PROVE  g \in holders[rows'[g]]
    <3>1. CASE g = registry[n]
        BY <1>1, <3>1 DEF Held, TypeOK
    <3>2. CASE g # registry[n]
        BY <2>1, <3>2 DEF Held, TypeOK
    <3> QED BY <3>1, <3>2
  <2> QED BY <2>1 DEF Held
<1> QED BY <1>2, <1>3, <1>4, <1>5

\* Every step preserves the invariant.
LEMMA InvNext == Inv /\ [Next]_vars => Inv'
<1> SUFFICES ASSUME Inv, [Next]_vars PROVE Inv'
    OBVIOUS
<1> USE SchemaSyncAssumption
<1>1. CASE Environment
    BY <1>1, InvEnvironment
<1>2. CASE Start
    BY <1>2 DEF Start, Inv, TypeOK, Starting, Injective, Visited, Held,
                dirVars, memVars, dbVars, envVars
<1>3. CASE DropDatabase
    BY <1>3 DEF DropDatabase, NoRows, Inv, TypeOK, Starting, Injective, Visited, Held,
                dirVars, memVars, envVars
<1>4. CASE CreateDatabase \/ CreateTables
    BY <1>4 DEF CreateDatabase, CreateTables, Inv, TypeOK, Starting, Injective, Visited,
                Held, dirVars, memVars, envVars
<1>5. CASE LoadSchema
  <2> USE <1>5 DEF LoadSchema, Inv, dirVars, dbVars, envVars
  <2>1. \A n \in Names : registry'[n] # NoGuid =>
            registry'[n] \in Guids /\ adSchema[registry'[n]] = n
      BY DEF Found
  <2>2. Injective'
      BY <2>1 DEF Injective
  <2>3. Held'
      BY <2>1 DEF Held
  <2>4. todo = {} /\ Visited'
      BY DEF Visited
  <2>5. TypeOK'
      BY <2>4 DEF TypeOK, Starting
  <2> QED BY <2>2, <2>3, <2>4, <2>5
<1>6. CASE InsertDomain
    BY <1>6 DEF InsertDomain, Inv, TypeOK, Starting, Injective, Visited, Held,
                dirVars, dbVars, envVars
<1>7. ASSUME NEW n \in Names, UpsertAttributeSchema(n)
      PROVE  Inv'
    BY <1>7, InvUpsert
<1>8. CASE FinishPersisting
    BY <1>8 DEF FinishPersisting, Inv, TypeOK, Starting, Injective, Visited, Held,
                dirVars, memVars, dbVars, envVars
<1>9. CASE Refused \/ StepFails \/ Crash
    BY <1>9, InvExit DEF Refused, StepFails, Crash, Fault, Inv, TypeOK, envVars, dbVars
<1>10. CASE ResetSkipped
    BY <1>10 DEF ResetSkipped, Fault, Inv, TypeOK, Starting, Injective, Visited, Held,
                 dirVars, memVars, dbVars
<1>11. CASE UNCHANGED vars
    BY <1>11 DEF vars, Inv, TypeOK, Injective, Visited, Held,
                 dirVars, memVars, dbVars, envVars
<1> QED BY <1>1, <1>2, <1>3, <1>4, <1>5, <1>6, <1>7, <1>8, <1>9, <1>10, <1>11
        DEF Next, Work

\* The invariant holds in every reachable state.
LEMMA AlwaysInv == Spec => []Inv
BY InvInit, InvNext, PTL DEF Spec

(* The types, and that the upsert loop meets only entries of the registry  *)
(* (main.go, GetAllSchemas).                                               *)
THEOREM Types == Spec => []TypeOK
<1>1. Inv => TypeOK
    BY DEF Inv
<1> QED BY <1>1, AlwaysInv, PTL

(* While the poller polls, the row of every attribute in the registry is   *)
(* there under the registry's name, whatever starts went before.           *)
THEOREM RegistryIsStored == Spec => []RegistryStored
<1>1. Inv => RegistryStored
    BY DEF Inv, Visited, RegistryStored
<1> QED BY <1>1, AlwaysInv, PTL

(* The unique index refuses only a name that two attributes have had.      *)
THEOREM RefusalsAreReuses == Spec => []RefusedOnlyIfReused
<1>1. Inv => RefusedOnlyIfReused
  <2> SUFFICES ASSUME Inv, NEW n \in todo, Taken(n)
               PROVE  \E g \in holders[n] : g # registry[n]
      BY DEF RefusedOnlyIfReused
  <2>1. n \in Names
      BY DEF Inv, TypeOK
  <2>2. PICK g \in Guids \ {registry[n]} : rows[g] = n
      BY DEF Taken
  <2>3. g \in holders[n]
      BY <2>1, <2>2, SchemaSyncAssumption DEF Inv, Held
  <2> QED BY <2>2, <2>3
<1> QED BY <1>1, AlwaysInv, PTL
=============================================================================
