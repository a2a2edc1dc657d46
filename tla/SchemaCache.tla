---------------------------- MODULE SchemaCache ----------------------------
(***************************************************************************)
(* The schema information of one connection (schema_info.rs: SchemaCache)  *)
(* under the commands that use it: list_tables, list_columns and           *)
(* get_schema_map (lib.rs), while set_active_schema, `\c` and a config     *)
(* reload move the connection to another schema.                           *)
(*                                                                         *)
(* What is cached is represented by the schema it was read from.           *)
(***************************************************************************)
EXTENDS Naturals

CONSTANTS
  Schemas, DefaultSchema,  \* the databases of the connection, and the config's default
  Tables,       \* the tables every schema has
  Listings,     \* calls of list_tables, list_columns and get_schema_map
  MaxSwitches,  \* bound: changes of the active schema
  Uncached      \* no information

ASSUME SchemasAssumption == DefaultSchema \in Schemas /\ Uncached \notin Schemas
ASSUME TablesAssumption == Tables # {}
ASSUME MaxSwitchesAssumption == MaxSwitches \in Nat

VARIABLES
  activeSchema,  \* the override, or the config's default
  cachedTables,  \* CachedSchema.tables of each schema
  cachedColumns, \* CachedSchema.columns of each schema: its tables with columns ...
  complete,      \* ... and columns_complete
  listing,       \* the state of each call
  switching,     \* `\c` or set_active_schema under way
  switches       \* changes of the active schema so far

scVars == <<activeSchema, cachedTables, cachedColumns, complete, listing, switching, switches>>

Kinds == {"tables", "refresh", "columns", "map"}
Sources == Schemas \cup {Uncached}
Idle == [kind |-> "none", schema |-> DefaultSchema, previous |-> DefaultSchema]

ListingStates ==
  [step : {"new", "keyed", "missed", "fetching", "done"}, kind : Kinds, table : Tables,
   key : Schemas, pool : Schemas, answer : SUBSET Sources]

ScTypeOK ==
  /\ activeSchema \in Schemas
  /\ cachedTables \in [Schemas -> Sources]
  /\ cachedColumns \in [Schemas -> [Tables -> Sources]]
  /\ complete \in [Schemas -> BOOLEAN]
  /\ listing \in [Listings -> ListingStates]
  /\ switching \in [kind : {"none", "select", "command"}, schema : Schemas, previous : Schemas]
  /\ switches \in 0 .. MaxSwitches

ScInit ==
  /\ activeSchema = DefaultSchema
  /\ cachedTables = [s \in Schemas |-> Uncached]
  /\ cachedColumns = [s \in Schemas |-> [t \in Tables |-> Uncached]]
  /\ complete = [s \in Schemas |-> FALSE]
  /\ listing = [l \in Listings |-> [step |-> "new", kind |-> "tables", table |-> CHOOSE t \in Tables : TRUE,
       key |-> DefaultSchema, pool |-> DefaultSchema, answer |-> {}]]
  /\ switching = Idle
  /\ switches = 0

----------------------------------------------------------------------------
(* The commands; between their steps anything may happen *)

OneKeyForAll == DefaultSchema  \* fault: the key is the connection alone
ActiveSchemaKey == activeSchema
ReadKey(l) ==
  /\ listing[l].step = "new"
  /\ \E k \in Kinds, t \in Tables :
       listing' = [listing EXCEPT ![l] =
         [@ EXCEPT !.step = "keyed", !.kind = k, !.table = t, !.key = ActiveSchemaKey]]
  /\ UNCHANGED <<activeSchema, cachedTables, cachedColumns, complete, switching, switches>>

Forget(schemas) ==
  /\ cachedTables' = [s \in Schemas |-> IF s \in schemas THEN Uncached ELSE cachedTables[s]]
  /\ cachedColumns' =
       [s \in Schemas |-> IF s \in schemas THEN [t \in Tables |-> Uncached] ELSE cachedColumns[s]]
  /\ complete' = [s \in Schemas |-> complete[s] /\ s \notin schemas]

AnyColumns(k) == \E t \in Tables : cachedColumns[k][t] # Uncached  \* fault: a partial cache answers
CompleteOnly(k) == complete[k]
(* What the cache answers; {Uncached} when it cannot.                      *)
Cached(l) ==
  LET k == listing[l].key IN
  CASE listing[l].kind = "tables" -> {cachedTables[k]}
    [] listing[l].kind = "refresh" -> {Uncached}
    [] listing[l].kind = "columns" -> {cachedColumns[k][listing[l].table]}
    [] OTHER -> IF CompleteOnly(k) THEN {cachedColumns[k][t] : t \in Tables} ELSE {Uncached}

LookUp(l) ==
  /\ listing[l].step = "keyed"
  /\ IF listing[l].kind = "refresh" THEN Forget({listing[l].key})
                                    ELSE UNCHANGED <<cachedTables, cachedColumns, complete>>
  /\ listing' = [listing EXCEPT ![l] =
       IF Cached(l) # {Uncached} THEN [@ EXCEPT !.step = "done", !.answer = Cached(l)]
                                 ELSE [@ EXCEPT !.step = "missed"]]
  /\ UNCHANGED <<activeSchema, switching, switches>>

(* with_pool: get_pool connects to the schema that is active now.          *)
TakePool(l) ==
  /\ listing[l].step = "missed"
  /\ listing' = [listing EXCEPT ![l] = [@ EXCEPT !.step = "fetching", !.pool = activeSchema]]
  /\ UNCHANGED <<activeSchema, cachedTables, cachedColumns, complete, switching, switches>>

CompleteWithAny(l) == listing[l].kind # "tables"  \* fault: one table's columns count as all
CompleteWith(l) == listing[l].kind = "map"
(* The catalog answers; put_tables, put_columns or put_all_columns.        *)
StoreAnswer(l) ==
  /\ listing[l].step = "fetching"
  /\ LET k == listing[l].key
         from == listing[l].pool
     IN /\ IF listing[l].kind \in {"tables", "refresh"}
             THEN /\ cachedTables' = [cachedTables EXCEPT ![k] = from]
                  /\ UNCHANGED <<cachedColumns, complete>>
             ELSE /\ cachedColumns' = [cachedColumns EXCEPT ![k] =
                       [t \in Tables |-> IF listing[l].kind = "map" \/ t = listing[l].table
                                           THEN from ELSE @[t]]]
                  /\ complete' = [complete EXCEPT ![k] = @ \/ CompleteWith(l)]
                  /\ UNCHANGED cachedTables
        /\ listing' = [listing EXCEPT ![l] = [@ EXCEPT !.step = "done", !.answer = {from}]]
  /\ UNCHANGED <<activeSchema, switching, switches>>

(* No connection, or the catalog query failed: nothing is stored.          *)
ListingFails(l) ==
  /\ listing[l].step \in {"missed", "fetching"}
  /\ listing' = [listing EXCEPT ![l] = [@ EXCEPT !.step = "done"]]
  /\ UNCHANGED <<activeSchema, cachedTables, cachedColumns, complete, switching, switches>>

----------------------------------------------------------------------------
(* set_active_schema and switch_active_schema, one at a time (DbManager    *)
(* has their overlaps): the override first, the cache in a later step.     *)
BeginSwitch ==
  /\ switching = Idle
  /\ switches < MaxSwitches
  /\ \E k \in {"select", "command"}, s \in Schemas \ {activeSchema} :
       /\ switching' = [kind |-> k, schema |-> s, previous |-> activeSchema]
       /\ activeSchema' = s
  /\ switches' = switches + 1
  /\ UNCHANGED <<cachedTables, cachedColumns, complete, listing>>

EndSwitch ==
  /\ switching.kind # "none"
  /\ Forget(Schemas)
  /\ switching' = Idle
  /\ UNCHANGED <<activeSchema, listing, switches>>

(* The confirmation of `\c` fails or is cancelled: the override is put     *)
(* back, the cache left as it is.                                          *)
RollBackSwitch ==
  /\ switching.kind = "command"
  /\ switches < MaxSwitches
  /\ activeSchema' = switching.previous
  /\ switches' = switches + 1
  /\ switching' = Idle
  /\ UNCHANGED <<cachedTables, cachedColumns, complete, listing>>

(* reset_connections: the overrides go, then the cache; here in one step.  *)
ReloadConfig ==
  /\ switching = Idle
  /\ activeSchema # DefaultSchema
  /\ switches < MaxSwitches
  /\ activeSchema' = DefaultSchema
  /\ switches' = switches + 1
  /\ Forget(Schemas)
  /\ UNCHANGED <<listing, switching>>

----------------------------------------------------------------------------
ScStep(l) == ReadKey(l) \/ LookUp(l) \/ TakePool(l) \/ StoreAnswer(l) \/ ListingFails(l)
ScNext ==
  \/ \E l \in Listings : ScStep(l)
  \/ BeginSwitch \/ EndSwitch \/ RollBackSwitch \/ ReloadConfig
ScSpec == ScInit /\ [][ScNext]_scVars

----------------------------------------------------------------------------
(* Properties *)

(* "Returns Some only when the columns of all tables are cached": the      *)
(* completion never gets a map that lacks a table, whichever order the     *)
(* lazy loads, the bulk load, refreshes and switches come in.              *)
MapIsComplete ==
  \A s \in Schemas : complete[s] => \A t \in Tables : cachedColumns[s][t] # Uncached
AnswerIsWhole == \A l \in Listings : Uncached \notin listing[l].answer

CachedIsOf(s) ==
  /\ cachedTables[s] \in {s, Uncached}
  /\ \A t \in Tables : cachedColumns[s][t] \in {s, Uncached}

(* One change of the active schema, wherever it falls among the calls      *)
(* under way, shows nobody the old schema's tables and columns: what the   *)
(* cache holds for the active schema was read from it.                     *)
OneSwitchIsSafe == switches <= 1 => CachedIsOf(activeSchema)

(* "Discard the cache per connection so that old schema information is not *)
(* returned after the switch": the same after any number of changes.       *)
CacheHoldsItsSchema == CachedIsOf(activeSchema)

(* The cache answers with all of a schema's columns or not at all, and     *)
(* with those of the active schema unless it changed twice meanwhile.      *)
CacheIsWhole == MapIsComplete /\ AnswerIsWhole /\ OneSwitchIsSafe
=============================================================================
