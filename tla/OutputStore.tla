------------------------------ MODULE OutputStore ------------------------------
(***************************************************************************)
(* The output stores of forage-daemon (output.rs): what run_once files in  *)
(* the SQLite file of its Run, and what is read back of it later.  A table *)
(* keeps the columns of the deployment that first ran over it.             *)
(*                                                                         *)
(* A JSON value, and a cell, is <<kind, n>>: numbers count halves, so that *)
(* <<"int", 2>> is 1 and <<"digits", 3>> the string "1.5"; of all else n   *)
(* only tells values apart.                                                *)
(***************************************************************************)
EXTENDS Integers, FiniteSets

CONSTANTS
  Recipes,     \* each with its Run
  Stores,      \* output paths
  Deployments, \* [own, inherited, emits]: fields by type, the types emitted
  FieldValues, \* the JSON values that records carry
  Writers,     \* tasks inside run_once
  NoCall,
  MaxStarts,   \* bound on the runs
  MaxRecords   \* bound on the records of all

Kinds == {"null", "bool", "int", "double", "digits", "words", "compound"}
FieldTypes == {"String", "Int", "Double", "Bool", "Compound"}

(* The types emitted are in the catalog, as the validator sees to          *)
(* (UnknownType), and each field has a type.                               *)
ASSUME OutputStoreAssumption ==
  /\ MaxStarts \in Nat /\ MaxRecords \in Nat
  /\ FieldValues \subseteq Kinds \X Nat
  /\ \A m \in Deployments :
       /\ m.emits \subseteq DOMAIN m.own /\ DOMAIN m.inherited = DOMAIN m.own
       /\ \A t \in DOMAIN m.own : \A f \in DOMAIN m.own[t] : m.own[t][f].type \in FieldTypes

VARIABLES
  deployed, \* the module that each Run runs, and the path it writes to
  columns,  \* of each store, the columns of each table
  rows,     \* of each store
  writing,  \* the run_once of each task
  finished, \* the ok rows of scheduled_runs, each with what was emitted
  started   \* ids given to runs so far

storeVars == <<deployed, columns, rows, writing, finished, started>>

-------------------------------------------------------------------------------
(* Schema.                                                                 *)

StorageFor(type) ==
  CASE type = "String" -> "Text"
    [] type \in {"Int", "Bool"} -> "Integer"
    [] type = "Double" -> "Real"
    [] type = "Compound" -> "Json"

(* Of each type emitted, the fields that it declares itself.               *)
TableDef(fields) ==
  [f \in DOMAIN fields |->
     [storage |-> StorageFor(fields[f].type), optional |-> fields[f].optional]]
DeriveSchema(m) == [t \in m.emits |-> TableDef(m.own[t])]

(* CREATE TABLE IF NOT EXISTS, for those of the tables that are made.      *)
Ensured(tables, schema, made) ==
  [t \in DOMAIN tables \cup made |-> IF t \in DOMAIN tables THEN tables[t] ELSE schema[t]]

-------------------------------------------------------------------------------
(* Values on their way into a table and out of it.                         *)

Null == <<"null", 0>>
Failed == <<"failed", 0>>

Text(v) ==
  <<CASE v[1] \in {"int", "double"} -> "digits"
      [] v[1] = "bool" -> "bool text"
      [] v[1] = "compound" -> "compound text"
      [] OTHER -> v[1], v[2]>>

(* serde_json::to_string: strings get their quotes.                        *)
Serialized(v) ==
  CASE v[1] = "digits" -> <<"quoted digits", v[2]>>
    [] v[1] = "words" -> <<"quoted words", v[2]>>
    [] OTHER -> Text(v)

(* A Double that goes into an Int column loses what follows the point.     *)
BindValue(v, column) ==
  CASE v[1] = "null" -> IF column.optional THEN Null ELSE Failed
    [] v[1] # "null" /\ column.storage = "Text" -> Text(v)
    [] v[1] # "null" /\ column.storage = "Json" -> Serialized(v)
    [] v[1] \in {"int", "bool"} /\ column.storage = "Integer" -> <<"integer", v[2]>>
    [] v[1] = "double" /\ column.storage = "Integer" -> <<"integer", v[2] - (v[2] % 2)>>
    [] v[1] \in {"int", "double"} /\ column.storage = "Real" -> <<"real", v[2]>>
    [] OTHER -> Failed

(* SQLite keeps what fits the column it has: text of digits becomes a      *)
(* number in a column of numbers, a number text in a column of text.       *)
Kept(cell, storage) ==
  CASE storage \in {"Text", "Json"} ->
         IF cell[1] \in {"integer", "real"} THEN <<"digits", cell[2]>> ELSE cell
    [] storage = "Integer" ->
         IF cell[1] \in {"real", "digits"}
         THEN <<IF cell[2] % 2 = 0 THEN "integer" ELSE "real", cell[2]>> ELSE cell
    [] storage = "Real" ->
         IF cell[1] \in {"integer", "digits"} THEN <<"real", cell[2]>> ELSE cell

(* The row that a record becomes in a table with these columns, or the     *)
(* failure of the INSERT: a field that is missing or of another kind, a    *)
(* column the table has not, a NOT NULL column that stays empty.           *)
Bound(fields, def) ==
  [f \in DOMAIN def |->
     BindValue(IF f \in DOMAIN fields THEN fields[f] ELSE Null, def[f])]
Cells(table, bound) ==
  [f \in DOMAIN table |->
     IF f \in DOMAIN bound THEN Kept(bound[f], table[f].storage) ELSE Null]

(* A slip: INSERT names those columns only that the table has.             *)
TakesWhatFits(table, bound) ==
  /\ \A f \in DOMAIN bound : bound[f] # Failed
  /\ \A f \in DOMAIN table : Cells(table, bound)[f] = Null => table[f].optional

Takes(table, bound) ==
  /\ DOMAIN bound \subseteq DOMAIN table
  /\ \A f \in DOMAIN bound : bound[f] # Failed
  /\ \A f \in DOMAIN table : Cells(table, bound)[f] = Null => table[f].optional

ToJSON(cell) ==
  <<CASE cell[1] = "integer" -> "int" [] cell[1] = "real" -> "double" [] OTHER -> cell[1],
    cell[2]>>

-------------------------------------------------------------------------------
(* run_once.                                                               *)

Fields(m, t) == DOMAIN m.own[t] \cup DOMAIN m.inherited[t]
Emissions(m) ==
  UNION {{[type |-> t, fields |-> fs] : fs \in [Fields(m, t) -> FieldValues]} : t \in m.emits}
Snapshots(m) == UNION {[1..n -> Emissions(m)] : n \in 0..MaxRecords}

(* The columns that a run writes to: an ephemeral one has a store of its   *)
(* own, in memory.                                                         *)
Tables(call) ==
  IF call.ephemeral THEN DeriveSchema(call.module) ELSE columns[call.output]

Def(call, record) == DeriveSchema(call.module)[record.type]
Writable(call, record) ==
  /\ record.type \in DOMAIN DeriveSchema(call.module)
  /\ Takes(Tables(call)[record.type], Bound(record.fields, Def(call, record)))
Row(call, tables, records, i) ==
  [by |-> call.id, id |-> i, type |-> records[i].type,
   cells |-> Cells(tables[records[i].type], Bound(records[i].fields, Def(call, records[i])))]

StartRun(w, r, ephemeral) ==
  /\ writing[w] = NoCall /\ started < MaxStarts
  /\ started' = started + 1
  /\ writing' = [writing EXCEPT ![w] =
       [id |-> started, recipe |-> r, output |-> deployed[r].output,
        module |-> deployed[r].module, ephemeral |-> ephemeral,
        stage |-> "open", records |-> <<>>]]
  /\ UNCHANGED <<deployed, columns, rows, finished>>

(* Each table is made in a transaction of its own: an error leaves those   *)
(* that were made before it.                                               *)
OpenStore(w) ==
  LET call == writing[w] IN
  /\ call # NoCall /\ call.stage = "open"
  /\ \E made \in SUBSET DOMAIN DeriveSchema(call.module) :
       /\ columns' = IF call.ephemeral THEN columns
                     ELSE [columns EXCEPT ![call.output] =
                             Ensured(@, DeriveSchema(call.module), made)]
       /\ writing' = [writing EXCEPT ![w] =
            IF made = DOMAIN DeriveSchema(call.module)
            THEN [call EXCEPT !.stage = "engine"] ELSE NoCall]
  /\ UNCHANGED <<deployed, rows, finished, started>>

(* All records or, if one of them fails, none.                             *)
WriteRecords(w, records) ==
  LET call == writing[w] IN
  /\ call # NoCall /\ call.stage = "engine"
  /\ Cardinality(UNION {rows[path] : path \in Stores}) + Cardinality(DOMAIN records) <= MaxRecords
  /\ IF \A i \in DOMAIN records : Writable(call, records[i])
     THEN /\ rows' = IF call.ephemeral THEN rows
                     ELSE [rows EXCEPT ![call.output] =
                             @ \cup {Row(call, Tables(call), records, i) : i \in DOMAIN records}]
          /\ writing' = [writing EXCEPT ![w] =
                           [call EXCEPT !.stage = "persist", !.records = records]]
     ELSE rows' = rows /\ writing' = [writing EXCEPT ![w] = NoCall]
  /\ UNCHANGED <<deployed, columns, finished, started>>

RecordRun(w) ==
  LET call == writing[w] IN
  /\ call # NoCall /\ call.stage = "persist"
  /\ finished' = finished \cup {call}
  /\ writing' = [writing EXCEPT ![w] = NoCall]
  /\ UNCHANGED <<deployed, columns, rows, started>>

(* The engine fails, a file is not to be written, the daemon is killed.    *)
CallEnds(w) ==
  /\ writing[w] # NoCall
  /\ writing' = [writing EXCEPT ![w] = NoCall]
  /\ UNCHANGED <<deployed, columns, rows, finished, started>>

(* configure_run and deploy: what the next run_once finds in the row.      *)
Redeploy(r, m, path) ==
  /\ deployed' = [deployed EXCEPT ![r] = [module |-> m, output |-> path]]
  /\ UNCHANGED <<columns, rows, writing, finished, started>>

StoreInit ==
  /\ deployed \in [Recipes -> [module : Deployments, output : Stores]]
  /\ columns = [path \in Stores |-> <<>>] /\ rows = [path \in Stores |-> {}]
  /\ writing = [w \in Writers |-> NoCall]
  /\ finished = {} /\ started = 0

StoreStep(w) ==
  \/ \E r \in Recipes, ephemeral \in BOOLEAN : StartRun(w, r, ephemeral)
  \/ OpenStore(w)
  \/ writing[w] # NoCall /\ \E records \in Snapshots(writing[w].module) : WriteRecords(w, records)
  \/ RecordRun(w)
  \/ CallEnds(w)

StoreNext ==
  \/ \E w \in Writers : StoreStep(w)
  \/ \E r \in Recipes, m \in Deployments, path \in Stores : Redeploy(r, m, path)

StoreSpec == StoreInit /\ [][StoreNext]_storeVars

-------------------------------------------------------------------------------
(* Reading back.                                                           *)

CountOf(records, t) == Cardinality({i \in DOMAIN records : records[i].type = t})
CountedTypes(records) == {records[i].type : i \in DOMAIN records}

(* SELECT ... LIMIT: as many as the limit, whichever they are.             *)
Limited(found, limit) ==
  IF Cardinality({row.id : row \in found}) <= limit THEN found
  ELSE CHOOSE some \in SUBSET found : Cardinality({row.id : row \in some}) = limit

LoadRecords(path, by, t, limit) ==
  {[id |-> row.id, type |-> t, fields |-> [f \in DOMAIN row.cells |-> ToJSON(row.cells[f])]] :
     row \in Limited({r \in rows[path] : r.by = by /\ r.type = t}, limit)}

(* load_run_snapshot looks in the present output of the Run.               *)
LoadRunSnapshot(run) ==
  UNION {LoadRecords(deployed[run.recipe].output, run.id, t, CountOf(run.records, t)) :
           t \in CountedTypes(run.records)}

-------------------------------------------------------------------------------
(* What a value of the field's own type should come back as.               *)
Fits(v, type) ==
  v[1] \in CASE type = "String" -> {"digits", "words"}
             [] type = "Int" -> {"int"}
             [] type = "Double" -> {"double"}
             [] type = "Bool" -> {"bool"}
             [] type = "Compound" -> {"compound"}
Flat(v) ==
  CASE v[1] = "bool" -> <<"int", v[2]>>
    [] v[1] = "compound" -> <<"compound text", v[2]>>
    [] OTHER -> v

(* What an ok run filed is read back, as long as its Run keeps its output  *)
(* path: every record that was counted, and of it every field that its     *)
(* type declares; whatever was deployed before or since, with other runs   *)
(* over the same file, and with calls cut off half way (output.rs:         *)
(* differences of columns are errors of the run "instead of silently       *)
(* dropping data").  A value of the field's own type comes back as it was, *)
(* in a table that has the field with that type.  Of an ephemeral run      *)
(* nothing is read.                                                        *)
RecordsReadBack ==
  \A run \in finished :
    LET loaded == LoadRunSnapshot(run)
        tables == columns[run.output]
    IN
    /\ run.ephemeral => loaded = {}
    /\ ~run.ephemeral /\ deployed[run.recipe].output = run.output =>
         /\ {record.id : record \in loaded} = DOMAIN run.records
         /\ \A record \in loaded :
              LET t == record.type
                  own == run.module.own[t]
              IN
              /\ t = run.records[record.id].type
              /\ \A f \in DOMAIN own :
                   LET v == run.records[record.id].fields[f] IN
                   /\ f \in DOMAIN record.fields
                   /\ record.fields[f] = Null <=> v[1] = "null"
                   /\ Fits(v, own[f].type) /\ tables[t][f].storage = StorageFor(own[f].type)
                        => record.fields[f] = Flat(v)
===============================================================================
