-------------------------------- MODULE Schema --------------------------------
(***************************************************************************)
(* The types of what ParquetSink stores: the rules of saturate/schema.py,  *)
(* and how sink.py pins a schema, probes a row against it, and at a flush  *)
(* finds the rows of a batch that do not fit.  The values a cast refuses   *)
(* are those that change: a whole number beyond 2^53 is no double.         *)
(*                                                                         *)
(* Rows and types are trees, written flat.  A schema is a function from    *)
(* the paths of its columns and fields to their kinds: a path is the names *)
(* from the column down, with "[]" for the items of a list.  A row is the  *)
(* set of its cells, one for each value in it: its path, its index in each *)
(* list around it, its kind and its content.  What the code finds by       *)
(* descending a type is then said of all its paths at once.  The order of  *)
(* fields is left out: casts match them by name.                           *)
(***************************************************************************)
EXTENDS Naturals, Sequences, FiniteSets, SequencesExt

CONSTANTS
  RowValues,      \* the rows offered
  DeclaredType,   \* schema=, when it is given
  FlushEvery,     \* flush_every
  MaxRows,        \* bound: rows offered
  MaxRestarts     \* bound: sinks made over the same directory

VARIABLES
  mode,           \* "declared", or a dynamic schema with rows "probed" (drain) or "appended"
  pin,            \* self._schema
  buf, bufTypes,  \* self._buf, self._buf_schema
  parts,          \* the directory's parts, oldest first
  offered, restarts

vars == <<mode, pin, buf, bufTypes, parts, offered, restarts>>

Scalars == {"int", "double", "text"}
Kinds   == Scalars \cup {"null", "list", "struct"}
Path    == Seq(STRING) \ {<<>>}
Cell    == [path : Path, at : Seq(Nat), k : Kinds, n : STRING]

\* A row is a tree: each value is in a list or an object, up to its column.
ASSUME SchemaAssumption ==
  /\ RowValues \subseteq SUBSET Cell
  /\ \A row \in RowValues : \A c \in row : \A n \in 1..(Len(c.path) - 1) :
       \E d \in row : /\ d.path = SubSeq(c.path, 1, n) /\ IsPrefix(d.at, c.at)
                      /\ d.k \in {"list", "struct"}
  /\ DOMAIN DeclaredType \subseteq Path /\ DeclaredType \in [DOMAIN DeclaredType -> Kinds]

-----------------------------------------------------------------------------
(* Arrow: the type of values, one type for several, the safe cast.          *)

NoColumns == [p \in {} |-> "null"]

\* One kind for values of several: a null has any, whole numbers go with doubles, and "clash"
\* is no kind: pyarrow raises.
KindOf(ks) ==
  LET typed == ks \ {"null"} IN
  CASE typed = {}                     -> "null"
    [] typed = {"int", "double"}      -> "double"
    [] \E k \in typed : typed = {k}   -> CHOOSE k \in typed : TRUE
    [] OTHER                          -> "clash"

Raises(t) == \E p \in DOMAIN t : t[p] = "clash"

\* unify_schemas
Join(types) ==
  [p \in UNION {DOMAIN t : t \in types} |-> KindOf({t[p] : t \in {u \in types : p \in DOMAIN u}})]

\* What is inferred from the cells of one or of several rows.
TypeOf(cells) ==
  [p \in {c.path : c \in cells} |-> KindOf({c.k : c \in {d \in cells : d.path = p}})]

\* The safe cast of a cell to a kind, and of a row to type t, which matches fields by name, does
\* not raise.
Goes(c, k) == c.k \in {"null", k} \/ (c.k = "int" /\ k = "double" /\ c.n # "big")
Holds(row, t) == \A c \in row : c.path \in DOMAIN t => Goes(c, t[c.path])

\* A field the type lacks is dropped.
Cast(row, t) ==
  {[c EXCEPT !.k = IF c.k = "null" THEN c.k ELSE t[c.path]] : c \in {d \in row : d.path \in DOMAIN t}}

-----------------------------------------------------------------------------
(* schema.py.                                                               *)

\* A typed leaf at path p or below it.
IsTyped(t, p) == \E q \in DOMAIN t : IsPrefix(p, q) /\ t[q] \in Scalars

WithoutUntyped(t) == [p \in {q \in DOMAIN t : IsTyped(t, q)} |-> t[p]]

\* check_storable: no empty object below a column.
Storable(t) ==
  \A p \in DOMAIN t : t[p] = "struct" /\ Len(p) > 1 => \E q \in DOMAIN t : IsStrictPrefix(p, q)

\* A kind is not crossed; a whole number goes into a double.
SameKind(k, pinned) == k = pinned \/ (k = "int" /\ pinned = "double")

\* The kind of a pinned column or field, when that of the values fits it.
FitKind(t, p) == IF SameKind(t[p], pin[p]) \/ ~IsTyped(t, p) THEN pin[p] ELSE "clash"

NewInPinned(t) ==     \* mutant: a field that a pinned column lacks is left out
  {p \in DOMAIN t \ DOMAIN pin : IsTyped(t, p) /\ <<Head(p)>> \notin DOMAIN pin}
\* Typed columns, and typed fields of a pinned struct, that the pin lacks.
New(t) == {p \in DOMAIN t \ DOMAIN pin : IsTyped(t, p)}

\* Values of type t against the pin: what it has keeps its type, what is new is appended.
Fit(t) ==
  [p \in DOMAIN pin \cup New(t) |->
     IF p \notin DOMAIN pin THEN t[p] ELSE IF p \in DOMAIN t THEN FitKind(t, p) ELSE pin[p]]

\* A key, at any depth, that the declared type has no field for.
Outside(row, t) == \E c \in row : c.path \notin DOMAIN t

-----------------------------------------------------------------------------
(* sink.py: a row, or a batch, against the pin.                             *)

\* _conform: the rows make one table, which can be stored, and fits the pin.
Conforms(rows) ==
  LET t == TypeOf(UNION rows) IN
  /\ ~Raises(t) /\ Storable(t) /\ ~Raises(Fit(t))
  /\ \A v \in rows : Holds(v, t) /\ Holds(v, Fit(t))

StoredTypes(rows) == Fit(TypeOf(UNION rows))

\* A row of the buffer: what was given, unless it is an error row.
Entry(v, bad) == [given |-> v, bad |-> bad]
Good(b) == {j \in DOMAIN b : ~b[j].bad}
Given(b, kept) == {b[j].given : j \in kept}

\* The types that rows share, each conformed alone.
Alone(b, kept) == {StoredTypes({v}) : v \in Given(b, kept)}
Shared(b, kept) == Join(Alone(b, kept))

\* _salvage: the rows that conform alone and do not clash with the pin and the earlier ones kept.
Unites(b, kept, j) ==
  /\ Conforms({b[j].given})
  /\ ~Raises(Join({pin} \cup Alone(b, {i \in kept : i < j} \cup {j})))
NoClash(b) == CHOOSE kept \in SUBSET Good(b) : \A j \in Good(b) : j \in kept <=> Unites(b, kept, j)

Misfits(b, kept) == {j \in kept : ~Holds(b[j].given, Shared(b, kept))}

DemoteMisfits(b, kept) == kept \ Misfits(b, kept)     \* mutant: all at once
\* The first row whose values do not fit the shared types is demoted.
Demote(b, kept) == kept \ {j \in Misfits(b, kept) : \A m \in Misfits(b, kept) : j <= m}

\* _cast_to_shared_types: they are worked out again without it, until every row fits.
Fitting(b, kept) ==
  LET left[n \in 0..Len(b)] == IF n = 0 THEN kept ELSE Demote(b, left[n - 1]) IN left[Len(b)]

\* The rows of a batch that are stored as they are, and the types of the table.
Kept(b) == IF Conforms(Given(b, Good(b))) THEN Good(b) ELSE Fitting(b, NoClash(b))
TableTypes(b) ==
  IF Conforms(Given(b, Good(b))) THEN StoredTypes(Given(b, Good(b))) ELSE Shared(b, Kept(b))

-----------------------------------------------------------------------------
Init ==
  /\ mode \in {"declared", "probed", "appended"}
  /\ pin = IF mode = "declared" THEN DeclaredType ELSE NoColumns
  /\ buf = <<>> /\ bufTypes = NoColumns /\ parts = <<>> /\ offered = 0 /\ restarts = 0

\* The part a buffer becomes: it carries the full schema, and the pin is what it carries.
PartOf(b, readable) ==
  LET schema == IF mode = "declared" THEN pin ELSE WithoutUntyped(Join({pin, TableTypes(b)}))
      kept   == IF mode = "declared" THEN Good(b) ELSE Kept(b)
  IN [schema |-> schema, readable |-> readable,
      rows |-> [j \in DOMAIN b |->
        [given |-> b[j].given, bad |-> j \notin kept,
         stored |-> IF j \in kept THEN Cast(b[j].given, schema) ELSE {}]]]

\* flush: every row is stored, the ones that do not fit as error rows.
Flushed(b) ==
  /\ \E part \in {PartOf(b, TRUE)} : parts' = Append(parts, part) /\ pin' = part.schema
  /\ buf' = <<>> /\ bufTypes' = NoColumns

\* probe: the row fits the pin, and the rows in the buffer.
Probe(v) ==
  IF mode = "declared" THEN ~Outside(v, pin) /\ Holds(v, pin)
  ELSE Conforms({v}) /\ ~Raises(Join({bufTypes, StoredTypes({v})}))

\* A row is probed and appended; drain makes an error row of one that does not fit, and an
\* append without a probe leaves it to the flush, which comes when the buffer is full.
Add(v) ==
  /\ offered < MaxRows /\ offered' = offered + 1
  /\ \E b \in {Append(buf, Entry(v, mode # "appended" /\ ~Probe(v)))} :
       IF Len(b) >= FlushEvery THEN Flushed(b)
       ELSE /\ buf' = b
            /\ bufTypes' = IF Probe(v) /\ mode # "declared" THEN Join({bufTypes, StoredTypes({v})})
                           ELSE bufTypes
            /\ UNCHANGED <<pin, parts>>
  /\ UNCHANGED <<mode, restarts>>

\* The run ends, or the flush interval is over.
Flush == buf # <<>> /\ Flushed(buf) /\ UNCHANGED <<mode, offered, restarts>>

Readable(ps) == {k \in DOMAIN ps : ps[k].readable}
SeedOldest(ps) == CHOOSE k \in Readable(ps) : \A j \in Readable(ps) : k <= j     \* mutant: no reversed()
Newest(ps) == CHOOSE k \in Readable(ps) : \A j \in Readable(ps) : j <= k

\* _seed_schema: a sink reads the pin back from the newest part it can read.
Seed(ps) ==
  IF mode = "declared" THEN DeclaredType
  ELSE IF Readable(ps) # {} THEN ps[Newest(ps)].schema ELSE NoColumns

\* A new sink over the directory: a run begins after one that ended, or was killed with rows
\* in the buffer, or in a write that left a truncated part.
Restart ==
  /\ restarts < MaxRestarts /\ restarts' = restarts + 1
  /\ \/ UNCHANGED parts
     \/ buf # <<>> /\ \E part \in {PartOf(buf, FALSE)} : parts' = Append(parts, part)
  /\ pin' = Seed(parts') /\ buf' = <<>> /\ bufTypes' = NoColumns
  /\ UNCHANGED <<mode, offered>>

\* All the rows of the bound are in parts.
Over == offered = MaxRows /\ buf = <<>> /\ restarts = MaxRestarts /\ UNCHANGED vars

Next == (\E v \in RowValues : Add(v)) \/ Flush \/ Restart \/ Over

Spec == Init /\ [][Next]_vars

-----------------------------------------------------------------------------
(* Properties.                                                              *)

\* Every column and field of an old schema, with the same type.
Extends(new, old) == \A p \in DOMAIN old : p \in DOMAIN new /\ new[p] = old[p]

\* "A pinned field's type never changes", "every part carries the full pinned schema": over
\* all flushes and restarts the parts can be read together, each has every column and field
\* of those before it with the same type, and so has the pin; unless a schema is declared, no
\* column without a type is ever written.
PartsReadTogether == \A k \in Readable(parts) :
  LET schema == parts[k].schema IN
  /\ ~Raises(schema) /\ (mode # "declared" => WithoutUntyped(schema) = schema)
  /\ \A j \in Readable(parts) : j < k => Extends(schema, parts[j].schema)
  /\ Extends(pin, schema)

\* What a row says: the scalars in it, 1 being 1.0, and where they are; nulls, and what holds
\* nothing else, say nothing.
Says(row, c) ==
  \E d \in row : d.k \in Scalars /\ IsPrefix(c.path, d.path) /\ IsPrefix(c.at, d.at)
Meaning(row) ==
  {[c EXCEPT !.k = IF c.k \in {"int", "double"} THEN "number" ELSE c.k] : c \in {d \in row : Says(row, d)}}

\* A row that is stored says what was given: a cast, a pin, a dropped untyped field or a
\* declared schema rewrites no value and loses no key.
ValuesKept == \A k \in Readable(parts) : \A j \in DOMAIN parts[k].rows :
  LET row == parts[k].rows[j] IN
  ~row.bad => Holds(row.given, parts[k].schema) /\ Meaning(row.stored) = Meaning(row.given)

\* Two rows cannot be stored in one table.
Disagree(v, w) ==
  LET t == TypeOf(v \cup w) IN Raises(t) \/ ~Holds(v, t) \/ ~Holds(w, t)

\* "A type conflict costs one row, never the buffer": when a buffer becomes a part each of its
\* error rows does not fit the pin, or disagrees with another row of the buffer, and if some
\* row fits the pin, some row is stored.
OneRowPerConflict ==
  [][Len(parts') > Len(parts) /\ mode # "declared" =>
       LET rows    == Last(parts').rows
           fitting == {j \in DOMAIN rows : Conforms({rows[j].given})} IN
       /\ \A j \in fitting : rows[j].bad => \E m \in DOMAIN rows \ {j} : Disagree(rows[j].given, rows[m].given)
       /\ fitting # {} => \E j \in fitting : ~rows[j].bad]_vars
=============================================================================
