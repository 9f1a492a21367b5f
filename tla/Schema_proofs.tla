----------------------------- MODULE Schema_proofs -----------------------------
(***************************************************************************)
(* Proofs about Schema: the parts of a directory can be read together,     *)
(* the rows stored say what was given, and a conflict costs one row.       *)
(***************************************************************************)
EXTENDS Schema, FiniteSetTheorems, SequenceTheorems, WellFoundedInduction, TLAPS

\* A set of natural numbers has a least element.
LEMMA Least ==
  ASSUME NEW T \in SUBSET Nat, T # {}
  PROVE  \E x \in T : \A y \in T : x <= y
<1> DEFINE R == {ss \in Nat \X Nat : ss[1] < ss[2]}
<1>1. IsWellFoundedOn(R, Nat)
  BY NatLessThanWellFounded DEF OpToRel
<1>2. \A x, y \in Nat : <<y, x>> \in R <=> y < x
  OBVIOUS
<1> HIDE DEF R
<1>3. PICK x \in T : \A y \in T : ~ (<<y, x>> \in R)
  BY <1>1, WFMin
<1>4. \A y \in T : y \in Nat /\ x \in Nat /\ ~ (y < x)
  BY <1>2, <1>3
<1>5. \A y \in T : x <= y
  BY <1>4
<1>6. QED
  BY <1>5

\* Induction: no number is the least that is missing.
LEMMA Grows ==
  ASSUME NEW T \in SUBSET Nat, 0 \in T, \A n \in T : n + 1 \in T
  PROVE  T = Nat
<1> SUFFICES ASSUME Nat \ T # {} PROVE FALSE
  OBVIOUS
<1>1. PICK x \in Nat \ T : \A y \in Nat \ T : x <= y
  BY Least
<1>2. x # 0 /\ x - 1 \in Nat
  BY <1>1
<1>3. x - 1 \in T
  BY <1>1, <1>2
<1>4. QED
  BY <1>1, <1>2, <1>3

-----------------------------------------------------------------------------
(* Kinds.                                                                   *)

\* No one kind holds both.
Apart(j, k) == j # "null" /\ k # "null" /\ j # k /\ {j, k} # {"int", "double"}

\* The kind of several is one of theirs, or none.
LEMMA KindIsOne ==
  ASSUME NEW ks, ks # {}, KindOf(ks) # "clash"
  PROVE  KindOf(ks) \in ks
<1> DEFINE typed == ks \ {"null"}
<1>1. CASE typed = {}
  BY <1>1 DEF KindOf
<1>2. CASE typed = {"int", "double"}
  BY <1>2 DEF KindOf
<1>3. CASE \E k \in typed : typed = {k}
  <2>1. typed # {} /\ typed # {"int", "double"}
    BY <1>3
  <2>2. KindOf(ks) = CHOOSE k \in typed : TRUE
    BY <1>3, <2>1 DEF KindOf
  <2>3. QED
    BY <1>3, <2>2
<1>4. CASE ~ (\E k \in typed : typed = {k}) /\ typed # {} /\ typed # {"int", "double"}
  BY <1>4 DEF KindOf
<1>5. QED
  BY <1>1, <1>2, <1>3, <1>4

\* The kind of several is that of each that is not null, or the double of a whole number.
LEMMA KindIsAll ==
  ASSUME NEW ks, KindOf(ks) # "clash", NEW k \in ks, k # "null"
  PROVE  KindOf(ks) = k \/ (k = "int" /\ KindOf(ks) = "double")
<1> DEFINE typed == ks \ {"null"}
<1>1. CASE typed = {"int", "double"}
  BY <1>1 DEF KindOf
<1>2. CASE \E j \in typed : typed = {j}
  <2>1. typed # {} /\ typed # {"int", "double"}
    BY <1>2
  <2>2. KindOf(ks) = CHOOSE j \in typed : TRUE
    BY <1>2, <2>1 DEF KindOf
  <2>3. QED
    BY <1>2, <2>2
<1>3. CASE ~ (\E j \in typed : typed = {j}) /\ typed # {"int", "double"}
  BY <1>3 DEF KindOf
<1>4. QED
  BY <1>1, <1>2, <1>3

LEMMA KindOfOne ==
  ASSUME NEW k
  PROVE  KindOf({k}) = k
<1>1. CASE k = "null"
  <2>1. {k} \ {"null"} = {}
    BY <1>1
  <2>2. QED
    BY <1>1, <2>1 DEF KindOf
<1>2. CASE k # "null"
  <2>1. {k} \ {"null"} = {k} /\ {k} # {} /\ {k} # {"int", "double"}
    BY <1>2
  <2>2. (CHOOSE j \in {k} : TRUE) = k
    OBVIOUS
  <2>3. \E j \in {k} : {k} = {j}
    OBVIOUS
  <2>4. QED
    BY <2>1, <2>2, <2>3 DEF KindOf
<1>3. QED
  BY <1>1, <1>2

\* Two kinds that are apart have none.
LEMMA ApartClash ==
  ASSUME NEW ks, NEW j \in ks, NEW k \in ks, Apart(j, k)
  PROVE  KindOf(ks) = "clash"
<1> SUFFICES ASSUME KindOf(ks) # "clash" PROVE FALSE
  OBVIOUS
<1>1. KindOf(ks) = j \/ (j = "int" /\ KindOf(ks) = "double")
  BY KindIsAll DEF Apart
<1>2. KindOf(ks) = k \/ (k = "int" /\ KindOf(ks) = "double")
  BY KindIsAll DEF Apart
<1>3. QED
  BY <1>1, <1>2 DEF Apart

\* Nor has a kind that is none.
LEMMA ClashClash ==
  ASSUME NEW ks, "clash" \in ks
  PROVE  KindOf(ks) = "clash"
<1> SUFFICES ASSUME KindOf(ks) # "clash" PROVE FALSE
  OBVIOUS
<1>1. QED
  BY KindIsAll

\* There is no one kind only where two are apart.
LEMMA ClashApart ==
  ASSUME NEW ks, KindOf(ks) = "clash", "clash" \notin ks
  PROVE  \E j, k \in ks : Apart(j, k)
<1> DEFINE typed == ks \ {"null"}
<1>1. typed # {} /\ typed # {"int", "double"} /\ ~ \E k \in typed : typed = {k}
  <2>1. typed # {}
    BY DEF KindOf
  <2>2. typed # {"int", "double"}
    BY <2>1 DEF KindOf
  <2>3. ASSUME \E k \in typed : typed = {k} PROVE FALSE
    <3>1. KindOf(ks) = CHOOSE k \in typed : TRUE
      BY <2>1, <2>2, <2>3 DEF KindOf
    <3>2. KindOf(ks) \in typed
      BY <2>1, <3>1
    <3>3. QED
      BY <3>2
  <2>4. QED
    BY <2>1, <2>2, <2>3
<1>2. PICK j \in typed : TRUE
  BY <1>1
<1>3. PICK k \in typed : k # j
  BY <1>1, <1>2
<1>4. CASE {j, k} # {"int", "double"}
  BY <1>2, <1>3, <1>4 DEF Apart
<1>5. CASE {j, k} = {"int", "double"}
  <2>1. PICK i \in typed : i # j /\ i # k
    BY <1>1, <1>2, <1>3, <1>5
  <2>2. {i, j} # {"int", "double"}
    BY <1>5, <2>1
  <2>3. QED
    BY <1>2, <2>1, <2>2 DEF Apart
<1>6. QED
  BY <1>4, <1>5

-----------------------------------------------------------------------------
(* Joins.                                                                   *)

\* The kinds that types give a path.
At(types, p) == {t[p] : t \in {u \in types : p \in DOMAIN u}}

LEMMA JoinIs ==
  ASSUME NEW types
  PROVE  /\ Join(types) = [p \in DOMAIN Join(types) |-> Join(types)[p]]
         /\ \A p : p \in DOMAIN Join(types) <=> \E t \in types : p \in DOMAIN t
         /\ \A p \in DOMAIN Join(types) : Join(types)[p] = KindOf(At(types, p)) /\ At(types, p) # {}
BY DEF Join, At

\* Where types have one, it is the kind one of them has.
LEMMA JoinIsOne ==
  ASSUME NEW types, NEW p \in DOMAIN Join(types), Join(types)[p] # "clash"
  PROVE  \E t \in types : p \in DOMAIN t /\ t[p] = Join(types)[p]
<1>1. Join(types)[p] \in At(types, p)
  BY JoinIs, KindIsOne
<1>2. QED
  BY <1>1 DEF At

\* And every other has that, or whole numbers where it is double.
LEMMA JoinIsAll ==
  ASSUME NEW types, NEW t \in types, NEW p \in DOMAIN t, t[p] # "null", ~Raises(Join(types))
  PROVE  /\ p \in DOMAIN Join(types)
         /\ Join(types)[p] = t[p] \/ (t[p] = "int" /\ Join(types)[p] = "double")
<1>1. p \in DOMAIN Join(types)
  BY JoinIs
<1>2. Join(types)[p] = KindOf(At(types, p)) /\ KindOf(At(types, p)) # "clash"
  BY <1>1, JoinIs DEF Raises
<1>3. t[p] \in At(types, p)
  BY DEF At
<1>4. QED
  BY <1>1, <1>2, <1>3, KindIsAll

\* Two types that no type unites.
Conflict(t, u) == \E p \in DOMAIN t : p \in DOMAIN u /\ Apart(t[p], u[p])

LEMMA ConflictRaises ==
  ASSUME NEW types, NEW t \in types, NEW u \in types, Conflict(t, u)
  PROVE  Raises(Join(types))
<1>1. PICK p \in DOMAIN t : p \in DOMAIN u /\ Apart(t[p], u[p])
  BY DEF Conflict
<1>2. t[p] \in At(types, p) /\ u[p] \in At(types, p)
  BY <1>1 DEF At
<1>3. p \in DOMAIN Join(types)
  BY <1>1, JoinIs
<1>4. Join(types)[p] = "clash"
  BY <1>1, <1>2, <1>3, JoinIs, ApartClash
<1>5. QED
  BY <1>3, <1>4 DEF Raises

LEMMA RaisesConflict ==
  ASSUME NEW types, Raises(Join(types)), \A t \in types : ~Raises(t)
  PROVE  \E t, u \in types : Conflict(t, u)
<1>1. PICK p \in DOMAIN Join(types) : Join(types)[p] = "clash"
  BY DEF Raises
<1>2. KindOf(At(types, p)) = "clash"
  BY <1>1, JoinIs
<1>3. "clash" \notin At(types, p)
  BY DEF At, Raises
<1>4. PICK j, k \in At(types, p) : Apart(j, k)
  BY <1>2, <1>3, ClashApart
<1>5. PICK t \in types : p \in DOMAIN t /\ t[p] = j
  BY <1>4 DEF At
<1>6. PICK u \in types : p \in DOMAIN u /\ u[p] = k
  BY <1>4 DEF At
<1>7. QED
  BY <1>4, <1>5, <1>6 DEF Conflict

-----------------------------------------------------------------------------
(* Types with a kind for each path, and a typed leaf below each: the pin,   *)
(* what a row is stored as, and the schema of a part.                       *)

Whole(t) ==
  /\ t = [p \in DOMAIN t |-> t[p]] /\ DOMAIN t \subseteq Path
  /\ \A p \in DOMAIN t : t[p] \in Kinds \ {"null"} /\ IsTyped(t, p)

LEMMA PrefixSelf ==
  ASSUME NEW p \in Path
  PROVE  IsPrefix(p, p)
<1>1. p \in Seq(STRING) /\ Len(p) \in Nat
  BY LenProperties DEF Path
<1>2. QED
  BY <1>1 DEF IsPrefix

LEMMA WholeFixed ==
  ASSUME NEW t, Whole(t)
  PROVE  WithoutUntyped(t) = t /\ ~Raises(t)
<1>1. {q \in DOMAIN t : IsTyped(t, q)} = DOMAIN t
  BY DEF Whole
<1>2. WithoutUntyped(t) = t
  BY <1>1 DEF Whole, WithoutUntyped
<1>3. ~Raises(t)
  BY DEF Whole, Raises, Kinds, Scalars
<1>4. QED
  BY <1>2, <1>3

LEMMA NoColumnsWhole == Whole(NoColumns)
BY DEF Whole, NoColumns

\* A type that unites whole ones is whole.
LEMMA JoinWhole ==
  ASSUME NEW types, \A t \in types : Whole(t), ~Raises(Join(types))
  PROVE  Whole(Join(types))
<1> DEFINE all == Join(types)
<1>1. all = [p \in DOMAIN all |-> all[p]]
  BY JoinIs
<1>2. ASSUME NEW p \in DOMAIN all
      PROVE  p \in Path /\ all[p] \in Kinds \ {"null"} /\ IsTyped(all, p)
  <2>1. PICK t \in types : p \in DOMAIN t /\ t[p] = all[p]
    BY <1>2, JoinIsOne DEF Raises
  <2>2. p \in Path /\ all[p] \in Kinds \ {"null"}
    BY <2>1 DEF Whole
  <2>3. PICK q \in DOMAIN t : IsPrefix(p, q) /\ t[q] \in Scalars
    BY <2>1 DEF Whole, IsTyped
  <2>4. t[q] # "null"
    BY <2>3 DEF Scalars
  <2>5. q \in DOMAIN all /\ (all[q] = t[q] \/ (t[q] = "int" /\ all[q] = "double"))
    BY <2>3, <2>4, JoinIsAll
  <2>6. all[q] \in Scalars
    BY <2>3, <2>5 DEF Scalars
  <2>7. IsTyped(all, p)
    BY <2>3, <2>5, <2>6 DEF IsTyped
  <2>8. QED
    BY <2>2, <2>7
<1>3. QED
  BY <1>1, <1>2 DEF Whole

\* What all of some types extend, the type that unites them extends.
LEMMA JoinExtends ==
  ASSUME NEW types, types # {}, NEW base, \A t \in types : Extends(t, base)
  PROVE  Extends(Join(types), base)
<1>1. ASSUME NEW p \in DOMAIN base PROVE p \in DOMAIN Join(types) /\ Join(types)[p] = base[p]
  <2>1. \A t \in types : p \in DOMAIN t /\ t[p] = base[p]
    BY <1>1 DEF Extends
  <2>2. At(types, p) = {base[p]}
    BY <2>1 DEF At
  <2>3. p \in DOMAIN Join(types)
    BY <2>1, JoinIs
  <2>4. QED
    BY <2>2, <2>3, JoinIs, KindOfOne
<1>2. QED
  BY <1>1 DEF Extends

\* A type that extends another is what unites them.
LEMMA JoinExtended ==
  ASSUME NEW base, NEW t, t = [p \in DOMAIN t |-> t[p]], Extends(t, base)
  PROVE  Join({base, t}) = t
<1> DEFINE all == Join({base, t})
<1>1. ASSUME NEW p PROVE p \in DOMAIN all <=> p \in DOMAIN t
  BY JoinIs DEF Extends
<1>2. ASSUME NEW p \in DOMAIN t PROVE all[p] = t[p]
  <2>1. At({base, t}, p) = {t[p]}
    BY <1>2 DEF At, Extends
  <2>2. p \in DOMAIN all
    BY <1>1, <1>2
  <2>3. all[p] = KindOf(At({base, t}, p))
    BY <2>2, JoinIs
  <2>4. QED
    BY <2>1, <2>3, KindOfOne
<1>3. DOMAIN all = DOMAIN t
  BY <1>1
<1>4. all = [p \in DOMAIN all |-> all[p]]
  BY JoinIs
<1>5. QED
  BY <1>2, <1>3, <1>4

LEMMA JoinOfOne ==
  ASSUME NEW t, t = [p \in DOMAIN t |-> t[p]]
  PROVE  Join({t}) = t
<1>1. Extends(t, t)
  BY DEF Extends
<1>2. {t, t} = {t}
  OBVIOUS
<1>3. QED
  BY <1>1, <1>2, JoinExtended

LEMMA JoinNoColumns ==
  ASSUME NEW t, t = [p \in DOMAIN t |-> t[p]]
  PROVE  Join({t, NoColumns}) = t
<1>1. Extends(t, NoColumns)
  BY DEF Extends, NoColumns
<1>2. {t, NoColumns} = {NoColumns, t}
  OBVIOUS
<1>3. QED
  BY <1>1, <1>2, JoinExtended

LEMMA ExtendsTransitive ==
  ASSUME NEW s, NEW t, NEW u, Extends(s, t), Extends(t, u)
  PROVE  Extends(s, u)
BY DEF Extends

-----------------------------------------------------------------------------
(* The types of rows.                                                       *)

KindsIn(cells, p) == {c.k : c \in {d \in cells : d.path = p}}

LEMMA TypeIs ==
  ASSUME NEW cells
  PROVE  /\ \A p : p \in DOMAIN TypeOf(cells) <=> \E c \in cells : c.path = p
         /\ \A p \in DOMAIN TypeOf(cells) :
              TypeOf(cells)[p] = KindOf(KindsIn(cells, p)) /\ KindsIn(cells, p) # {}
BY DEF TypeOf, KindsIn

\* Where cells have one type, it is the kind of one of them.
LEMMA TypeIsOne ==
  ASSUME NEW cells, NEW p \in DOMAIN TypeOf(cells), TypeOf(cells)[p] # "clash"
  PROVE  \E c \in cells : c.path = p /\ c.k = TypeOf(cells)[p]
<1>1. TypeOf(cells)[p] \in KindsIn(cells, p)
  BY TypeIs, KindIsOne
<1>2. QED
  BY <1>1 DEF KindsIn

LEMMA TypeIsAll ==
  ASSUME NEW cells, NEW c \in cells, c.k # "null", ~Raises(TypeOf(cells))
  PROVE  /\ c.path \in DOMAIN TypeOf(cells)
         /\ TypeOf(cells)[c.path] = c.k \/ (c.k = "int" /\ TypeOf(cells)[c.path] = "double")
<1>1. c.path \in DOMAIN TypeOf(cells)
  BY TypeIs
<1>2. /\ TypeOf(cells)[c.path] = KindOf(KindsIn(cells, c.path))
      /\ KindOf(KindsIn(cells, c.path)) # "clash"
  BY <1>1, TypeIs DEF Raises
<1>3. c.k \in KindsIn(cells, c.path)
  BY DEF KindsIn
<1>4. QED
  BY <1>1, <1>2, <1>3, KindIsAll

LEMMA PrefixIs ==
  ASSUME NEW p \in Path, NEW q \in Path, IsPrefix(p, q), p # q
  PROVE  Len(p) \in 1..(Len(q) - 1) /\ p = SubSeq(q, 1, Len(p))
<1>1. p \in Seq(STRING) /\ q \in Seq(STRING) /\ p # <<>>
  BY DEF Path
<1>2. Len(p) \in Nat /\ Len(q) \in Nat /\ Len(p) # 0
  BY <1>1, LenProperties, EmptySeq
<1>3. Len(p) <= Len(q) /\ p = SubSeq(q, 1, Len(p))
  BY <1>1, SubSeqFull DEF IsPrefix
<1>4. Len(p) # Len(q)
  BY <1>1, <1>3, SubSeqFull
<1>5. QED
  BY <1>2, <1>3, <1>4

\* In the type of rows, what has a typed leaf is no null: rows are trees.
LEMMA TypedKind ==
  ASSUME NEW rows \in SUBSET RowValues, ~Raises(TypeOf(UNION rows)),
         NEW p \in DOMAIN TypeOf(UNION rows), IsTyped(TypeOf(UNION rows), p)
  PROVE  p \in Path /\ TypeOf(UNION rows)[p] \in Kinds \ {"null"}
<1> DEFINE cells == UNION rows
           t     == TypeOf(cells)
<1>1. \A c \in cells : c \in Cell
  BY SchemaAssumption
<1>2. t[p] # "clash"
  BY DEF Raises
<1>3. PICK b \in cells : b.path = p /\ b.k = t[p]
  BY <1>2, TypeIsOne
<1>4. p \in Path /\ t[p] \in Kinds
  BY <1>1, <1>3 DEF Cell
<1>5. PICK q \in DOMAIN t : IsPrefix(p, q) /\ t[q] \in Scalars
  BY DEF IsTyped
<1>6. t[q] # "clash" /\ t[q] # "null"
  BY <1>5 DEF Scalars
<1>7. PICK row \in rows : \E c \in row : c.path = q /\ c.k = t[q]
  BY <1>5, <1>6, TypeIsOne
<1>8. PICK c \in row : c.path = q /\ c.k = t[q]
  BY <1>7
<1>9. q \in Path
  BY <1>1, <1>8 DEF Cell
<1>10. CASE p = q
  BY <1>4, <1>6, <1>10
<1>11. CASE p # q
  <2>1. Len(p) \in 1..(Len(q) - 1) /\ p = SubSeq(q, 1, Len(p))
    BY <1>4, <1>5, <1>9, <1>11, PrefixIs
  <2>2. PICK d \in row : d.path = p /\ d.k \in {"list", "struct"}
    <3>1. row \in RowValues
      BY <1>7
    <3>2. \A n \in 1..(Len(c.path) - 1) :
            \E d \in row : /\ d.path = SubSeq(c.path, 1, n) /\ IsPrefix(d.at, c.at)
                           /\ d.k \in {"list", "struct"}
      BY <1>8, <3>1, SchemaAssumption
    <3>3. \A n \in 1..(Len(q) - 1) :
            \E d \in row : d.path = SubSeq(q, 1, n) /\ d.k \in {"list", "struct"}
      BY <1>8, <3>2
    <3>4. QED
      BY <2>1, <3>3
  <2>3. d \in cells /\ d.k # "null"
    BY <2>2
  <2>4. t[p] = d.k \/ (d.k = "int" /\ t[p] = "double")
    BY <2>2, <2>3, TypeIsAll
  <2>5. QED
    BY <1>4, <2>2, <2>4
<1>12. QED
  BY <1>10, <1>11

LEMMA TypeTypes ==
  ASSUME NEW rows \in SUBSET RowValues
  PROVE  DOMAIN TypeOf(UNION rows) \subseteq Path
<1>1. \A c \in UNION rows : c.path \in Path
  BY SchemaAssumption DEF Cell
<1>2. QED
  BY <1>1, TypeIs

\* What rows that conform are stored as.
LEMMA StoredIs ==
  ASSUME NEW rows \in SUBSET RowValues, Conforms(rows), Whole(pin)
  PROVE  /\ Whole(StoredTypes(rows)) /\ Extends(StoredTypes(rows), pin)
         /\ \A p \in DOMAIN StoredTypes(rows) \ DOMAIN pin :
              p \in DOMAIN TypeOf(UNION rows) /\ StoredTypes(rows)[p] = TypeOf(UNION rows)[p]
         /\ \A p \in DOMAIN TypeOf(UNION rows) :
              IsTyped(TypeOf(UNION rows), p) => p \in DOMAIN StoredTypes(rows)
<1> DEFINE t  == TypeOf(UNION rows)
           st == StoredTypes(rows)
<1>1. ~Raises(t) /\ ~Raises(st)
  BY DEF Conforms, StoredTypes
<1>2. st = [p \in DOMAIN pin \cup New(t) |->
              IF p \notin DOMAIN pin THEN t[p] ELSE IF p \in DOMAIN t THEN FitKind(t, p) ELSE pin[p]]
  BY DEF StoredTypes, Fit
<1>3. DOMAIN st = DOMAIN pin \cup New(t) /\ st = [p \in DOMAIN st |-> st[p]]
  BY <1>2
<1>4. ASSUME NEW p \in DOMAIN pin PROVE p \in DOMAIN st /\ st[p] = pin[p]
  <2>1. p \in DOMAIN st /\ st[p] # "clash"
    BY <1>1, <1>3 DEF Raises
  <2>2. QED
    BY <1>2, <2>1 DEF FitKind
<1>5. ASSUME NEW p \in DOMAIN st \ DOMAIN pin
      PROVE  p \in DOMAIN t /\ st[p] = t[p] /\ IsTyped(t, p)
  BY <1>2, <1>3 DEF New
<1>6. ASSUME NEW q \in DOMAIN t, t[q] \in Scalars PROVE q \in DOMAIN st /\ st[q] \in Scalars
  <2>1. q \in Path
    BY <1>6, TypeTypes
  <2>2. IsTyped(t, q)
    BY <1>6, <2>1, PrefixSelf DEF IsTyped
  <2>3. CASE q \in DOMAIN pin
    <3>1. st[q] # "clash" /\ q \in DOMAIN st
      BY <1>4, <2>3, <1>1 DEF Raises
    <3>2. st[q] = FitKind(t, q)
      BY <1>2, <1>6, <2>3
    <3>3. SameKind(t[q], pin[q])
      BY <2>2, <3>1, <3>2 DEF FitKind
    <3>4. pin[q] \in Scalars
      BY <1>6, <3>3 DEF SameKind, Scalars
    <3>5. QED
      BY <1>4, <2>3, <3>4
  <2>4. CASE q \notin DOMAIN pin
    BY <1>2, <1>3, <1>6, <2>2, <2>4 DEF New
  <2>5. QED
    BY <2>3, <2>4
<1>7. ASSUME NEW p \in DOMAIN st PROVE p \in Path /\ st[p] \in Kinds \ {"null"} /\ IsTyped(st, p)
  <2>1. CASE p \in DOMAIN pin
    <3>1. p \in Path /\ pin[p] \in Kinds \ {"null"}
      BY <2>1 DEF Whole
    <3>2. PICK q \in DOMAIN pin : IsPrefix(p, q) /\ pin[q] \in Scalars
      BY <2>1 DEF Whole, IsTyped
    <3>3. IsTyped(st, p)
      BY <1>4, <3>2 DEF IsTyped
    <3>4. QED
      BY <1>4, <2>1, <3>1, <3>3
  <2>2. CASE p \notin DOMAIN pin
    <3>1. p \in DOMAIN t /\ st[p] = t[p] /\ IsTyped(t, p)
      BY <1>5, <1>7, <2>2
    <3>2. p \in Path /\ t[p] \in Kinds \ {"null"}
      BY <1>1, <3>1, TypedKind
    <3>3. PICK q \in DOMAIN t : IsPrefix(p, q) /\ t[q] \in Scalars
      BY <3>1 DEF IsTyped
    <3>4. IsTyped(st, p)
      BY <1>6, <3>3 DEF IsTyped
    <3>5. QED
      BY <3>1, <3>2, <3>4
  <2>3. QED
    BY <2>1, <2>2
<1>8. Whole(st)
  BY <1>3, <1>7 DEF Whole
<1>9. Extends(st, pin)
  BY <1>4 DEF Extends
<1>10. ASSUME NEW p \in DOMAIN t, IsTyped(t, p) PROVE p \in DOMAIN st
  BY <1>3, <1>10 DEF New
<1>11. QED
  BY <1>5, <1>8, <1>9, <1>10

-----------------------------------------------------------------------------
(* Rows that cannot be stored together.                                     *)

\* What a row that conforms alone is stored as.
OwnSound(v) ==
  LET st == StoredTypes({v}) IN
  /\ Whole(st) /\ Extends(st, pin) /\ Holds(v, st) /\ ~Raises(TypeOf(v))
  /\ \A p \in DOMAIN st \ DOMAIN pin : p \in DOMAIN TypeOf(v) /\ st[p] = TypeOf(v)[p]
  /\ \A p \in DOMAIN TypeOf(v) : IsTyped(TypeOf(v), p) => p \in DOMAIN st

LEMMA OwnIs ==
  ASSUME NEW v \in RowValues, Conforms({v}), Whole(pin)
  PROVE  OwnSound(v)
<1>1. {v} \in SUBSET RowValues /\ UNION {v} = v
  OBVIOUS
<1>2. ~Raises(TypeOf(v)) /\ Holds(v, StoredTypes({v}))
  BY <1>1 DEF Conforms, StoredTypes
<1>3. QED
  BY <1>1, <1>2, StoredIs DEF OwnSound

LEMMA DisagreeBoth ==
  ASSUME NEW v, NEW w, Disagree(v, w)
  PROVE  Disagree(w, v)
<1>1. v \cup w = w \cup v
  OBVIOUS
<1>2. QED
  BY <1>1 DEF Disagree

LEMMA ConflictBoth ==
  ASSUME NEW t, NEW u, Conflict(t, u)
  PROVE  Conflict(u, t)
<1>1. PICK p \in DOMAIN t : p \in DOMAIN u /\ Apart(t[p], u[p])
  BY DEF Conflict
<1>2. {t[p], u[p]} = {u[p], t[p]}
  OBVIOUS
<1>3. Apart(u[p], t[p])
  BY <1>1, <1>2 DEF Apart
<1>4. QED
  BY <1>1, <1>3 DEF Conflict

\* Rows whose types clash disagree: not about a pinned field, so in what they say.
LEMMA ConflictDisagrees ==
  ASSUME NEW v, NEW w, OwnSound(v), OwnSound(w), Conflict(StoredTypes({v}), StoredTypes({w}))
  PROVE  Disagree(v, w)
<1> DEFINE sv == StoredTypes({v})
           sw == StoredTypes({w})
           all == TypeOf(v \cup w)
<1>1. PICK p \in DOMAIN sv : p \in DOMAIN sw /\ Apart(sv[p], sw[p])
  BY DEF Conflict
<1>2. p \notin DOMAIN pin
  BY <1>1 DEF OwnSound, Extends, Apart
<1>3. /\ p \in DOMAIN TypeOf(v) /\ sv[p] = TypeOf(v)[p] /\ TypeOf(v)[p] # "clash"
      /\ p \in DOMAIN TypeOf(w) /\ sw[p] = TypeOf(w)[p] /\ TypeOf(w)[p] # "clash"
  BY <1>1, <1>2 DEF OwnSound, Raises
<1>4. PICK c \in v : c.path = p /\ c.k = sv[p]
  BY <1>3, TypeIsOne
<1>5. PICK d \in w : d.path = p /\ d.k = sw[p]
  BY <1>3, TypeIsOne
<1>6. c.k \in KindsIn(v \cup w, p) /\ d.k \in KindsIn(v \cup w, p)
  BY <1>4, <1>5 DEF KindsIn
<1>7. p \in DOMAIN all
  BY <1>4, TypeIs
<1>8. KindOf(KindsIn(v \cup w, p)) = "clash"
  BY <1>1, <1>4, <1>5, <1>6, ApartClash
<1>9. all[p] = "clash"
  BY <1>7, <1>8, TypeIs
<1>10. QED
  BY <1>7, <1>9 DEF Disagree, Raises

\* A row whose values do not fit the types that rows share disagrees with one of them: the
\* one whose type is the shared one.
LEMMA MisfitDisagrees ==
  ASSUME NEW rows, \A w \in rows : OwnSound(w), NEW v \in rows,
         NEW types, types = {StoredTypes({w}) : w \in rows},
         ~Raises(Join(types)), ~Holds(v, Join(types))
  PROVE  \E w \in rows : w # v /\ Disagree(v, w)
<1> DEFINE sv  == StoredTypes({v})
           all == Join(types)
<1>1. PICK c \in v : c.path \in DOMAIN all /\ ~Goes(c, all[c.path])
  BY DEF Holds
<1> DEFINE p == c.path
<1>2. OwnSound(v) /\ sv \in types
  OBVIOUS
<1>3. p \notin DOMAIN sv \/ sv[p] # all[p]
  BY <1>1, <1>2 DEF OwnSound, Holds
<1>4. p \notin DOMAIN pin
  <2> SUFFICES ASSUME p \in DOMAIN pin PROVE FALSE
    OBVIOUS
  <2>1. \A t \in types : Extends(t, pin)
    BY DEF OwnSound
  <2>2. Extends(all, pin) /\ Extends(sv, pin)
    BY <1>2, <2>1, JoinExtends
  <2>3. QED
    BY <1>3, <2>2 DEF Extends
<1>5. PICK t \in types : p \in DOMAIN t /\ t[p] = all[p]
  BY <1>1, JoinIsOne DEF Raises
<1>6. PICK w \in rows : t = StoredTypes({w})
  BY <1>5
<1>7. OwnSound(w) /\ w # v
  BY <1>3, <1>5, <1>6
<1>8. p \in DOMAIN TypeOf(w) /\ TypeOf(w)[p] = all[p] /\ all[p] \in Kinds \ {"null"}
  BY <1>4, <1>5, <1>6, <1>7 DEF OwnSound, Whole
<1>9. TypeOf(w)[p] # "clash"
  BY <1>8 DEF Kinds, Scalars
<1>10. PICK d \in w : d.path = p /\ d.k = all[p]
  <2>1. \E d \in w : d.path = p /\ d.k = TypeOf(w)[p]
    BY <1>8, <1>9, TypeIsOne
  <2>2. QED
    BY <1>8, <2>1
<1>11. ~ (all[p] = "int" /\ c.k = "double")
  <2> SUFFICES ASSUME all[p] = "int", c.k = "double" PROVE FALSE
    OBVIOUS
  <2>1. p \in DOMAIN TypeOf(v) /\ TypeOf(v)[p] = "double"
    BY <1>2, TypeIsAll DEF OwnSound
  <2>2. p \in Path
    BY <1>5, <1>6, <1>7 DEF OwnSound, Whole
  <2>3. IsTyped(TypeOf(v), p)
    BY <2>1, <2>2, PrefixSelf DEF IsTyped, Scalars
  <2>4. p \in DOMAIN sv /\ sv[p] = "double"
    BY <1>2, <1>4, <2>1, <2>3 DEF OwnSound
  <2>5. all[p] = "double"
    BY <1>2, <2>4, JoinIsAll
  <2>6. QED
    BY <2>5
<1>12. SUFFICES ASSUME ~Raises(TypeOf(v \cup w)) PROVE ~Holds(v, TypeOf(v \cup w))
  BY <1>7 DEF Disagree
<1> DEFINE both == TypeOf(v \cup w)
<1>13. p \in DOMAIN both /\ (both[p] = all[p] \/ (all[p] = "int" /\ both[p] = "double"))
  <2>1. d \in v \cup w /\ d.k # "null"
    BY <1>8, <1>10
  <2>2. d.path \in DOMAIN both /\ (both[d.path] = d.k \/ (d.k = "int" /\ both[d.path] = "double"))
    BY <1>12, <2>1, TypeIsAll
  <2> HIDE DEF both, p, all
  <2>3. QED
    BY <1>10, <2>2
<1>14. c.k # "null" /\ c.k # all[p]
  BY <1>1 DEF Goes
<1>15. both[p] = c.k \/ (c.k = "int" /\ both[p] = "double")
  <2>1. c \in v \cup w
    OBVIOUS
  <2>2. QED
    BY <1>12, <1>14, <2>1, TypeIsAll
<1>16. both[p] = all[p]
  BY <1>11, <1>13, <1>14, <1>15
<1>17. QED
  BY <1>1, <1>13, <1>16 DEF Holds

-----------------------------------------------------------------------------
(* The salvage: which rows of a batch are kept.                             *)

Entries == [given : RowValues, bad : BOOLEAN]
Batch(b) == b \in Seq(Entries)
Fits(b, j) == Conforms({b[j].given})
Own(b, j) == StoredTypes({b[j].given})

LEMMA BatchIs ==
  ASSUME NEW b, Batch(b)
  PROVE  /\ Len(b) \in Nat /\ DOMAIN b = 1..Len(b) /\ Good(b) \subseteq DOMAIN b
         /\ \A j \in DOMAIN b : b[j].given \in RowValues
<1>1. Len(b) \in Nat /\ DOMAIN b = 1..Len(b) /\ \A j \in DOMAIN b : b[j] \in Entries
  BY LenProperties, ElementOfSeq DEF Batch
<1>2. QED
  BY <1>1 DEF Entries, Good

\* The rows kept of the first n.
Saves(b, kept, n) ==
  /\ kept \subseteq {j \in Good(b) : j <= n}
  /\ \A j \in Good(b) : j <= n => (j \in kept <=> Unites(b, kept, j))

\* Whether a row is kept depends on the rows before it.
LEMMA UnitesBefore ==
  ASSUME NEW b, NEW k1, NEW k2, NEW j, {i \in k1 : i < j} = {i \in k2 : i < j}
  PROVE  Unites(b, k1, j) <=> Unites(b, k2, j)
BY DEF Unites

LEMMA SavesExist ==
  ASSUME NEW b, Batch(b)
  PROVE  \A n \in Nat : \E kept : Saves(b, kept, n)
<1> DEFINE T == {n \in Nat : \E kept : Saves(b, kept, n)}
<1>1. Good(b) \subseteq Nat \ {0}
  BY BatchIs
<1>2. 0 \in T
  <2>1. \A j \in Good(b) : ~ (j <= 0)
    BY <1>1
  <2>2. Saves(b, {}, 0)
    BY <2>1 DEF Saves
  <2>3. QED
    BY <2>2
<1>3. ASSUME NEW n \in T PROVE n + 1 \in T
  <2>1. PICK kept : Saves(b, kept, n)
    OBVIOUS
  <2>2. n \in Nat /\ n + 1 \in Nat
    OBVIOUS
  <2> DEFINE more == IF n + 1 \in Good(b) /\ Unites(b, kept, n + 1) THEN kept \cup {n + 1} ELSE kept
  <2>3. \A i \in kept : i \in Good(b) /\ i <= n
    BY <2>1 DEF Saves
  <2>4. \A j \in Good(b) : j <= n + 1 => {i \in more : i < j} = {i \in kept : i < j}
    <3> SUFFICES ASSUME NEW j \in Good(b), j <= n + 1 PROVE {i \in more : i < j} = {i \in kept : i < j}
      OBVIOUS
    <3>1. ~ (n + 1 < j)
      BY <1>1, <2>2
    <3>2. QED
      BY <3>1
  <2>5. \A j \in Good(b) : j <= n + 1 => (Unites(b, more, j) <=> Unites(b, kept, j))
    <3> HIDE DEF more
    <3>1. QED
      BY <2>4, UnitesBefore
  <2>6. more \subseteq {j \in Good(b) : j <= n + 1}
    BY <1>1, <2>2, <2>3
  <2>7. ASSUME NEW j \in Good(b), j <= n + 1
        PROVE  j \in more <=> Unites(b, kept, j)
    <3>1. CASE j <= n
      <4>1. j # n + 1
        BY <1>1, <2>2, <3>1
      <4>2. j \in kept <=> Unites(b, kept, j)
        BY <2>1, <3>1 DEF Saves
      <4>3. QED
        BY <4>1, <4>2
    <3>2. CASE j = n + 1
      <4>1. n + 1 \notin kept
        BY <2>2, <2>3
      <4>2. QED
        BY <2>7, <3>2, <4>1
    <3>3. QED
      BY <1>1, <2>2, <2>7, <3>1, <3>2
  <2>8. Saves(b, more, n + 1)
    <3> HIDE DEF more
    <3>1. QED
      BY <2>5, <2>6, <2>7 DEF Saves
  <2>9. QED
    BY <2>2, <2>8
<1>4. T = Nat
  <2> HIDE DEF T
  <2>1. T \subseteq Nat
    BY DEF T
  <2>2. QED
    BY <1>2, <1>3, <2>1, Grows
<1>5. QED
  BY <1>4

\* What the choice in NoClash finds.
LEMMA NoClashIs ==
  ASSUME NEW b, Batch(b)
  PROVE  /\ NoClash(b) \in SUBSET Good(b)
         /\ \A j \in Good(b) : j \in NoClash(b) <=> Unites(b, NoClash(b), j)
<1>1. PICK kept : Saves(b, kept, Len(b))
  BY BatchIs, SavesExist
<1>2. \A j \in Good(b) : j <= Len(b)
  BY BatchIs
<1>3. kept \in SUBSET Good(b) /\ \A j \in Good(b) : j \in kept <=> Unites(b, kept, j)
  BY <1>1, <1>2 DEF Saves
<1>4. QED
  BY <1>3 DEF NoClash

LEMMA AloneIs ==
  ASSUME NEW b, NEW kept
  PROVE  /\ Alone(b, kept) = {Own(b, j) : j \in kept}
         /\ Alone(b, kept) = {StoredTypes({w}) : w \in Given(b, kept)}
BY DEF Alone, Given, Own

\* Rows that conform alone, no two of which clash.
Compatible(b, kept) ==
  /\ kept \in SUBSET DOMAIN b
  /\ \A j \in kept : Fits(b, j) /\ OwnSound(b[j].given)
  /\ \A i, j \in kept : ~Conflict(Own(b, i), Own(b, j))

LEMMA CompatibleShares ==
  ASSUME NEW b, NEW kept, Compatible(b, kept)
  PROVE  /\ ~Raises(Shared(b, kept)) /\ Whole(Shared(b, kept))
         /\ kept # {} => Extends(Shared(b, kept), pin)
<1>1. \A t \in Alone(b, kept) : Whole(t) /\ Extends(t, pin) /\ ~Raises(t)
  <2>1. \A j \in kept : Whole(Own(b, j)) /\ Extends(Own(b, j), pin)
    BY DEF Compatible, OwnSound, Own
  <2>2. QED
    BY <2>1, AloneIs, WholeFixed
<1>2. \A t, u \in Alone(b, kept) : ~Conflict(t, u)
  BY AloneIs DEF Compatible
<1>3. ~Raises(Shared(b, kept))
  BY <1>1, <1>2, RaisesConflict DEF Shared
<1>4. Whole(Shared(b, kept))
  BY <1>1, <1>3, JoinWhole DEF Shared
<1>5. ASSUME kept # {} PROVE Extends(Shared(b, kept), pin)
  <2>1. Alone(b, kept) # {}
    BY <1>5, AloneIs
  <2>2. QED
    BY <1>1, <2>1, JoinExtends DEF Shared
<1>6. QED
  BY <1>3, <1>4, <1>5

LEMMA OwnOf ==
  ASSUME NEW b, Batch(b), Whole(pin), NEW j \in DOMAIN b, Fits(b, j)
  PROVE  OwnSound(b[j].given) /\ Whole(Own(b, j)) /\ Extends(Own(b, j), pin)
<1>1. OwnSound(b[j].given)
  BY BatchIs, OwnIs DEF Fits
<1>2. QED
  BY <1>1 DEF OwnSound, Own

\* No type clashes with itself, nor with the pin if it extends it.
LEMMA NoConflict ==
  ASSUME NEW t
  PROVE  ~Conflict(t, t) /\ \A u : Extends(u, t) => ~Conflict(t, u) /\ ~Conflict(u, t)
BY DEF Conflict, Extends, Apart

LEMMA NoClashCompatible ==
  ASSUME NEW b, Batch(b), Whole(pin)
  PROVE  Compatible(b, NoClash(b))
<1> DEFINE kept == NoClash(b)
<1>1. kept \subseteq Good(b) /\ kept \subseteq DOMAIN b
  BY NoClashIs, BatchIs
<1>2. \A j \in kept : Fits(b, j) /\ OwnSound(b[j].given)
  <2>1. \A j \in kept : Unites(b, kept, j)
    BY <1>1, NoClashIs
  <2>2. \A j \in kept : Fits(b, j)
    BY <2>1 DEF Unites, Fits
  <2>3. QED
    BY <1>1, <2>2, OwnOf
<1>3. ASSUME NEW i \in kept, NEW j \in kept, i < j PROVE ~Conflict(Own(b, i), Own(b, j))
  <2>1. Unites(b, kept, j)
    BY <1>1, NoClashIs
  <2> DEFINE types == {pin} \cup Alone(b, {m \in kept : m < j} \cup {j})
  <2>2. ~Raises(Join(types))
    BY <2>1 DEF Unites
  <2>3. Own(b, i) \in types /\ Own(b, j) \in types
    BY <1>3, AloneIs
  <2> HIDE DEF types
  <2>4. QED
    BY <2>2, <2>3, ConflictRaises
<1>4. ASSUME NEW i \in kept, NEW j \in kept PROVE ~Conflict(Own(b, i), Own(b, j))
  <2>1. i \in Nat /\ j \in Nat
    BY <1>1, BatchIs
  <2>2. i < j \/ j < i \/ i = j
    BY <2>1
  <2>3. QED
    BY <1>3, <2>2, ConflictBoth, NoConflict
<1>5. QED
  BY <1>1, <1>2, <1>4 DEF Compatible

\* A row that conforms alone is left out for one kept before it, with which it disagrees.
LEMMA NoClashBlames ==
  ASSUME NEW b, Batch(b), Whole(pin), NEW j \in Good(b) \ NoClash(b), Fits(b, j)
  PROVE  \E m \in NoClash(b) : m < j /\ Disagree(b[j].given, b[m].given)
<1> DEFINE kept  == NoClash(b)
           these == {m \in kept : m < j} \cup {j}
           types == {pin} \cup Alone(b, these)
<1>1. kept \subseteq Good(b) /\ kept \subseteq DOMAIN b /\ j \in DOMAIN b
  BY NoClashIs, BatchIs
<1>2. Compatible(b, kept)
  BY NoClashCompatible
<1>3. ~Unites(b, kept, j)
  BY <1>1, NoClashIs
<1>4. Raises(Join(types))
  BY <1>3 DEF Unites, Fits
<1>5. \A i \in these : OwnSound(b[i].given) /\ Whole(Own(b, i)) /\ Extends(Own(b, i), pin)
  <2>1. \A i \in these : i \in DOMAIN b /\ Fits(b, i)
    BY <1>1, <1>2 DEF Compatible
  <2>2. QED
    BY <2>1, OwnOf
<1>6. \A t \in types : t = pin \/ \E i \in these : t = Own(b, i)
  BY AloneIs
<1>7. \A t \in types : ~Raises(t) /\ Extends(t, pin)
  BY <1>5, <1>6, WholeFixed DEF Extends
<1>8. PICK t \in types, u \in types : Conflict(t, u)
  <2> HIDE DEF types
  <2>1. QED
    BY <1>4, <1>7, RaisesConflict
<1>9. t # pin /\ u # pin
  BY <1>7, <1>8, NoConflict
<1>10. PICK i \in these : t = Own(b, i)
  BY <1>6, <1>9
<1>11. PICK m \in these : u = Own(b, m)
  BY <1>6, <1>9
<1>12. i \notin kept \/ m \notin kept
  BY <1>2, <1>8, <1>10, <1>11 DEF Compatible
<1>13. i # m
  BY <1>8, <1>10, <1>11, NoConflict
<1>14. Disagree(b[i].given, b[m].given) /\ Disagree(b[m].given, b[i].given)
  <2>1. Disagree(b[i].given, b[m].given)
    BY <1>5, <1>8, <1>10, <1>11, ConflictDisagrees DEF Own
  <2>2. QED
    BY <2>1, DisagreeBoth
<1>15. (i = j /\ m \in kept /\ m < j) \/ (m = j /\ i \in kept /\ i < j)
  BY <1>12, <1>13
<1>16. QED
  BY <1>14, <1>15

\* The first that fits the pin is kept.
LEMMA FirstIsKept ==
  ASSUME NEW b, Batch(b), Whole(pin), NEW j \in Good(b), Fits(b, j),
         \A i \in Good(b) : i < j => ~Fits(b, i)
  PROVE  j \in NoClash(b)
<1> SUFFICES ASSUME j \notin NoClash(b) PROVE FALSE
  OBVIOUS
<1>1. PICK m \in NoClash(b) : m < j
  BY NoClashBlames
<1>2. m \in Good(b) /\ Fits(b, m)
  BY NoClashIs, NoClashCompatible DEF Compatible
<1>3. QED
  BY <1>1, <1>2

-----------------------------------------------------------------------------
(* The demotions of rows whose values do not fit.                           *)

\* left has the rows that are left after each demotion, of n.
Demotes(b, kept, left, n) ==
  left = [m \in 0..n |-> IF m = 0 THEN kept ELSE Demote(b, left[m - 1])]

LEMMA DemotesExist ==
  ASSUME NEW b, NEW kept
  PROVE  \A n \in Nat : \E left : Demotes(b, kept, left, n)
<1> DEFINE T == {n \in Nat : \E left : Demotes(b, kept, left, n)}
<1>1. 0 \in T
  <2> DEFINE left == [m \in 0..0 |-> kept]
  <2>1. Demotes(b, kept, left, 0)
    BY DEF Demotes
  <2>2. QED
    BY <2>1
<1>2. ASSUME NEW n \in T PROVE n + 1 \in T
  <2>1. PICK left : Demotes(b, kept, left, n)
    OBVIOUS
  <2>2. n \in Nat /\ n + 1 \in Nat
    OBVIOUS
  <2> DEFINE more == [m \in 0..(n + 1) |-> IF m = n + 1 THEN Demote(b, left[n]) ELSE left[m]]
  <2>3. \A m \in 0..n : left[m] = IF m = 0 THEN kept ELSE Demote(b, left[m - 1])
    BY <2>1 DEF Demotes
  <2>4. ASSUME NEW m \in 0..(n + 1)
        PROVE  more[m] = IF m = 0 THEN kept ELSE Demote(b, more[m - 1])
    <3>1. CASE m = n + 1
      <4>1. more[m - 1] = left[n] /\ m # 0
        BY <2>2, <3>1
      <4>2. QED
        BY <3>1, <4>1
    <3>2. CASE m # n + 1 /\ m # 0
      <4>1. m \in 0..n /\ m - 1 \in 0..n
        BY <2>2, <3>2
      <4>2. more[m] = left[m] /\ more[m - 1] = left[m - 1]
        BY <2>2, <4>1
      <4>3. QED
        BY <2>3, <3>2, <4>1, <4>2
    <3>3. CASE m = 0
      <4>1. m \in 0..n /\ m # n + 1
        BY <2>2, <3>3
      <4>2. QED
        BY <2>3, <3>3, <4>1
    <3>4. QED
      BY <3>1, <3>2, <3>3
  <2>5. more = [m \in 0..(n + 1) |-> more[m]]
    OBVIOUS
  <2>6. Demotes(b, kept, more, n + 1)
    <3> HIDE DEF more
    <3>1. QED
      BY <2>4, <2>5 DEF Demotes
  <2>7. QED
    BY <2>2, <2>6
<1>3. T = Nat
  <2> HIDE DEF T
  <2>1. T \subseteq Nat
    BY DEF T
  <2>2. QED
    BY <1>1, <1>2, <2>1, Grows
<1>4. QED
  BY <1>3

LEMMA FittingIs ==
  ASSUME NEW b, Len(b) \in Nat, NEW kept
  PROVE  \E left : Demotes(b, kept, left, Len(b)) /\ Fitting(b, kept) = left[Len(b)]
<1> DEFINE left == CHOOSE f : f = [n \in 0..Len(b) |-> IF n = 0 THEN kept ELSE Demote(b, f[n - 1])]
<1>1. Fitting(b, kept) = left[Len(b)]
  BY DEF Fitting
<1>2. \E f : f = [n \in 0..Len(b) |-> IF n = 0 THEN kept ELSE Demote(b, f[n - 1])]
  <2>1. PICK f : Demotes(b, kept, f, Len(b))
    BY DemotesExist
  <2>2. QED
    BY <2>1 DEF Demotes
<1>3. left = [n \in 0..Len(b) |-> IF n = 0 THEN kept ELSE Demote(b, left[n - 1])]
  BY <1>2
<1>4. QED
  BY <1>1, <1>3 DEF Demotes

\* After n demotions: the rows left, each demoted for another; unless they all fit, n are gone.
Left(b, kept, s, n) ==
  /\ s \in SUBSET kept /\ (kept # {} => s # {})
  /\ \A j \in kept \ s : \E m \in kept : m # j /\ Disagree(b[j].given, b[m].given)
  /\ Misfits(b, s) = {} \/ Cardinality(s) <= Len(b) - n

LEMMA CompatibleSubset ==
  ASSUME NEW b, NEW kept, Compatible(b, kept), NEW s \in SUBSET kept
  PROVE  Compatible(b, s)
BY DEF Compatible

\* A misfit disagrees with another of the rows.
LEMMA MisfitBlamed ==
  ASSUME NEW b, NEW s, Compatible(b, s), NEW j \in Misfits(b, s)
  PROVE  \E m \in s : m # j /\ Disagree(b[j].given, b[m].given)
<1> DEFINE rows == Given(b, s)
<1>1. j \in s /\ b[j].given \in rows /\ ~Holds(b[j].given, Join(Alone(b, s)))
  BY DEF Misfits, Given, Shared
<1>2. ~Raises(Join(Alone(b, s)))
  BY CompatibleShares DEF Shared
<1>3. \A w \in rows : OwnSound(w)
  BY DEF Compatible, Given
<1>4. \E w \in rows : w # b[j].given /\ Disagree(b[j].given, w)
  <2>1. Alone(b, s) = {StoredTypes({w}) : w \in rows}
    BY AloneIs
  <2> HIDE DEF rows
  <2>2. QED
    BY <1>1, <1>2, <1>3, <2>1, MisfitDisagrees
<1>5. QED
  BY <1>4 DEF Given

\* One row fits what it is stored as.
LEMMA OneFits ==
  ASSUME NEW b, NEW j, Compatible(b, {j})
  PROVE  Misfits(b, {j}) = {}
<1>1. OwnSound(b[j].given) /\ Alone(b, {j}) = {Own(b, j)}
  BY AloneIs DEF Compatible
<1>2. Shared(b, {j}) = Own(b, j)
  <2>1. Own(b, j) = [p \in DOMAIN Own(b, j) |-> Own(b, j)[p]]
    BY <1>1 DEF OwnSound, Whole, Own
  <2>2. QED
    BY <1>1, <2>1, JoinOfOne DEF Shared
<1>3. Holds(b[j].given, Shared(b, {j}))
  BY <1>1, <1>2 DEF OwnSound, Own
<1>4. QED
  BY <1>3 DEF Misfits

LEMMA LeftOne ==
  ASSUME NEW b, Batch(b), NEW kept, Compatible(b, kept),
         NEW n \in Nat, NEW s, Left(b, kept, s, n)
  PROVE  Left(b, kept, Demote(b, s), n + 1)
<1>1. kept \subseteq 1..Len(b) /\ s \subseteq kept /\ Len(b) \in Nat
  BY BatchIs DEF Compatible, Left
<1>2. CASE Misfits(b, s) = {}
  <2>1. Demote(b, s) = s
    BY <1>2 DEF Demote
  <2>2. QED
    BY <1>2, <2>1 DEF Left
<1>3. CASE Misfits(b, s) # {}
  <2>1. Misfits(b, s) \subseteq s /\ Misfits(b, s) \in SUBSET Nat
    <3>1. Misfits(b, s) \subseteq s
      BY DEF Misfits
    <3>2. s \subseteq Nat
      BY <1>1
    <3>3. QED
      BY <3>1, <3>2
  <2>2. PICK j \in Misfits(b, s) : \A m \in Misfits(b, s) : j <= m
    BY <1>3, <2>1, Least
  <2>3. Demote(b, s) = s \ {j}
    <3>1. \A i \in Misfits(b, s) : (\A m \in Misfits(b, s) : i <= m) <=> i = j
      BY <2>1, <2>2
    <3>2. QED
      BY <2>2, <3>1 DEF Demote
  <2>4. Compatible(b, s)
    BY <1>1, CompatibleSubset
  <2>5. PICK m \in s : m # j /\ Disagree(b[j].given, b[m].given)
    BY <2>2, <2>4, MisfitBlamed
  <2>6. \A i \in kept \ (s \ {j}) : \E k \in kept : k # i /\ Disagree(b[i].given, b[k].given)
    BY <1>1, <2>5 DEF Left
  <2>7. IsFiniteSet(s)
    <3>1. IsFiniteSet(1..Len(b))
      BY <1>1, FS_Interval
    <3>2. s \subseteq 1..Len(b)
      BY <1>1
    <3>3. QED
      BY <3>1, <3>2, FS_Subset
  <2>8. Cardinality(s) \in Nat /\ Cardinality(s \ {j}) = Cardinality(s) - 1
    BY <2>1, <2>2, <2>7, FS_RemoveElement, FS_CardinalityType
  <2>9. Cardinality(s) <= Len(b) - n
    BY <1>3 DEF Left
  <2>10. Cardinality(s \ {j}) <= Len(b) - (n + 1)
    BY <1>1, <2>8, <2>9
  <2>11. m \in s \ {j}
    BY <2>5
  <2>12. QED
    BY <1>1, <2>3, <2>6, <2>10, <2>11 DEF Left
<1>4. QED
  BY <1>2, <1>3

\* The demotions end with rows that all fit, some if there were any.
LEMMA FittingFits ==
  ASSUME NEW b, Batch(b), NEW kept, Compatible(b, kept)
  PROVE  /\ Fitting(b, kept) \in SUBSET kept /\ (kept # {} => Fitting(b, kept) # {})
         /\ \A j \in kept \ Fitting(b, kept) : \E m \in kept : m # j /\ Disagree(b[j].given, b[m].given)
         /\ Misfits(b, Fitting(b, kept)) = {}
<1>1. Len(b) \in Nat /\ kept \subseteq 1..Len(b)
  BY BatchIs DEF Compatible
<1>2. PICK left : Demotes(b, kept, left, Len(b)) /\ Fitting(b, kept) = left[Len(b)]
  BY <1>1, FittingIs
<1>3. \A n \in 0..Len(b) : left[n] = IF n = 0 THEN kept ELSE Demote(b, left[n - 1])
  BY <1>2 DEF Demotes
<1> DEFINE T == {n \in Nat : n <= Len(b) => Left(b, kept, left[n], n)}
<1>4. 0 \in T
  <2>1. left[0] = kept
    BY <1>1, <1>3
  <2>2. Cardinality(kept) <= Len(b)
    <3>1. IsFiniteSet(1..Len(b)) /\ Cardinality(1..Len(b)) = Len(b)
      BY <1>1, FS_Interval
    <3>2. QED
      BY <1>1, <3>1, FS_Subset
  <2>3. Cardinality(kept) <= Len(b) - 0
    BY <1>1, <2>2
  <2>4. Left(b, kept, kept, 0)
    BY <2>3 DEF Left
  <2>5. QED
    BY <2>1, <2>4
<1>5. ASSUME NEW n \in T PROVE n + 1 \in T
  <2> SUFFICES ASSUME n + 1 <= Len(b) PROVE Left(b, kept, left[n + 1], n + 1)
    OBVIOUS
  <2>1. n \in Nat /\ n <= Len(b)
    BY <1>1
  <2>2. Left(b, kept, left[n], n)
    BY <2>1
  <2>3. left[n + 1] = Demote(b, left[n])
    <3>1. n + 1 \in 0..Len(b) /\ n + 1 # 0 /\ (n + 1) - 1 = n
      BY <1>1, <2>1
    <3>2. QED
      BY <1>3, <3>1
  <2>4. QED
    BY <2>1, <2>2, <2>3, LeftOne
<1>6. T = Nat
  <2> HIDE DEF T
  <2>1. T \subseteq Nat
    BY DEF T
  <2>2. QED
    BY <1>4, <1>5, <2>1, Grows
<1>7. Left(b, kept, Fitting(b, kept), Len(b))
  BY <1>1, <1>2, <1>6
<1> DEFINE s == Fitting(b, kept)
<1>8. Misfits(b, s) = {}
  <2>1. CASE Cardinality(s) <= Len(b) - Len(b)
    <3>1. IsFiniteSet(s)
      <4>1. IsFiniteSet(1..Len(b))
        BY <1>1, FS_Interval
      <4>2. s \subseteq 1..Len(b)
        BY <1>1, <1>7 DEF Left
      <4>3. QED
        BY <4>1, <4>2, FS_Subset
    <3>2. Cardinality(s) = 0
      BY <1>1, <2>1, <3>1, FS_CardinalityType
    <3>3. s = {}
      BY <3>1, <3>2, FS_EmptySet
    <3>4. QED
      BY <3>3 DEF Misfits
  <2>2. QED
    BY <1>7, <2>1 DEF Left
<1>9. QED
  BY <1>7, <1>8 DEF Left

-----------------------------------------------------------------------------
(* The table of a flush.                                                    *)

\* A row is stored with a type that has a place for all that it says.
Tells(v, t) ==
  /\ Holds(v, t)
  /\ \A c, d \in v : d.k \in Scalars /\ IsPrefix(c.path, d.path) => c.path \in DOMAIN t

\* What says something has a typed leaf in the type of the rows.
LEMMA SaidIsTyped ==
  ASSUME NEW rows \in SUBSET RowValues, ~Raises(TypeOf(UNION rows)), NEW v \in rows,
         NEW c \in v, NEW d \in v, d.k \in Scalars, IsPrefix(c.path, d.path)
  PROVE  c.path \in DOMAIN TypeOf(UNION rows) /\ IsTyped(TypeOf(UNION rows), c.path)
<1> DEFINE t == TypeOf(UNION rows)
<1>1. c \in UNION rows /\ d \in UNION rows /\ d.k # "null"
  BY DEF Scalars
<1>2. d.path \in DOMAIN t /\ (t[d.path] = d.k \/ (d.k = "int" /\ t[d.path] = "double"))
  BY <1>1, TypeIsAll
<1>3. t[d.path] \in Scalars
  BY <1>2 DEF Scalars
<1>4. c.path \in DOMAIN t
  BY <1>1, TypeIs
<1>5. QED
  BY <1>2, <1>3, <1>4 DEF IsTyped

LEMMA StoredTells ==
  ASSUME NEW rows \in SUBSET RowValues, Conforms(rows), Whole(pin), NEW v \in rows
  PROVE  Tells(v, StoredTypes(rows))
<1>1. Holds(v, StoredTypes(rows)) /\ ~Raises(TypeOf(UNION rows))
  BY DEF Conforms, StoredTypes
<1>2. ASSUME NEW c \in v, NEW d \in v, d.k \in Scalars, IsPrefix(c.path, d.path)
      PROVE  c.path \in DOMAIN StoredTypes(rows)
  <2>1. c.path \in DOMAIN TypeOf(UNION rows) /\ IsTyped(TypeOf(UNION rows), c.path)
    BY <1>1, <1>2, SaidIsTyped
  <2>2. QED
    BY <2>1, StoredIs
<1>3. QED
  BY <1>1, <1>2 DEF Tells

LEMMA KeptIs ==
  ASSUME NEW b, Batch(b), Whole(pin), ~Conforms(Given(b, Good(b)))
  PROVE  /\ Kept(b) \in SUBSET NoClash(b) /\ (NoClash(b) # {} => Kept(b) # {})
         /\ \A j \in NoClash(b) \ Kept(b) :
              \E m \in NoClash(b) : m # j /\ Disagree(b[j].given, b[m].given)
         /\ Misfits(b, Kept(b)) = {} /\ Compatible(b, Kept(b))
<1>1. Kept(b) = Fitting(b, NoClash(b)) /\ Compatible(b, NoClash(b))
  BY NoClashCompatible DEF Kept
<1>2. QED
  BY <1>1, FittingFits, CompatibleSubset

\* The schema of the part: what the pin has, and a place for what the rows kept say.
TableSchema(b) == WithoutUntyped(Join({pin, TableTypes(b)}))

LEMMA TableIs ==
  ASSUME NEW b, Batch(b), Whole(pin)
  PROVE  /\ Whole(TableSchema(b)) /\ Extends(TableSchema(b), pin) /\ Kept(b) \subseteq Good(b)
         /\ \A j \in Kept(b) : Tells(b[j].given, TableSchema(b))
<1>1. pin = [p \in DOMAIN pin |-> pin[p]] /\ Extends(pin, pin)
  BY DEF Whole, Extends
<1>2. CASE Conforms(Given(b, Good(b)))
  <2> DEFINE rows == Given(b, Good(b))
  <2>1. rows \in SUBSET RowValues
    BY BatchIs DEF Given
  <2>2. TableTypes(b) = StoredTypes(rows) /\ Kept(b) = Good(b)
    BY <1>2 DEF TableTypes, Kept
  <2>3. Whole(StoredTypes(rows)) /\ Extends(StoredTypes(rows), pin)
    BY <1>2, <2>1, StoredIs
  <2>4. Join({pin, StoredTypes(rows)}) = StoredTypes(rows)
    BY <2>3, JoinExtended DEF Whole
  <2>5. TableSchema(b) = StoredTypes(rows)
    BY <2>2, <2>3, <2>4, WholeFixed DEF TableSchema
  <2>6. \A j \in Good(b) : b[j].given \in rows
    BY DEF Given
  <2>7. \A j \in Good(b) : Tells(b[j].given, StoredTypes(rows))
    BY <1>2, <2>1, <2>6, StoredTells
  <2>8. QED
    BY <2>2, <2>3, <2>5, <2>7
<1>3. CASE ~Conforms(Given(b, Good(b)))
  <2> DEFINE kept   == Kept(b)
             shared == Shared(b, kept)
  <2>1. TableTypes(b) = shared
    BY <1>3 DEF TableTypes
  <2>2. kept \subseteq Good(b) /\ Misfits(b, kept) = {} /\ Compatible(b, kept)
    BY <1>3, KeptIs, NoClashIs
  <2>3. CASE kept = {}
    <3>1. shared = NoColumns
      <4>1. Alone(b, {}) = {}
        BY DEF Alone, Given
      <4>2. DOMAIN Join({}) = {}
        <5>1. \A p : p \in DOMAIN Join({}) <=> \E t \in {} : p \in DOMAIN t
          BY JoinIs
        <5>2. QED
          BY <5>1
      <4>3. Join({}) = NoColumns
        BY <4>2, JoinIs DEF NoColumns
      <4>4. QED
        BY <2>3, <4>1, <4>3 DEF Shared
    <3>2. TableSchema(b) = pin
      BY <1>1, <2>1, <3>1, JoinNoColumns, WholeFixed DEF TableSchema
    <3>3. QED
      BY <1>1, <2>2, <2>3, <3>2
  <2>4. CASE kept # {}
    <3>1. Whole(shared) /\ Extends(shared, pin) /\ ~Raises(shared)
      BY <2>2, <2>4, CompatibleShares
    <3>2. Join({pin, shared}) = shared
      BY <3>1, JoinExtended DEF Whole
    <3>3. TableSchema(b) = shared
      BY <2>1, <3>1, <3>2, WholeFixed DEF TableSchema
    <3>4. ASSUME NEW j \in kept PROVE Tells(b[j].given, shared)
      <4>1. Holds(b[j].given, shared)
        BY <2>2 DEF Misfits
      <4>2. j \in DOMAIN b /\ b[j].given \in RowValues /\ Fits(b, j)
        BY <2>2, BatchIs DEF Compatible
      <4>3. Tells(b[j].given, Own(b, j))
        <5>1. {b[j].given} \in SUBSET RowValues /\ Conforms({b[j].given})
          BY <4>2 DEF Fits
        <5>2. QED
          BY <5>1, StoredTells DEF Own
      <4>4. \A p \in DOMAIN Own(b, j) : p \in DOMAIN shared
        BY AloneIs, JoinIs DEF Shared
      <4>5. QED
        BY <4>1, <4>3, <4>4 DEF Tells
    <3>5. QED
      BY <2>2, <3>1, <3>3, <3>4
  <2>5. QED
    BY <2>3, <2>4
<1>4. QED
  BY <1>2, <1>3

\* A row that conforms alone and is not stored disagrees with another.
LEMMA KeptBlames ==
  ASSUME NEW b, Batch(b), Whole(pin), NEW j \in Good(b) \ Kept(b), Fits(b, j)
  PROVE  \E m \in DOMAIN b : m # j /\ Disagree(b[j].given, b[m].given)
<1>1. ~Conforms(Given(b, Good(b)))
  BY DEF Kept
<1>2. NoClash(b) \subseteq DOMAIN b /\ NoClash(b) \subseteq Nat /\ j \in Nat
  BY BatchIs, NoClashIs
<1>3. CASE j \in NoClash(b)
  BY <1>1, <1>2, <1>3, KeptIs
<1>4. CASE j \notin NoClash(b)
  <2>1. PICK m \in NoClash(b) : m < j /\ Disagree(b[j].given, b[m].given)
    BY <1>4, NoClashBlames
  <2>2. m # j
    BY <1>2, <2>1
  <2>3. QED
    BY <1>2, <2>1, <2>2
<1>5. QED
  BY <1>3, <1>4

\* If the first row that conforms alone is good, some such row is stored.
LEMMA KeptSome ==
  ASSUME NEW b, Batch(b), Whole(pin), NEW j \in Good(b), Fits(b, j),
         \A i \in Good(b) : i < j => ~Fits(b, i)
  PROVE  \E m \in Kept(b) : Fits(b, m)
<1>1. CASE Conforms(Given(b, Good(b)))
  BY <1>1 DEF Kept
<1>2. CASE ~Conforms(Given(b, Good(b)))
  <2>1. NoClash(b) # {}
    BY FirstIsKept
  <2>2. PICK m \in Kept(b) : TRUE
    BY <1>2, <2>1, KeptIs
  <2>3. QED
    BY <1>2, <2>2, KeptIs DEF Compatible
<1>3. QED
  BY <1>1, <1>2

-----------------------------------------------------------------------------
(* What is cast says what was given.                                        *)

LEMMA KindSet ==
  ASSUME NEW c \in [path : Path, at : Seq(Nat), k : Kinds, n : STRING], NEW kind
  PROVE  [c EXCEPT !.k = kind] = [path |-> c.path, at |-> c.at, k |-> kind, n |-> c.n]
OBVIOUS

LEMMA CastTells ==
  ASSUME NEW v \in SUBSET Cell, NEW t, Tells(v, t)
  PROVE  Meaning(Cast(v, t)) = Meaning(v)
<1> DEFINE g(c) == [c EXCEPT !.k = IF c.k = "null" THEN c.k ELSE t[c.path]]
           num(c) == [c EXCEPT !.k = IF c.k \in {"int", "double"} THEN "number" ELSE c.k]
           cast == Cast(v, t)
<1>1. ASSUME NEW c \in v, c.path \in DOMAIN t
      PROVE  /\ g(c).path = c.path /\ g(c).at = c.at /\ (g(c).k \in Scalars <=> c.k \in Scalars)
             /\ num(g(c)) = num(c)
  <2>1. c \in Cell /\ Goes(c, t[c.path])
    BY <1>1 DEF Tells, Holds
  <2> DEFINE rec(kind) == [path |-> c.path, at |-> c.at, k |-> kind, n |-> c.n]
             to == IF c.k = "null" THEN c.k ELSE t[c.path]
  <2>2. c \in [path : Path, at : Seq(Nat), k : Kinds, n : STRING]
    BY <2>1 DEF Cell
  <2>3. to = c.k \/ (c.k = "int" /\ to = "double")
    BY <2>1 DEF Goes
  <2>4. g(c) = rec(to) /\ num(c) = rec(IF c.k \in {"int", "double"} THEN "number" ELSE c.k)
    BY <2>2, KindSet
  <2>5. rec(to) \in [path : Path, at : Seq(Nat), k : Kinds, n : STRING]
    <3>1. to \in Kinds
      BY <2>2, <2>3 DEF Kinds, Scalars
    <3>2. c.path \in Path /\ c.at \in Seq(Nat) /\ c.n \in STRING
      BY <2>2
    <3> HIDE DEF to
    <3>3. QED
      BY <3>1, <3>2
  <2>6. num(rec(to)) = rec(IF to \in {"int", "double"} THEN "number" ELSE to)
    BY <2>5, KindSet
  <2>7. (IF to \in {"int", "double"} THEN "number" ELSE to)
          = (IF c.k \in {"int", "double"} THEN "number" ELSE c.k)
    BY <2>3
  <2>8. num(g(c)) = num(c)
    BY <2>4, <2>6, <2>7
  <2>9. QED
    BY <2>3, <2>4, <2>8 DEF Scalars
<1>2. cast = {g(c) : c \in {d \in v : d.path \in DOMAIN t}}
  BY DEF Cast
<1>3. Meaning(v) = {num(c) : c \in {d \in v : Says(v, d)}}
      /\ Meaning(cast) = {num(e) : e \in {d \in cast : Says(cast, d)}}
  BY DEF Meaning
<1>4. ASSUME NEW c \in v, Says(v, c) PROVE c.path \in DOMAIN t
  BY <1>4 DEF Says, Tells
<1>5. ASSUME NEW c \in v, c.path \in DOMAIN t PROVE Says(cast, g(c)) <=> Says(v, c)
  <2>1. g(c).path = c.path /\ g(c).at = c.at
    BY <1>1, <1>5
  <2>2. ASSUME Says(cast, g(c)) PROVE Says(v, c)
    <3>1. PICK e \in cast : e.k \in Scalars /\ IsPrefix(c.path, e.path) /\ IsPrefix(c.at, e.at)
      BY <2>1, <2>2 DEF Says
    <3>2. PICK d \in v : d.path \in DOMAIN t /\ e = g(d)
      BY <1>2, <3>1
    <3>3. d.k \in Scalars /\ d.path = e.path /\ d.at = e.at
      BY <1>1, <3>1, <3>2
    <3>4. QED
      BY <3>1, <3>3 DEF Says
  <2>3. ASSUME Says(v, c) PROVE Says(cast, g(c))
    <3>1. PICK d \in v : d.k \in Scalars /\ IsPrefix(c.path, d.path) /\ IsPrefix(c.at, d.at)
      BY <2>3 DEF Says
    <3>2. d.path \in DOMAIN t
      <4>1. d.path \in Path
        BY DEF Cell
      <4>2. QED
        BY <3>1, <4>1, PrefixSelf DEF Tells
    <3>3. g(d) \in cast /\ g(d).k \in Scalars /\ g(d).path = d.path /\ g(d).at = d.at
      BY <1>1, <1>2, <3>1, <3>2
    <3>4. QED
      BY <2>1, <3>1, <3>3 DEF Says
  <2>4. QED
    BY <2>2, <2>3
<1>a. \A c \in v : c.path \in DOMAIN t => g(c) \in cast /\ num(g(c)) = num(c)
  BY <1>1, <1>2
<1> HIDE DEF g, num, cast
<1>6. ASSUME NEW c \in v, Says(v, c) PROVE num(c) \in Meaning(cast)
  <2>1. g(c) \in cast /\ Says(cast, g(c)) /\ num(g(c)) = num(c)
    BY <1>a, <1>4, <1>5, <1>6
  <2>2. QED
    BY <1>3, <2>1
<1>7. ASSUME NEW e \in cast, Says(cast, e) PROVE num(e) \in Meaning(v)
  <2>1. PICK c \in v : c.path \in DOMAIN t /\ e = g(c)
    BY <1>2, <1>7
  <2>2. Says(v, c) /\ num(e) = num(c)
    BY <1>1, <1>5, <1>7, <2>1
  <2>3. QED
    BY <1>3, <2>2
<1>8. Meaning(v) \subseteq Meaning(cast)
  BY <1>3, <1>6
<1>9. Meaning(cast) \subseteq Meaning(v)
  BY <1>3, <1>7
<1>10. QED
  BY <1>8, <1>9 DEF cast

-----------------------------------------------------------------------------
(* The invariant: the types of the state; what the parts are, and that the  *)
(* pin is what the newest of them carries; and what the buffer is.          *)

Schemas == UNION {[D -> Kinds] : D \in SUBSET Path}
Stored  == [given : RowValues, bad : BOOLEAN, stored : SUBSET Cell]
Parts   == [schema : Schemas, readable : BOOLEAN, rows : Seq(Stored)]

TypeInv ==
  /\ mode \in {"declared", "probed", "appended"}
  /\ pin \in Schemas /\ bufTypes \in Schemas
  /\ buf \in Seq(Entries) /\ parts \in Seq(Parts)
  /\ offered \in Nat /\ restarts \in Nat

\* The rows of a part that are stored say what was given.
RowsSay(part) == \A j \in DOMAIN part.rows :
  LET row == part.rows[j] IN
  ~row.bad => Holds(row.given, part.schema) /\ Meaning(row.stored) = Meaning(row.given)

\* A part for the pin pn.
PartGood(part, pn) ==
  /\ ~Raises(part.schema) /\ RowsSay(part) /\ Extends(pn, part.schema)
  /\ IF mode = "declared" THEN part.schema = DeclaredType ELSE Whole(part.schema)

PartsGood(ps, pn) ==
  /\ \A k \in Readable(ps) : PartGood(ps[k], pn)
  /\ \A k, j \in Readable(ps) : j < k => Extends(ps[k].schema, ps[j].schema)
  /\ IF mode = "declared" THEN pn = DeclaredType
     ELSE /\ Whole(pn)
          /\ \/ Readable(ps) = {} /\ pn = NoColumns
             \/ \E k \in Readable(ps) : (\A j \in Readable(ps) : j <= k) /\ pn = ps[k].schema

\* An error row does not fit the pin, or disagrees with a good row before it that does.
Blamed(b, j) ==
  \/ ~Fits(b, j)
  \/ \E m \in Good(b) : m < j /\ Fits(b, m) /\ Disagree(b[j].given, b[m].given)

\* A good row of the buffer fits a declared schema; an error row has a reason.
BatchInv(b) ==
  IF mode = "declared" THEN \A j \in Good(b) : ~Outside(b[j].given, pin) /\ Holds(b[j].given, pin)
  ELSE \A j \in DOMAIN b : b[j].bad => Blamed(b, j)

\* The buffer's types are those of good rows in it.
Traced(b, types) ==
  mode # "declared" =>
    \A p \in DOMAIN types : \E m \in Good(b) :
      Fits(b, m) /\ p \in DOMAIN Own(b, m) /\ Own(b, m)[p] = types[p]

IInv == TypeInv /\ PartsGood(parts, pin) /\ BatchInv(buf) /\ Traced(buf, bufTypes)

-----------------------------------------------------------------------------
(* The pin stays, so what depends on it does.                               *)

LEMMA SameFit ==
  ASSUME pin' = pin, NEW t
  PROVE  Fit(t)' = Fit(t)
BY DEF Fit, New, FitKind

LEMMA SameConforms ==
  ASSUME pin' = pin, NEW rows
  PROVE  (Conforms(rows)' <=> Conforms(rows)) /\ StoredTypes(rows)' = StoredTypes(rows)
<1>1. \A t : Fit(t)' = Fit(t)
  BY SameFit
<1>2. QED
  BY <1>1 DEF Conforms, StoredTypes

LEMMA SameInv ==
  ASSUME pin' = pin, mode' = mode, NEW b, NEW types, BatchInv(b), Traced(b, types),
         buf' = b, bufTypes' = types
  PROVE  BatchInv(buf)' /\ Traced(buf, bufTypes)'
<1>1. \A j : (Fits(b, j)' <=> Fits(b, j)) /\ Own(b, j)' = Own(b, j)
  BY SameConforms DEF Fits, Own
<1>2. \A j : Blamed(b, j)' <=> Blamed(b, j)
  BY <1>1 DEF Blamed
<1>3. BatchInv(b)' /\ Traced(b, types)'
  BY <1>1, <1>2 DEF BatchInv, Traced
<1>4. QED
  BY <1>3

-----------------------------------------------------------------------------
(* Parts.                                                                   *)

LEMMA WholeSchema ==
  ASSUME NEW t, Whole(t)
  PROVE  t \in Schemas
<1>1. t \in [DOMAIN t -> Kinds] /\ DOMAIN t \in SUBSET Path
  BY DEF Whole
<1>2. QED
  BY <1>1 DEF Schemas

LEMMA SchemaIs ==
  ASSUME NEW t \in Schemas
  PROVE  ~Raises(t) /\ DOMAIN t \subseteq Path /\ \A p \in DOMAIN t : t[p] \in Kinds
<1>1. PICK D \in SUBSET Path : t \in [D -> Kinds]
  BY DEF Schemas
<1>2. QED
  BY <1>1 DEF Raises, Kinds, Scalars

LEMMA DeclaredIs == DeclaredType \in Schemas
BY SchemaAssumption DEF Schemas

LEMMA CastCells ==
  ASSUME NEW v \in SUBSET Cell, NEW t \in Schemas
  PROVE  Cast(v, t) \in SUBSET Cell
<1>1. ASSUME NEW c \in v, c.path \in DOMAIN t
      PROVE  [c EXCEPT !.k = IF c.k = "null" THEN c.k ELSE t[c.path]] \in Cell
  <2>1. t[c.path] \in Kinds /\ c \in [path : Path, at : Seq(Nat), k : Kinds, n : STRING]
    BY <1>1, SchemaIs DEF Cell
  <2>2. (IF c.k = "null" THEN c.k ELSE t[c.path]) \in Kinds
    BY <2>1
  <2>3. QED
    BY <2>1, <2>2 DEF Cell
<1>2. QED
  BY <1>1 DEF Cast

LEMMA RowsAreCells ==
  ASSUME NEW v \in RowValues
  PROVE  v \in SUBSET Cell
BY SchemaAssumption

\* The rows of a batch a flush keeps.
Stays(b) == IF mode = "declared" THEN Good(b) ELSE Kept(b)

\* The rows of a part: those of the buffer, and which of them are error rows.
LEMMA PartRows ==
  ASSUME NEW b, NEW r
  PROVE  /\ DOMAIN PartOf(b, r).rows = DOMAIN b
         /\ \A j \in DOMAIN b : /\ PartOf(b, r).rows[j].given = b[j].given
                                /\ PartOf(b, r).rows[j].bad <=> j \notin Stays(b)
<1> DEFINE schema == IF mode = "declared" THEN pin ELSE TableSchema(b)
           row(j) == [given |-> b[j].given, bad |-> j \notin Stays(b),
                      stored |-> IF j \in Stays(b) THEN Cast(b[j].given, schema) ELSE {}]
<1>1. PartOf(b, r).rows = [j \in DOMAIN b |-> row(j)]
  BY DEF PartOf, TableSchema, Stays
<1>2. ASSUME NEW j \in DOMAIN b
      PROVE  PartOf(b, r).rows[j].given = b[j].given /\ (PartOf(b, r).rows[j].bad <=> j \notin Stays(b))
  <2>1. PartOf(b, r).rows[j] = row(j)
    BY <1>1
  <2>2. row(j).given = b[j].given /\ (row(j).bad <=> j \notin Stays(b))
    OBVIOUS
  <2> HIDE DEF row
  <2>3. QED
    BY <2>1, <2>2
<1>3. QED
  BY <1>1, <1>2

\* A part is well typed, says what was given, and extends the pin.
LEMMA PartIs ==
  ASSUME NEW b, Batch(b), BatchInv(b), NEW r \in BOOLEAN, pin \in Schemas,
         IF mode = "declared" THEN pin = DeclaredType ELSE Whole(pin)
  PROVE  /\ PartOf(b, r) \in Parts /\ PartOf(b, r).readable = r
         /\ PartGood(PartOf(b, r), PartOf(b, r).schema)
         /\ Extends(PartOf(b, r).schema, pin)
<1> DEFINE schema == IF mode = "declared" THEN pin ELSE TableSchema(b)
           row(j) == [given |-> b[j].given, bad |-> j \notin Stays(b),
                      stored |-> IF j \in Stays(b) THEN Cast(b[j].given, schema) ELSE {}]
           part == PartOf(b, r)
<1>1. part = [schema |-> schema, readable |-> r, rows |-> [j \in DOMAIN b |-> row(j)]]
  BY DEF PartOf, TableSchema, Stays
<1>2. Extends(schema, pin) /\ (mode # "declared" => Whole(schema)) /\ schema \in Schemas
  <2>1. CASE mode = "declared"
    BY <2>1 DEF Extends
  <2>2. CASE mode # "declared"
    BY <2>2, TableIs, WholeSchema
  <2>3. QED
    BY <2>1, <2>2
<1>3. ASSUME NEW j \in Stays(b) PROVE j \in DOMAIN b /\ Tells(b[j].given, schema)
  <2>1. CASE mode = "declared"
    <3>1. j \in Good(b) /\ j \in DOMAIN b
      BY <1>3, <2>1, BatchIs DEF Stays
    <3>2. ~Outside(b[j].given, pin) /\ Holds(b[j].given, pin)
      BY <2>1, <3>1 DEF BatchInv
    <3>3. QED
      BY <2>1, <3>1, <3>2 DEF Tells, Outside
  <2>2. CASE mode # "declared"
    BY <1>3, <2>2, TableIs, BatchIs DEF Stays
  <2>3. QED
    BY <2>1, <2>2
<1>4. ASSUME NEW j \in DOMAIN b PROVE row(j) \in Stored
  <2>1. b[j].given \in RowValues /\ b[j].given \in SUBSET Cell
    BY BatchIs, RowsAreCells
  <2>2. Cast(b[j].given, schema) \in SUBSET Cell
    BY <1>2, <2>1, CastCells
  <2>3. QED
    BY <2>1, <2>2 DEF Stored
<1>5. part.rows \in Seq(Stored)
  <2>1. part.rows = [j \in 1..Len(b) |-> row(j)] /\ Len(b) \in Nat
    BY <1>1, BatchIs
  <2>2. \A j \in 1..Len(b) : row(j) \in Stored
    BY <1>4, BatchIs
  <2> HIDE DEF row, part
  <2>3. [j \in 1..Len(b) |-> row(j)] \in Seq(Stored)
    BY <2>1, <2>2
  <2>4. QED
    BY <2>1, <2>3
<1>6. RowsSay(part)
  <2>1. ASSUME NEW j \in DOMAIN part.rows, ~part.rows[j].bad
        PROVE  /\ Holds(part.rows[j].given, part.schema)
               /\ Meaning(part.rows[j].stored) = Meaning(part.rows[j].given)
    <3>1. j \in DOMAIN b /\ part.rows[j] = row(j) /\ part.schema = schema
      BY <1>1, <2>1
    <3>2. j \in Stays(b)
      <4>1. row(j).bad <=> j \notin Stays(b)
        OBVIOUS
      <4>2. ~row(j).bad
        BY <2>1, <3>1
      <4>3. QED
        BY <4>1, <4>2
    <3>3. row(j).given = b[j].given /\ row(j).stored = Cast(b[j].given, schema)
      BY <3>2
    <3>4. b[j].given \in SUBSET Cell /\ Tells(b[j].given, schema)
      BY <1>3, <3>1, <3>2, BatchIs, RowsAreCells
    <3> HIDE DEF schema, row, part
    <3>5. QED
      BY <3>1, <3>3, <3>4, CastTells DEF Tells
  <2>2. QED
    BY <2>1 DEF RowsSay
<1>7. part.schema = schema /\ part.readable = r /\ DOMAIN part.rows = DOMAIN b
  BY <1>1
<1>8. ~Raises(schema) /\ Extends(schema, schema)
  BY <1>2, SchemaIs DEF Extends
<1>9. PartGood(part, part.schema)
  BY <1>2, <1>6, <1>7, <1>8 DEF PartGood
<1>10. part \in Parts
  BY <1>1, <1>2, <1>5, <1>7 DEF Parts
<1>11. QED
  BY <1>2, <1>7, <1>9, <1>10

LEMMA AppendIs ==
  ASSUME NEW ps \in Seq(Parts), NEW part \in Parts
  PROVE  /\ Append(ps, part) \in Seq(Parts) /\ Len(ps) \in Nat /\ Len(Append(ps, part)) = Len(ps) + 1
         /\ DOMAIN ps = 1..Len(ps) /\ DOMAIN Append(ps, part) = 1..(Len(ps) + 1)
         /\ \A k \in 1..Len(ps) : Append(ps, part)[k] = ps[k]
         /\ Append(ps, part)[Len(ps) + 1] = part
BY AppendProperties, LenProperties

\* A readable part of the pin's successor.
LEMMA PartsGrow ==
  ASSUME NEW ps \in Seq(Parts), NEW pn, PartsGood(ps, pn), NEW part \in Parts, part.readable,
         PartGood(part, part.schema), Extends(part.schema, pn)
  PROVE  PartsGood(Append(ps, part), part.schema)
<1> DEFINE qs == Append(ps, part)
           top == Len(ps) + 1
<1>1. /\ Len(ps) \in Nat /\ DOMAIN ps = 1..Len(ps) /\ DOMAIN qs = 1..top
      /\ \A k \in 1..Len(ps) : qs[k] = ps[k]
  BY AppendIs
<1>a. qs[top] = part
  BY AppendIs
<1> HIDE DEF qs
<1>2. Readable(qs) = Readable(ps) \cup {top}
  <2>1. \A k \in 1..top : k \in 1..Len(ps) \/ k = top
    BY <1>1
  <2>2. QED
    BY <1>1, <1>a, <2>1 DEF Readable
<1>3. \A k \in Readable(ps) : k \in 1..Len(ps) /\ k < top /\ k \in Nat /\ top \in Nat
  BY <1>1 DEF Readable
<1>4. ASSUME NEW k \in Readable(ps)
      PROVE  /\ qs[k] = ps[k] /\ PartGood(ps[k], pn) /\ Extends(part.schema, ps[k].schema)
             /\ PartGood(qs[k], part.schema)
  <2>1. qs[k] = ps[k] /\ PartGood(ps[k], pn)
    BY <1>1, <1>3 DEF PartsGood
  <2>2. Extends(part.schema, ps[k].schema)
    BY <2>1, ExtendsTransitive DEF PartGood
  <2>3. QED
    BY <2>1, <2>2 DEF PartGood
<1>5. PartGood(part, part.schema) /\ qs[top] = part
  BY <1>a
<1>6. \A k \in Readable(qs) : PartGood(qs[k], part.schema)
  BY <1>2, <1>4, <1>5
<1>7. ASSUME NEW k \in Readable(qs), NEW j \in Readable(qs), j < k
      PROVE  Extends(qs[k].schema, qs[j].schema)
  <2>1. j \in Readable(ps)
    BY <1>2, <1>3, <1>7
  <2>2. CASE k = top
    BY <1>4, <1>5, <2>1, <2>2
  <2>3. CASE k \in Readable(ps)
    BY <1>4, <1>7, <2>1, <2>3 DEF PartsGood
  <2>4. QED
    BY <1>2, <2>2, <2>3
<1>8. top \in Readable(qs) /\ \A j \in Readable(qs) : j <= top
  BY <1>2, <1>3, <1>1
<1>9. IF mode = "declared" THEN part.schema = DeclaredType
      ELSE /\ Whole(part.schema)
           /\ \E k \in Readable(qs) : (\A j \in Readable(qs) : j <= k) /\ part.schema = qs[k].schema
  BY <1>5, <1>8 DEF PartGood
<1>10. QED
  BY <1>6, <1>7, <1>9 DEF PartsGood, qs

\* A part that cannot be read changes nothing.
LEMMA PartsSpoil ==
  ASSUME NEW ps \in Seq(Parts), NEW pn, PartsGood(ps, pn), NEW part \in Parts, ~part.readable
  PROVE  PartsGood(Append(ps, part), pn)
<1> DEFINE qs == Append(ps, part)
<1>1. /\ Len(ps) \in Nat /\ DOMAIN ps = 1..Len(ps) /\ DOMAIN qs = 1..(Len(ps) + 1)
      /\ qs[Len(ps) + 1] = part
  BY AppendIs
<1>2. \A k \in 1..Len(ps) : qs[k] = ps[k]
  BY AppendIs
<1> HIDE DEF qs
<1>3. \A k \in 1..(Len(ps) + 1) : k \in 1..Len(ps) \/ k = Len(ps) + 1
  BY <1>1
<1>4. Readable(qs) = Readable(ps) /\ \A k \in Readable(ps) : qs[k] = ps[k]
  BY <1>1, <1>2, <1>3 DEF Readable
<1>5. QED
  BY <1>4 DEF PartsGood, qs

\* A new sink reads back the pin there was.
LEMMA SeedIs ==
  ASSUME NEW ps \in Seq(Parts), NEW pn, PartsGood(ps, pn)
  PROVE  Seed(ps) = pn
<1>1. CASE mode = "declared"
  BY <1>1 DEF Seed, PartsGood
<1>2. CASE mode # "declared" /\ Readable(ps) = {}
  BY <1>2 DEF Seed, PartsGood
<1>3. CASE mode # "declared" /\ Readable(ps) # {}
  <2>1. PICK k \in Readable(ps) : (\A j \in Readable(ps) : j <= k) /\ pn = ps[k].schema
    BY <1>3 DEF PartsGood
  <2>2. Readable(ps) \subseteq Nat
    <3>1. DOMAIN ps = 1..Len(ps) /\ Len(ps) \in Nat
      BY LenProperties
    <3>2. QED
      BY <3>1 DEF Readable
  <2>3. Newest(ps) \in Readable(ps) /\ \A j \in Readable(ps) : j <= Newest(ps)
    BY <2>1 DEF Newest
  <2>4. Newest(ps) <= k /\ k <= Newest(ps)
    BY <2>1, <2>3
  <2>5. Newest(ps) = k
    BY <2>2, <2>3, <2>4
  <2>6. QED
    BY <1>3, <2>1, <2>5 DEF Seed
<1>4. QED
  BY <1>1, <1>2, <1>3

-----------------------------------------------------------------------------
(* A row comes to the buffer.                                               *)

LEMMA GrownBatch ==
  ASSUME NEW b, Batch(b), NEW v \in RowValues, NEW bad \in BOOLEAN
  PROVE  LET c == Append(b, Entry(v, bad)) IN
         /\ Batch(c) /\ Len(b) \in Nat /\ DOMAIN b = 1..Len(b) /\ DOMAIN c = 1..(Len(b) + 1)
         /\ \A j \in DOMAIN b : c[j] = b[j]
         /\ c[Len(b) + 1] = [given |-> v, bad |-> bad]
<1>1. Entry(v, bad) \in Entries /\ Entry(v, bad) = [given |-> v, bad |-> bad]
  BY DEF Entry, Entries
<1>2. QED
  BY <1>1, AppendProperties, LenProperties DEF Batch

\* The row that drain turns down clashes with a row of the buffer.
LEMMA TurnedDown ==
  ASSUME NEW b, Batch(b), Whole(pin), mode # "declared", NEW types \in Schemas, Traced(b, types),
         NEW v \in RowValues, Conforms({v}), Raises(Join({types, StoredTypes({v})}))
  PROVE  \E m \in Good(b) : Fits(b, m) /\ Disagree(v, b[m].given)
<1> DEFINE st == StoredTypes({v})
           both == {types, st}
<1>1. OwnSound(v) /\ Whole(st)
  BY OwnIs DEF OwnSound
<1>2. \A t \in both : ~Raises(t)
  BY <1>1, WholeFixed, SchemaIs
<1>3. PICK t \in both, u \in both : Conflict(t, u)
  <2> HIDE DEF both
  <2>1. Raises(Join(both))
    BY DEF both
  <2>2. QED
    BY <1>2, <2>1, RaisesConflict
<1>4. Conflict(types, st)
  <2>1. t # u
    BY <1>3, NoConflict
  <2>2. (t = types /\ u = st) \/ (t = st /\ u = types)
    BY <1>3, <2>1
  <2>3. QED
    BY <1>3, <2>2, ConflictBoth
<1>5. PICK p \in DOMAIN types : p \in DOMAIN st /\ Apart(types[p], st[p])
  BY <1>4 DEF Conflict
<1>6. PICK m \in Good(b) : Fits(b, m) /\ p \in DOMAIN Own(b, m) /\ Own(b, m)[p] = types[p]
  BY <1>5 DEF Traced
<1>7. OwnSound(b[m].given)
  BY <1>6, OwnOf, BatchIs
<1>8. Conflict(Own(b, m), st)
  BY <1>5, <1>6 DEF Conflict
<1>9. Disagree(b[m].given, v)
  BY <1>1, <1>7, <1>8, ConflictDisagrees DEF Own
<1>10. QED
  BY <1>6, <1>9, DisagreeBoth

LEMMA BatchGrows ==
  ASSUME NEW b, Batch(b), BatchInv(b), NEW types \in Schemas, Traced(b, types), bufTypes = types,
         mode # "declared" => Whole(pin), NEW v \in RowValues
  PROVE  LET c    == Append(b, Entry(v, mode # "appended" /\ ~Probe(v)))
             more == IF Probe(v) /\ mode # "declared" THEN Join({types, StoredTypes({v})}) ELSE types
         IN Batch(c) /\ BatchInv(c) /\ Traced(c, more) /\ more \in Schemas
<1>1. PICK bad \in BOOLEAN : bad <=> (mode # "appended" /\ ~Probe(v))
  OBVIOUS
<1>2. PICK c : c = Append(b, Entry(v, bad))
  OBVIOUS
<1> DEFINE top == Len(b) + 1
           st  == StoredTypes({v})
<1>3. /\ Batch(c) /\ Len(b) \in Nat /\ DOMAIN b = 1..Len(b) /\ DOMAIN c = 1..top
      /\ \A j \in DOMAIN b : c[j] = b[j]
      /\ c[top] = [given |-> v, bad |-> bad]
  BY <1>2, GrownBatch
<1>4. \A j \in DOMAIN c : j \in DOMAIN b \/ j = top
  BY <1>3
<1>5. \A j \in DOMAIN b : j \in DOMAIN c /\ j < top /\ (j \in Good(c) <=> j \in Good(b))
                       /\ (Fits(c, j) <=> Fits(b, j)) /\ Own(c, j) = Own(b, j)
  BY <1>3 DEF Good, Fits, Own
<1>6. c[top].given = v /\ (c[top].bad <=> bad) /\ top \in DOMAIN c
  BY <1>3
<1>7. (Fits(c, top) <=> Conforms({v})) /\ Own(c, top) = st
  BY <1>6 DEF Fits, Own
<1>8. Good(b) \subseteq DOMAIN b
  BY BatchIs
<1>9. BatchInv(c)
  <2>1. CASE mode = "declared"
    <3>1. ASSUME NEW j \in Good(c) PROVE ~Outside(c[j].given, pin) /\ Holds(c[j].given, pin)
      <4>1. CASE j \in DOMAIN b
        BY <1>3, <1>5, <2>1, <4>1 DEF BatchInv
      <4>2. CASE j = top
        <5>1. ~bad
          BY <1>6, <3>1, <4>2 DEF Good
        <5>2. Probe(v)
          BY <1>1, <2>1, <5>1
        <5>3. QED
          BY <1>6, <2>1, <4>2, <5>2 DEF Probe
      <4>3. QED
        BY <1>4, <3>1, <4>1, <4>2 DEF Good
    <3>2. QED
      BY <2>1, <3>1 DEF BatchInv
  <2>2. CASE mode # "declared"
    <3>1. ASSUME NEW j \in DOMAIN c, c[j].bad PROVE Blamed(c, j)
      <4>1. CASE j \in DOMAIN b
        <5>1. b[j].bad /\ Blamed(b, j)
          BY <1>3, <2>2, <3>1, <4>1 DEF BatchInv
        <5>2. QED
          BY <1>3, <1>5, <1>8, <4>1, <5>1 DEF Blamed
      <4>2. CASE j = top
        <5>1. ~Probe(v)
          BY <1>1, <1>6, <3>1, <4>2
        <5>2. CASE ~Conforms({v})
          BY <1>7, <4>2, <5>2 DEF Blamed
        <5>3. CASE Conforms({v})
          <6>1. Raises(Join({types, st}))
            BY <2>2, <5>1, <5>3 DEF Probe
          <6>2. PICK m \in Good(b) : Fits(b, m) /\ Disagree(v, b[m].given)
            BY <2>2, <5>3, <6>1, TurnedDown
          <6>3. m \in Good(c) /\ m < top /\ Fits(c, m) /\ c[m] = b[m]
            BY <1>3, <1>5, <1>8, <6>2
          <6>4. QED
            BY <1>6, <4>2, <6>2, <6>3 DEF Blamed
        <5>4. QED
          BY <5>2, <5>3
      <4>3. QED
        BY <1>4, <3>1, <4>1, <4>2
    <3>2. QED
      BY <2>2, <3>1 DEF BatchInv
  <2>3. QED
    BY <2>1, <2>2
<1>10. Traced(c, types)
  BY <1>5, <1>8 DEF Traced
<1>11. ASSUME Probe(v), mode # "declared"
       PROVE  Traced(c, Join({types, st})) /\ Join({types, st}) \in Schemas
  <2> DEFINE both == {types, st}
  <2>1. Conforms({v}) /\ ~Raises(Join(both))
    BY <1>11 DEF Probe
  <2>2. OwnSound(v) /\ Whole(st)
    BY <1>11, <2>1, OwnIs DEF OwnSound
  <2>3. top \in Good(c) /\ Fits(c, top) /\ Own(c, top) = st
    BY <1>1, <1>6, <1>7, <1>11, <2>1 DEF Good
  <2>4. ASSUME NEW p \in DOMAIN Join(both)
        PROVE  (p \in DOMAIN types /\ types[p] = Join(both)[p]) \/ (p \in DOMAIN st /\ st[p] = Join(both)[p])
    <3>1. PICK t \in both : p \in DOMAIN t /\ t[p] = Join(both)[p]
      <4> HIDE DEF both
      <4>1. QED
        BY <2>1, <2>4, JoinIsOne DEF Raises
    <3>2. QED
      BY <3>1
  <2>5. Traced(c, Join(both))
    BY <1>10, <2>3, <2>4 DEF Traced
  <2>6. \A p \in DOMAIN Join(both) : p \in Path /\ Join(both)[p] \in Kinds
    <3>1. st \in Schemas
      BY <2>2, WholeSchema
    <3>2. QED
      BY <2>4, <3>1, SchemaIs
  <2>7. Join(both) \in [DOMAIN Join(both) -> Kinds] /\ DOMAIN Join(both) \in SUBSET Path
    <3> HIDE DEF both
    <3>1. Join(both) = [p \in DOMAIN Join(both) |-> Join(both)[p]]
      BY JoinIs
    <3>2. QED
      BY <2>6, <3>1
  <2>8. QED
    BY <2>5, <2>7 DEF Schemas
<1>12. QED
  <2>1. c = Append(b, Entry(v, mode # "appended" /\ ~Probe(v)))
    <3>1. bad = (mode # "appended" /\ ~Probe(v))
      BY <1>1
    <3>2. QED
      BY <1>2, <3>1
  <2>2. CASE Probe(v) /\ mode # "declared"
    BY <1>3, <1>9, <1>11, <2>1, <2>2
  <2>3. CASE ~ (Probe(v) /\ mode # "declared")
    BY <1>3, <1>9, <1>10, <2>1, <2>3
  <2>4. QED
    BY <2>2, <2>3

-----------------------------------------------------------------------------
(* The steps.                                                               *)

\* A batch becomes a part.
Sealed(b, r) == Batch(b) /\ BatchInv(b) /\ r \in BOOLEAN /\ parts' = Append(parts, PartOf(b, r))

\* The pin of the invariant.
LEMMA PinIs ==
  ASSUME IInv
  PROVE  /\ IF mode = "declared" THEN pin = DeclaredType ELSE Whole(pin)
         /\ pin \in Schemas /\ parts \in Seq(Parts) /\ Batch(buf)
BY DEF IInv, TypeInv, PartsGood, Batch

LEMMA NoColumnsSchema == NoColumns \in Schemas
BY NoColumnsWhole, WholeSchema

LEMMA EmptyBuffer ==
  ASSUME buf' = <<>>, bufTypes' = NoColumns
  PROVE  BatchInv(buf)' /\ Traced(buf, bufTypes)' /\ buf' \in Seq(Entries)
<1>1. DOMAIN <<>> = {} /\ DOMAIN NoColumns = {}
  BY DEF NoColumns
<1>2. Good(<<>>) = {}
  BY <1>1 DEF Good
<1>3. BatchInv(buf)'
  BY <1>1, <1>2 DEF BatchInv
<1>4. Traced(buf, bufTypes)'
  BY <1>1 DEF Traced
<1>5. QED
  BY <1>3, <1>4

LEMMA SealedParts ==
  ASSUME IInv, NEW b, NEW r, Sealed(b, r), mode' = mode,
         pin' = IF r THEN PartOf(b, r).schema ELSE pin
  PROVE  parts' \in Seq(Parts) /\ pin' \in Schemas /\ PartsGood(parts, pin)'
<1>1. r \in BOOLEAN /\ Batch(b) /\ BatchInv(b)
  BY DEF Sealed
<1> DEFINE part == PartOf(b, r)
<1>2. /\ part \in Parts /\ part.readable = r /\ PartGood(part, part.schema)
      /\ Extends(part.schema, pin)
  BY <1>1, PinIs, PartIs
<1>3. parts' = Append(parts, part)
  BY DEF Sealed
<1>4. PartsGood(parts, pin) /\ parts \in Seq(Parts) /\ pin \in Schemas
  BY DEF IInv, TypeInv
<1> HIDE DEF part
<1>5. parts' \in Seq(Parts)
  BY <1>2, <1>3, <1>4, AppendIs
<1>6. PartsGood(parts', pin')
  <2>1. CASE r
    BY <1>2, <1>3, <1>4, <2>1, PartsGrow DEF part
  <2>2. CASE ~r
    BY <1>2, <1>3, <1>4, <2>2, PartsSpoil
  <2>3. QED
    BY <2>1, <2>2
<1>7. PartsGood(parts, pin)'
  BY <1>6 DEF PartsGood, PartGood
<1>8. pin' \in Schemas
  <2>1. part.schema \in Schemas
    BY <1>2 DEF Parts
  <2>2. QED
    BY <1>4, <2>1 DEF part
<1>9. QED
  BY <1>5, <1>7, <1>8

LEMMA FlushedKeeps ==
  ASSUME IInv, NEW b, Batch(b), BatchInv(b), Flushed(b), mode' = mode,
         offered' \in Nat, restarts' \in Nat
  PROVE  IInv' /\ Sealed(b, TRUE)
<1>1. Sealed(b, TRUE) /\ pin' = PartOf(b, TRUE).schema
  BY DEF Flushed, Sealed
<1>2. parts' \in Seq(Parts) /\ pin' \in Schemas /\ PartsGood(parts, pin)'
  BY <1>1, SealedParts
<1>3. buf' = <<>> /\ bufTypes' = NoColumns
  BY DEF Flushed
<1>4. BatchInv(buf)' /\ Traced(buf, bufTypes)' /\ buf' \in Seq(Entries)
  BY <1>3, EmptyBuffer
<1>5. TypeInv'
  BY <1>2, <1>3, <1>4, NoColumnsSchema DEF TypeInv, IInv
<1>6. QED
  BY <1>1, <1>2, <1>4, <1>5 DEF IInv

LEMMA AddKeeps ==
  ASSUME IInv, NEW v \in RowValues, Add(v)
  PROVE  IInv' /\ (parts' = parts \/ \E b, r : Sealed(b, r))
<1> DEFINE c    == Append(buf, Entry(v, mode # "appended" /\ ~Probe(v)))
           more == IF Probe(v) /\ mode # "declared" THEN Join({bufTypes, StoredTypes({v})}) ELSE bufTypes
<1>1. Batch(c) /\ BatchInv(c) /\ Traced(c, more) /\ more \in Schemas
  <2>1. Batch(buf) /\ BatchInv(buf) /\ Traced(buf, bufTypes) /\ bufTypes \in Schemas
    BY DEF IInv, TypeInv, Batch
  <2>2. mode # "declared" => Whole(pin)
    BY PinIs
  <2>3. QED
    BY <2>1, <2>2, BatchGrows
<1>2. mode' = mode /\ offered' \in Nat /\ restarts' \in Nat
  BY DEF Add, IInv, TypeInv
<1>3. IF Len(c) >= FlushEvery THEN Flushed(c)
      ELSE buf' = c /\ bufTypes' = more /\ pin' = pin /\ parts' = parts
  BY DEF Add
<1> HIDE DEF c, more
<1>4. CASE Len(c) >= FlushEvery
  BY <1>1, <1>2, <1>3, <1>4, FlushedKeeps
<1>5. CASE ~ (Len(c) >= FlushEvery)
  <2>1. buf' = c /\ bufTypes' = more /\ pin' = pin /\ parts' = parts
    BY <1>3, <1>5
  <2>2. BatchInv(buf)' /\ Traced(buf, bufTypes)'
    BY <1>1, <1>2, <2>1, SameInv
  <2>3. PartsGood(parts, pin)'
    BY <1>2, <2>1 DEF IInv, PartsGood, PartGood
  <2>4. TypeInv'
    BY <1>1, <1>2, <2>1 DEF TypeInv, IInv, Batch
  <2>5. QED
    BY <2>1, <2>2, <2>3, <2>4 DEF IInv
<1>6. QED
  BY <1>4, <1>5

LEMMA FlushKeeps ==
  ASSUME IInv, Flush
  PROVE  IInv' /\ \E b, r : Sealed(b, r)
<1>1. Batch(buf) /\ BatchInv(buf) /\ Flushed(buf)
  BY PinIs DEF Flush, IInv
<1>2. mode' = mode /\ offered' \in Nat /\ restarts' \in Nat
  BY DEF Flush, IInv, TypeInv
<1>3. PICK b : b = buf
  OBVIOUS
<1>4. Batch(b) /\ BatchInv(b) /\ Flushed(b)
  BY <1>1, <1>3
<1>5. QED
  BY <1>2, <1>4, FlushedKeeps

LEMMA RestartKeeps ==
  ASSUME IInv, Restart
  PROVE  IInv' /\ (parts' = parts \/ \E b, r : Sealed(b, r))
<1>1. mode' = mode /\ offered' \in Nat /\ restarts' \in Nat
  BY DEF Restart, IInv, TypeInv
<1>2. buf' = <<>> /\ bufTypes' = NoColumns /\ pin' = Seed(parts')
  BY DEF Restart
<1>3. PartsGood(parts, pin) /\ parts \in Seq(Parts) /\ pin \in Schemas
  BY DEF IInv, TypeInv
<1>4. /\ parts' \in Seq(Parts) /\ pin' \in Schemas /\ PartsGood(parts, pin)'
      /\ parts' = parts \/ \E b, r : Sealed(b, r)
  <2>1. CASE parts' = parts
    <3>1. pin' = pin
      BY <1>2, <1>3, <2>1, SeedIs
    <3>2. QED
      BY <1>1, <1>3, <2>1, <3>1 DEF PartsGood, PartGood
  <2>2. CASE parts' = Append(parts, PartOf(buf, FALSE))
    <3>1. PICK b : b = buf
      OBVIOUS
    <3>2. Sealed(b, FALSE)
      BY <2>2, <3>1, PinIs DEF Sealed, IInv
    <3>3. PartOf(b, FALSE) \in Parts /\ ~PartOf(b, FALSE).readable
      BY <3>2, PinIs, PartIs DEF Sealed
    <3>4. PartsGood(Append(parts, PartOf(b, FALSE)), pin) /\ Append(parts, PartOf(b, FALSE)) \in Seq(Parts)
      BY <1>3, <3>3, PartsSpoil, AppendIs
    <3>5. pin' = pin
      BY <1>2, <2>2, <3>1, <3>4, SeedIs
    <3>6. QED
      BY <1>1, <3>2, <3>5, SealedParts
  <2>3. QED
    BY <2>1, <2>2 DEF Restart
<1>5. BatchInv(buf)' /\ Traced(buf, bufTypes)' /\ buf' \in Seq(Entries)
  BY <1>2, EmptyBuffer
<1>6. TypeInv'
  BY <1>1, <1>2, <1>4, <1>5, NoColumnsSchema DEF TypeInv, IInv
<1>7. QED
  BY <1>4, <1>5, <1>6 DEF IInv

LEMMA StutterKeeps ==
  ASSUME IInv, UNCHANGED vars
  PROVE  IInv' /\ parts' = parts
<1>1. PICK b, types : b = buf /\ types = bufTypes
  OBVIOUS
<1>2. BatchInv(b) /\ Traced(b, types) /\ buf' = b /\ bufTypes' = types /\ pin' = pin /\ mode' = mode
  BY <1>1 DEF IInv, vars
<1>3. BatchInv(buf)' /\ Traced(buf, bufTypes)'
  BY <1>2, SameInv
<1>4. PartsGood(parts, pin)'
  BY DEF IInv, PartsGood, PartGood, vars
<1>5. TypeInv'
  BY DEF IInv, TypeInv, vars
<1>6. QED
  BY <1>3, <1>4, <1>5 DEF IInv, vars

LEMMA InitHolds ==
  ASSUME Init
  PROVE  IInv
<1>1. TypeInv
  BY DeclaredIs, NoColumnsSchema DEF Init, TypeInv
<1>2. Readable(parts) = {}
  BY DEF Init, Readable
<1>3. PartsGood(parts, pin)
  BY <1>2, NoColumnsWhole DEF Init, PartsGood
<1>4. DOMAIN buf = {} /\ DOMAIN bufTypes = {}
  BY DEF Init, NoColumns
<1>5. BatchInv(buf) /\ Traced(buf, bufTypes)
  BY <1>4 DEF BatchInv, Traced, Good
<1>6. QED
  BY <1>1, <1>3, <1>5 DEF IInv

LEMMA StepHolds ==
  ASSUME IInv, [Next]_vars
  PROVE  IInv' /\ (parts' = parts \/ \E b, r : Sealed(b, r))
<1>1. ASSUME NEW v \in RowValues, Add(v) PROVE IInv' /\ (parts' = parts \/ \E b, r : Sealed(b, r))
  BY <1>1, AddKeeps
<1>2. CASE Flush
  BY <1>2, FlushKeeps
<1>3. CASE Restart
  BY <1>3, RestartKeeps
<1>4. CASE Over
  BY <1>4, StutterKeeps DEF Over
<1>5. CASE UNCHANGED vars
  BY <1>5, StutterKeeps
<1>6. QED
  BY <1>1, <1>2, <1>3, <1>4, <1>5 DEF Next

-----------------------------------------------------------------------------
(* The theorems.                                                            *)

\* The invariant: the pin is what the newest part carries, no error row of the buffer is one
\* without a reason, and the buffer's types are those of rows in it.
THEOREM SchemaInvariant == Spec => []IInv
<1>1. Init => IInv
  BY InitHolds
<1>2. IInv /\ [Next]_vars => IInv'
  BY StepHolds
<1>3. QED
  BY <1>1, <1>2, PTL DEF Spec

\* Rows, types, the buffer and the parts have their types (ParquetSink's _schema, _buf,
\* _buf_schema, and what is on disk).
THEOREM SchemaTypes == Spec => []TypeInv
<1>1. IInv => TypeInv
  BY DEF IInv
<1>2. QED
  BY <1>1, SchemaInvariant, PTL

\* All the parts of a directory can be read together, over every flush and restart: a pinned
\* field's type never changes, and every part carries the full pinned schema (flush, _pin,
\* _seed_schema).
THEOREM PartsAlwaysReadTogether == Spec => []PartsReadTogether
<1>1. IInv => PartsReadTogether
  <2> SUFFICES ASSUME IInv PROVE PartsReadTogether
    OBVIOUS
  <2>1. PartsGood(parts, pin)
    BY DEF IInv
  <2>2. \A k \in Readable(parts) :
          /\ ~Raises(parts[k].schema) /\ Extends(pin, parts[k].schema)
          /\ mode # "declared" => WithoutUntyped(parts[k].schema) = parts[k].schema
    BY <2>1, WholeFixed DEF PartsGood, PartGood
  <2>3. \A k, j \in Readable(parts) : j < k => Extends(parts[k].schema, parts[j].schema)
    BY <2>1 DEF PartsGood
  <2>4. QED
    BY <2>2, <2>3 DEF PartsReadTogether
<1>2. QED
  BY <1>1, SchemaInvariant, PTL

\* A row that is stored says what was given: no cast, pin, dropped untyped field or declared
\* schema rewrites a value or loses a key (_conform, _salvage, cast_columns).
THEOREM ValuesAlwaysKept == Spec => []ValuesKept
<1>1. IInv => ValuesKept
  BY DEF IInv, PartsGood, PartGood, RowsSay, ValuesKept
<1>2. QED
  BY <1>1, SchemaInvariant, PTL

\* The rows of a part that is sealed, as OneRowPerConflict speaks of them.
LEMMA SealedCosts ==
  ASSUME NEW b, Batch(b), BatchInv(b), mode # "declared", Whole(pin), pin \in Schemas, NEW r \in BOOLEAN
  PROVE  LET rows    == PartOf(b, r).rows
             fitting == {j \in DOMAIN rows : Conforms({rows[j].given})} IN
         /\ \A j \in fitting : rows[j].bad =>
              \E m \in DOMAIN rows \ {j} : Disagree(rows[j].given, rows[m].given)
         /\ fitting # {} => \E j \in fitting : ~rows[j].bad
<1>1. PICK rows : rows = PartOf(b, r).rows
  OBVIOUS
<1> DEFINE fitting == {j \in DOMAIN rows : Conforms({rows[j].given})}
<1>2. DOMAIN rows = DOMAIN b /\ \A j \in DOMAIN b :
        rows[j].given = b[j].given /\ (rows[j].bad <=> j \notin Kept(b))
  BY <1>1, PartRows DEF Stays
<1>3. fitting = {j \in DOMAIN b : Fits(b, j)} /\ DOMAIN b \subseteq Nat
  <2>1. fitting = {j \in DOMAIN b : Conforms({b[j].given})}
    BY <1>2
  <2>2. fitting = {j \in DOMAIN b : Fits(b, j)}
    BY <2>1 DEF Fits
  <2>3. DOMAIN b \subseteq Nat
    BY BatchIs
  <2>4. QED
    BY <2>2, <2>3
<1>4. ASSUME NEW j \in fitting, b[j].bad
      PROVE  \E m \in Good(b) : m < j /\ Fits(b, m) /\ Disagree(b[j].given, b[m].given)
  BY <1>3, <1>4 DEF BatchInv, Blamed
<1>5. ASSUME NEW j \in fitting, rows[j].bad
      PROVE  \E m \in DOMAIN rows \ {j} : Disagree(rows[j].given, rows[m].given)
  <2>1. j \in DOMAIN b /\ Fits(b, j) /\ j \notin Kept(b)
    BY <1>2, <1>3, <1>5
  <2>2. \E m \in DOMAIN b : m # j /\ Disagree(b[j].given, b[m].given)
    <3>1. CASE b[j].bad
      <4>1. PICK m \in Good(b) : m < j /\ Disagree(b[j].given, b[m].given)
        BY <1>4, <1>5, <3>1
      <4>2. m \in DOMAIN b /\ m # j
        BY <1>3, <2>1, <4>1, BatchIs
      <4>3. QED
        BY <4>1, <4>2
    <3>2. CASE ~b[j].bad
      BY <2>1, <3>2, KeptBlames DEF Good
    <3>3. QED
      BY <3>1, <3>2
  <2>3. QED
    BY <1>2, <2>1, <2>2
<1>6. ASSUME fitting # {} PROVE \E j \in fitting : ~rows[j].bad
  <2>1. fitting \in SUBSET Nat
    BY <1>3
  <2>2. PICK j \in fitting : \A i \in fitting : j <= i
    BY <1>6, <2>1, Least
  <2>3. ~b[j].bad
    <3> SUFFICES ASSUME b[j].bad PROVE FALSE
      OBVIOUS
    <3>1. PICK m \in Good(b) : m < j /\ Fits(b, m)
      BY <1>4
    <3>2. m \in fitting
      BY <1>3, <3>1, BatchIs
    <3>3. QED
      BY <2>1, <2>2, <3>1, <3>2
  <2>4. j \in Good(b) /\ Fits(b, j)
    BY <1>3, <2>3 DEF Good
  <2>5. \A i \in Good(b) : i < j => ~Fits(b, i)
    <3> SUFFICES ASSUME NEW i \in Good(b), i < j, Fits(b, i) PROVE FALSE
      OBVIOUS
    <3>1. i \in fitting
      BY <1>3, BatchIs
    <3>2. QED
      BY <2>1, <2>2, <3>1
  <2>6. PICK m \in Kept(b) : Fits(b, m)
    BY <2>4, <2>5, KeptSome
  <2>7. m \in DOMAIN b
    BY <2>6, TableIs, BatchIs
  <2>8. QED
    BY <1>2, <1>3, <2>6, <2>7
<1>7. QED
  BY <1>1, <1>5, <1>6

\* What OneRowPerConflict says of a step.
Costs ==
  Len(parts') > Len(parts) /\ mode # "declared" =>
    LET rows    == Last(parts').rows
        fitting == {j \in DOMAIN rows : Conforms({rows[j].given})} IN
    /\ \A j \in fitting : rows[j].bad =>
         \E m \in DOMAIN rows \ {j} : Disagree(rows[j].given, rows[m].given)
    /\ fitting # {} => \E j \in fitting : ~rows[j].bad

\* A type conflict costs one row, never the buffer: an error row of a part does not fit the
\* pin, or disagrees with another row of its buffer, and if some row fits, some row is stored
\* (probe, _salvage, _cast_to_shared_types).
THEOREM ConflictsCostOneRow == Spec => OneRowPerConflict
<1>1. IInv /\ [Next]_vars => Costs
  <2> SUFFICES ASSUME IInv, [Next]_vars, Len(parts') > Len(parts), mode # "declared" PROVE Costs
    BY DEF Costs
  <2>1. Len(parts) \in Nat
    BY PinIs, LenProperties
  <2>2. parts' # parts
    BY <2>1
  <2>3. PICK b, r : Sealed(b, r)
    BY <2>2, StepHolds
  <2>4. Batch(b) /\ BatchInv(b) /\ r \in BOOLEAN /\ Whole(pin) /\ pin \in Schemas
    BY <2>3, PinIs DEF Sealed
  <2>5. Last(parts') = PartOf(b, r)
    <3>1. PartOf(b, r) \in Parts
      BY <2>4, PartIs
    <3>2. Len(Append(parts, PartOf(b, r))) = Len(parts) + 1
          /\ Append(parts, PartOf(b, r))[Len(parts) + 1] = PartOf(b, r)
      BY <3>1, PinIs, AppendIs
    <3>3. QED
      BY <2>3, <3>2 DEF Last, Sealed
  <2>6. QED
    BY <2>4, <2>5, SealedCosts DEF Costs
<1>2. IInv /\ [Next]_vars => [Costs]_vars
  BY <1>1
<1>3. QED
  BY <1>2, SchemaInvariant, PTL DEF Spec, OneRowPerConflict, Costs
=============================================================================
