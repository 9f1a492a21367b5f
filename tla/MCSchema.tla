------------------------------- MODULE MCSchema -------------------------------
(* Model checking of Schema: rows over two columns, with numbers that a cast  *)
(* refuses, lists, structs that grow, and objects that say nothing.  The      *)
(* content of a list is its length.                                           *)
EXTENDS Schema, TLC

X   == <<"x">>
M   == <<"m">>
MA  == <<"m", "a">>
MB  == <<"m", "b">>
MI  == <<"m", "[]">>
MIA == <<"m", "[]", "a">>
MIB == <<"m", "[]", "b">>

Value(p, at, k, n) == [path |-> p, at |-> at, k |-> k, n |-> n]
Field(p, k, n) == Value(p, <<>>, k, n)
Object(p) == Value(p, <<>>, "struct", "")
Item(p, j, k, n) == Value(p, <<j>>, k, n)

MCRows == {
  {Field(X, "int", "one")},
  {Field(X, "text", "t")},
  {Field(X, "null", ""), Object(M), Field(MA, "int", "one")},
  {Field(X, "double", "half"), Object(M), Field(MA, "int", "big")},
  {Field(X, "int", "big"), Object(M), Field(MA, "double", "half"), Field(MB, "null", "")},
  {Object(M), Field(MB, "text", "t")},
  {Field(M, "list", "2"), Item(MI, 1, "null", ""), Item(MI, 2, "int", "one")},
  {Field(M, "list", "1"), Item(MI, 1, "double", "half")},
  {Field(M, "list", "0")},
  {Field(M, "list", "1"), Item(MI, 1, "struct", ""), Item(MIA, 1, "int", "one")},
  {Field(M, "list", "1"), Item(MI, 1, "struct", ""), Item(MIB, 1, "text", "t")},
  {Object(M)},
  {Object(M), Field(MA, "struct", "")} }

MCDeclared == X :> "double" @@ M :> "struct" @@ MA :> "double"
=============================================================================
