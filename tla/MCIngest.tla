------------------------------- MODULE MCIngest -------------------------------
(* Model checking of Ingest: two processes and two shards.  Shard 1 has       *)
(* Prefetch + 2 objects, so that its read-ahead reaches its bound: a row the  *)
(* sink rejects and three objects of one id, which may fail (ids= need not be *)
(* injective: skip_done drops the repeats).  Shard 0 has an object within the *)
(* limit and one beyond.                                                      *)
EXTENDS Ingest, TLC
CONSTANTS a, b, c, d, pa, pb, pc, pc2, pc3, pd, p, q

MCPaths   == <<pa, pb, pc, pc2, pc3, pd>>
MCIdOf    == pa :> a @@ pb :> b @@ pc :> c @@ pc2 :> c @@ pc3 :> c @@ pd :> d
MCShardOf == a :> 0 @@ b :> 1 @@ c :> 1 @@ d :> 0
=============================================================================
