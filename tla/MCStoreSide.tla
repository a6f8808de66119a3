----------------------------- MODULE MCStoreSide -----------------------------
(* Small instances of what processes do to a Store: its profile catalog, its *)
(* schema, the component graph of an environment, and trace topologies.  They *)
(* share no state; a behaviour exercises one part, and the others stay as     *)
(* they were.                                                                *)
EXTENDS ProfileCatalog, SchemaUpgrade, ComponentGraph, TraceCollection, TLC

CONSTANTS a1, a2, u1, u2, c1, c2

VARIABLE part

Symmetric == Permutations({a1, a2}) \cup Permutations({u1, u2}) \cup Permutations({c1, c2})

\* Profile catalog.
Cat(p, s, n, w, b) ==
  [profile |-> p, services |-> s, nodes |-> n, workflows |-> w, bindings |-> b]

\* A consistent bundle, and one whose binding has no workflow.
SomeBundles ==
  {Cat("p1", {"s1"}, {"s1"}, {"w1"}, {"w1"}), Cat("p1", {}, {}, {}, {"w1"})}

OtherStore == Cat("p2", {"s1"}, {}, {"w1"}, {})

\* Component graphs.
Url == [kind |-> "url", target |-> TRUE, service |-> FALSE]
NoUrl == [Url EXCEPT !.target = FALSE]
Comp(id) == [id |-> id, required |-> TRUE, app |-> FALSE, check |-> Url]
Dep(c, p, ph) == [consumer |-> c, provider |-> p, phase |-> ph]
Inline(o, t, n) == [owner |-> o, target |-> t, inline |-> n, source |-> "inline"]
G(cs, ds, as) == [components |-> cs, dependencies |-> ds, assets |-> as]
Three == {Comp("a"), Comp("b"), Comp("c")}

Deps ==
  {Dep("a", "b", "startup"), Dep("b", "c", "startup"), Dep("c", "a", "startup"),
   Dep("a", "c", "startup"), Dep("b", "a", "startup"), Dep("a", "a", "startup"),
   Dep("c", "b", "runtime")}

Unchecked == [Comp("b") EXCEPT !.check = NoUrl]

OldGraphs ==
  {G(Three, ds, {}) : ds \in SUBSET Deps}
    \cup {G({Comp("a"), Unchecked}, {}, {Inline("a", "a", 1)}),
          G({Comp("a")}, {}, {[Inline("a", "a", 0) EXCEPT !.source = "broken"]}),
          EmptyGraph}

Files ==
  {G(Three, {Dep("c", "a", "startup"), Dep("c", "b", "startup")}, {Inline("a", NoTarget, 1)}),
   G(Three, {Dep("a", "b", "startup"), Dep("b", "c", "startup")}, {}),
   G({Comp("a"), Unchecked}, {}, {}), G({Comp("a")}, {}, {Inline("a", NoTarget, 2)}),
   G({Comp("a"), [Comp("a") EXCEPT !.required = FALSE]}, {}, {}),
   G({Comp("a")}, {Dep("b", "a", "startup")}, {}),
   G({Comp("b"), Comp("c")}, {Dep("b", "c", "startup"), Dep("c", "b", "startup")}, {})}

\* Traces: a complete one of two services, and one of another request.
Span(key, service, parents, exit) ==
  [key |-> key, service |-> service, parents |-> parents, exit |-> exit]

Spans ==
  "t1" :> {Span("a", "web", {}, "external"), Span("b", "db", {"a"}, "none")}
    @@ "t2" :> {Span("d", "pay", {}, "unresolved")}

\* The row the first collection writes.
Named == {<<"r1", "r1", "t1">>}

-----------------------------------------------------------------------------
Init ==
  /\ part \in {"catalog", "schema", "graph", "trace"}
  /\ CatalogInit /\ (part # "catalog" => backend = "sql")
  /\ SchemaInit /\ (part # "schema" => dialect = "mysql" /\ from = 0)
  /\ GraphInit /\ (part # "graph" => stored = EmptyGraph)
  /\ TraceInit

CatalogPart ==
  part = "catalog" /\ CatalogNext /\ UNCHANGED <<part, schemaVars, graphVars, traceVars>>
SchemaPart ==
  part = "schema" /\ SchemaNext /\ UNCHANGED <<part, catalogVars, graphVars, traceVars>>
GraphPart ==
  part = "graph" /\ GraphNext /\ UNCHANGED <<part, catalogVars, schemaVars, traceVars>>
TracePart ==
  part = "trace" /\ TraceNext /\ UNCHANGED <<part, catalogVars, schemaVars, graphVars>>

Next == CatalogPart \/ SchemaPart \/ GraphPart \/ TracePart

vars == <<part, catalogVars, schemaVars, graphVars, traceVars>>

Spec == Init /\ [][Next]_vars

\* Type correctness of every part.
StoreTypeOK == CatalogTypeOK /\ SchemaTypeOK /\ GraphTypeOK /\ TraceTypeOK
=============================================================================
