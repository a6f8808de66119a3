------------------------- MODULE ProfileCatalogProofs -------------------------
(***************************************************************************)
(* What holds of the profile catalog for every number of commands,          *)
(* profiles, services, workflows and read models.  A registration that no   *)
(* write overlapped still holds what readers would get (FreshCopy), so it   *)
(* writes back all of it; on MySQL and PostgreSQL what a command holds was  *)
(* stored as a whole, so its bindings have their workflows (Audited); a     *)
(* verification that runs alone reads back what it wrote (Proven).          *)
(***************************************************************************)
EXTENDS ProfileCatalog, FiniteOrders

Loading == {"services", "workflows", "nodes", "bindings"}

Op == [pc : OpPlaces, kind : OpKinds, arg : Services \cup Workflows \cup {"none"},
       cat : Catalogs, at : Nat, seen : Nat, key : 1 .. ModelKeys,
       good : BOOLEAN, report : {"none", "ok", "failed"}, alone : BOOLEAN]

\* Every row and every publication was stamped before now.
Times ==
    /\ clock >= 2
    /\ \A p \in Profiles : rows[p].at < clock
    /\ \A a \in Actors : ops[a].pc \in {"index", "replace"} => ops[a].at > 0 /\ ops[a].at < clock

\* Only a SQLite catalog that is there is read table by table.
Loads == \A a \in Actors : ops[a].pc \in Loading => backend = "sqlite" /\ Stored # {}

\* A command names an entry of its kind.
ArgFits(op) == /\ op.kind \in {"service", "node"} => op.arg \in Services
               /\ op.kind \in {"workflow", "binding"} => op.arg \in Workflows

CatalogInv == CatalogTypeOK /\ Times /\ Loads /\ \A a \in Actors : ArgFits(ops[a])

-----------------------------------------------------------------------------
\* Some stored row is the newest: the least bound of their times is the time of one.
LEMMA NewestStored ==
    ASSUME CatalogInv, Stored # {}
    PROVE  Newest \in Stored /\ \A q \in Stored : rows[q].at <= rows[Newest].at
<1> DEFINE Bounds == {n \in Nat : \A q \in Stored : rows[q].at <= n}
<1>1. \A p \in Profiles : rows[p].at \in Nat
  BY DEF CatalogInv, CatalogTypeOK
<1>2. clock \in Bounds
  BY <1>1 DEF CatalogInv, CatalogTypeOK, Times, Stored
<1>3. PICK n \in Bounds : \A m \in Bounds : n <= m
  <2>1. Bounds \in SUBSET Nat /\ Bounds # {}
    BY <1>2
  <2> HIDE DEF Bounds
  <2> QED
    BY <2>1, Least
<1>4. \E p \in Stored : rows[p].at = n
  <2> SUFFICES ASSUME \A p \in Stored : rows[p].at # n PROVE FALSE
    OBVIOUS
  <2>1. PICK p \in Stored : TRUE
    OBVIOUS
  <2>2. rows[p].at # 0 /\ rows[p].at <= n /\ rows[p].at \in Nat
    BY <1>1, <2>1 DEF Stored
  <2>3. n - 1 \in Nat
    BY <2>2
  <2>4. \A q \in Stored : rows[q].at <= n - 1
    BY <1>1 DEF Stored
  <2>5. n - 1 \in Bounds
    BY <2>3, <2>4
  <2> QED
    BY <1>3, <2>3, <2>5
<1>5. \E p \in Stored : \A q \in Stored : rows[q].at <= rows[p].at
  BY <1>4
<1> QED
  BY <1>5 DEF Newest

LEMMA EmptyIsCatalog == \A p \in Profiles : EmptyCatalog(p) \in Catalogs
BY DEF EmptyCatalog, Catalogs

\* The first query of a registration.
LEMMA FirstReadType ==
    ASSUME CatalogInv
    PROVE  /\ FirstRead.cat \in Catalogs /\ FirstRead.pc \in {"write", "services"}
           /\ FirstRead.pc = "services" => backend = "sqlite" /\ Stored # {}
<1>1. CASE Stored = {}
  BY <1>1, EmptyIsCatalog, CatalogConstants DEF FirstRead
<1>2. CASE Stored # {} /\ backend = "sql"
  <2>1. Newest \in Profiles
    BY <1>2, NewestStored DEF Stored
  <2>2. CurrentCatalog \in Catalogs
    BY <2>1 DEF CatalogInv, CatalogTypeOK, CurrentCatalog
  <2> QED
    BY <1>2, <2>2 DEF FirstRead
<1>3. CASE Stored # {} /\ backend # "sql"
  <2>1. Newest \in Profiles
    BY <1>3, NewestStored DEF Stored
  <2>2. EmptyCatalog(Newest) \in Catalogs /\ backend = "sqlite"
    BY <1>3, <2>1, EmptyIsCatalog DEF CatalogInv, CatalogTypeOK
  <2> QED
    BY <1>3, <2>2 DEF FirstRead
<1> QED
  BY <1>1, <1>2, <1>3

\* What a step of a does to the others: they are no longer alone.
LEMMA BecomesOthers ==
    ASSUME CatalogInv, NEW a \in Actors, NEW op \in Op, Becomes(a, op)
    PROVE  /\ ops' \in [Actors -> Op] /\ ops'[a] = op
           /\ \A x \in Actors \ {a} :
                 /\ ops'[x].pc = ops[x].pc /\ ops'[x].kind = ops[x].kind /\ ops'[x].arg = ops[x].arg
                 /\ ops'[x].cat = ops[x].cat /\ ops'[x].at = ops[x].at
                 /\ ops'[x].seen = ops[x].seen
<1>1. ops \in [Actors -> Op]
  BY DEF CatalogInv, CatalogTypeOK, Op
<1>2. \A x \in Actors : [ops[x] EXCEPT !.alone = FALSE] \in Op
  BY <1>1 DEF Op
<1> QED
  BY <1>1, <1>2 DEF Becomes, Op

LEMMA IdleType == Idle \in Op /\ Idle.pc = "idle" /\ Idle.seen = 0 /\ ArgFits(Idle)
BY EmptyIsCatalog, CatalogConstants DEF Idle, Op, OpPlaces, OpKinds, ArgFits

-----------------------------------------------------------------------------
(* Writes of a catalog.                                                    *)

LEMMA ReplaceType ==
    ASSUME CatalogInv, NEW cat \in Catalogs, NEW at \in Nat, at > 0, Replace(cat, at)
    PROVE  /\ rows' \in [Profiles -> [at : Nat, cat : Catalogs]] /\ writes' = writes + 1
           /\ rows'[cat.profile] = [at |-> at, cat |-> cat] /\ cat.profile \in Profiles
           /\ \A p \in Profiles \ {cat.profile} :
                 rows'[p] \in {rows[p], NoRow} /\ (backend # "sql" => rows'[p] = NoRow)
                 /\ (backend = "sql" => rows'[p] = rows[p])
           /\ \A p \in Profiles : rows'[p].at # 0 => rows'[p].cat.profile = p
           /\ Stored' # {}
<1>1. cat.profile \in Profiles
  BY DEF Catalogs
<1>2. rows \in [Profiles -> [at : Nat, cat : Catalogs]] /\ \A p \in Stored : rows[p].cat.profile = p
  BY DEF CatalogInv, CatalogTypeOK
<1>3. NoRow \in [at : Nat, cat : Catalogs] /\ NoRow.at = 0
  BY EmptyIsCatalog, CatalogConstants DEF NoRow
<1>4. [at |-> at, cat |-> cat] \in [at : Nat, cat : Catalogs]
  OBVIOUS
<1>5. CASE backend = "sql"
  <2>1. rows' = [rows EXCEPT ![cat.profile] = [at |-> at, cat |-> cat]] /\ writes' = writes + 1
    BY <1>5 DEF Replace, ReplaceRow
  <2>2. rows' \in [Profiles -> [at : Nat, cat : Catalogs]]
    BY <1>1, <1>2, <1>4, <2>1
  <2>3. /\ rows'[cat.profile] = [at |-> at, cat |-> cat]
        /\ \A p \in Profiles \ {cat.profile} : rows'[p] = rows[p]
    BY <1>1, <1>2, <2>1
  <2>4. \A p \in Profiles : rows'[p].at # 0 => rows'[p].cat.profile = p
    BY <1>2, <2>3 DEF Stored
  <2>5. cat.profile \in Stored'
    BY <1>1, <2>3 DEF Stored
  <2> QED
    BY <1>1, <1>5, <2>1, <2>2, <2>3, <2>4, <2>5
<1>6. CASE backend # "sql"
  <2>1. /\ rows' = [p \in Profiles |-> IF p = cat.profile THEN [at |-> at, cat |-> cat] ELSE NoRow]
        /\ writes' = writes + 1
    BY <1>6 DEF Replace, ReplaceTables
  <2>2. rows' \in [Profiles -> [at : Nat, cat : Catalogs]]
    BY <1>3, <1>4, <2>1
  <2>3. /\ rows'[cat.profile] = [at |-> at, cat |-> cat]
        /\ \A p \in Profiles \ {cat.profile} : rows'[p] = NoRow
    BY <1>1, <2>1
  <2>4. \A p \in Profiles : rows'[p].at # 0 => rows'[p].cat.profile = p
    BY <1>3, <2>3
  <2>5. cat.profile \in Stored'
    BY <1>1, <2>3 DEF Stored
  <2> QED
    BY <1>1, <1>6, <2>1, <2>2, <2>3, <2>4, <2>5
<1> QED
  BY <1>5, <1>6

-----------------------------------------------------------------------------
(* What the commands hold.                                                 *)

\* The tables a registration has read when it is at a place.
ReadAt(pc) ==
    CASE pc = "services" -> {}
      [] pc = "workflows" -> {"services"}
      [] pc = "nodes" -> {"services", "workflows"}
      [] pc = "bindings" -> {"services", "workflows", "nodes"}
      [] OTHER -> Loading

\* As far as it was read, the catalog a command holds is that of the Store.
FreshCopy(op) ==
    op.pc \in Loading \cup {"write"} /\ Stored # {} =>
        /\ op.cat.profile = Newest
        /\ \A f \in ReadAt(op.pc) : rows[Newest].cat[f] \subseteq op.cat[f]

\* Nothing was written since a began to load, or a knows of it by the number of writes.
Fresh == \A a \in Actors : ops[a].seen <= writes /\ (ops[a].seen = writes => FreshCopy(ops[a]))

\* On MySQL and PostgreSQL a catalog is read and written whole.
Audited ==
    backend = "sql" /\ ~unaudited =>
        /\ \A p \in Profiles : AuditOK(rows[p].cat)
        /\ \A a \in Actors : ops[a].pc = "write" => AuditOK(ops[a].cat)

CatInv == CatalogInv /\ Fresh /\ Audited

\* LossNeedsOverlap, of one step.
NoLoss ==
    \A a \in Actors : \A p \in Profiles :
        At(a, "write") /\ ops'[a].pc = "idle" /\ Loses(p) => writes # ops[a].seen

LEMMA CatalogFields ==
    ASSUME NEW cat \in Catalogs, NEW other \in Catalogs, cat.profile = other.profile,
           \A f \in Loading : cat[f] = other[f]
    PROVE  cat = other
BY DEF Catalogs, Loading

\* A step that writes no catalog.
LEMMA NothingWritten ==
    ASSUME CatInv, NEW a \in Actors, NEW op \in Op, Becomes(a, op),
           UNCHANGED <<backend, rows, writes, unaudited>>,
           op.pc \in Loading => backend = "sqlite" /\ Stored # {},
           op.seen <= writes, op.seen = writes => FreshCopy(op),
           backend = "sql" /\ ~unaudited /\ op.pc = "write" => AuditOK(op.cat),
           op.pc \in {"index", "replace"} => op.at > 0 /\ op.at < clock', ArgFits(op),
           clock' \in {clock, clock + 1}, started' \in Nat, interrupted' \in BOOLEAN,
           profileIndex' \subseteq Catalogs,
           configs' \subseteq [id : Nat, bundle : Catalogs, active : BOOLEAN],
           models' \in [Profiles -> [1 .. ModelKeys -> Nat]]
    PROVE  CatInv' /\ NoLoss
<1>1. /\ ops' \in [Actors -> Op] /\ ops'[a] = op
      /\ \A x \in Actors \ {a} :
            /\ ops'[x].pc = ops[x].pc /\ ops'[x].kind = ops[x].kind /\ ops'[x].arg = ops[x].arg
            /\ ops'[x].cat = ops[x].cat /\ ops'[x].at = ops[x].at
            /\ ops'[x].seen = ops[x].seen
  BY BecomesOthers DEF CatInv
<1>2. Stored' = Stored /\ Newest' = Newest
  BY DEF Stored, Newest
<1>3. CatalogTypeOK'
  BY <1>1, <1>2 DEF CatInv, CatalogInv, CatalogTypeOK, Op
<1>4. Times'
  <2>1. clock \in Nat /\ \A p \in Profiles : rows[p].at \in Nat
    BY DEF CatInv, CatalogInv, CatalogTypeOK
  <2>5. \A x \in Actors : ops[x].at \in Nat /\ (ops[x].at < clock => ops[x].at < clock')
    BY <2>1 DEF CatInv, CatalogInv, CatalogTypeOK
  <2>2. clock' >= 2 /\ \A p \in Profiles : rows'[p].at < clock'
    BY <2>1 DEF CatInv, CatalogInv, Times
  <2>3. \A x \in Actors : ops'[x].pc \in {"index", "replace"} => ops'[x].at > 0 /\ ops'[x].at < clock'
    BY <1>1, <2>5 DEF CatInv, CatalogInv, Times
  <2> QED
    BY <2>2, <2>3 DEF Times
<1>a. \A x \in Actors : ArgFits(ops[x])'
  BY <1>1 DEF CatInv, CatalogInv, ArgFits
<1>5. Loads'
  BY <1>1, <1>2 DEF CatInv, CatalogInv, Loads
<1>6. \A x \in Actors \ {a} : FreshCopy(ops[x])' <=> FreshCopy(ops[x])
  BY <1>1, <1>2 DEF FreshCopy
<1>7. FreshCopy(ops[a])' <=> FreshCopy(op)
  BY <1>1, <1>2 DEF FreshCopy
<1>8. Fresh'
  BY <1>1, <1>6, <1>7 DEF CatInv, Fresh
<1>9. Audited'
  BY <1>1 DEF CatInv, Audited
<1>10. NoLoss
  BY DEF NoLoss, Loses
<1> QED
  BY <1>a, <1>3, <1>4, <1>5, <1>8, <1>9, <1>10 DEF CatInv, CatalogInv

\* A catalog is written: everybody else has missed it.
LEMMA CatalogWritten ==
    ASSUME CatInv, NEW a \in Actors, NEW op \in Op, Becomes(a, op),
           NEW cat \in Catalogs, NEW at \in Nat, at > 0, Replace(cat, at),
           at < clock', clock' \in {clock, clock + 1}, started' \in Nat,
           op.pc \notin Loading \cup {"write"}, op.seen <= writes,
           op.pc \in {"index", "replace"} => op.at > 0 /\ op.at < clock', ArgFits(op),
           unaudited' \in BOOLEAN, unaudited => unaudited',
           backend = "sql" /\ ~unaudited' => AuditOK(cat),
           UNCHANGED <<backend, configs, models, profileIndex, interrupted>>
    PROVE  CatInv'
<1>1. /\ ops' \in [Actors -> Op] /\ ops'[a] = op
      /\ \A x \in Actors \ {a} :
            /\ ops'[x].pc = ops[x].pc /\ ops'[x].kind = ops[x].kind /\ ops'[x].arg = ops[x].arg
            /\ ops'[x].cat = ops[x].cat /\ ops'[x].at = ops[x].at
            /\ ops'[x].seen = ops[x].seen
  BY BecomesOthers DEF CatInv
<1>2. /\ rows' \in [Profiles -> [at : Nat, cat : Catalogs]] /\ writes' = writes + 1
      /\ rows'[cat.profile] = [at |-> at, cat |-> cat] /\ cat.profile \in Profiles
      /\ \A p \in Profiles \ {cat.profile} :
            rows'[p] \in {rows[p], NoRow} /\ (backend # "sql" => rows'[p] = NoRow)
            /\ (backend = "sql" => rows'[p] = rows[p])
      /\ \A p \in Profiles : rows'[p].at # 0 => rows'[p].cat.profile = p
      /\ Stored' # {}
  BY ReplaceType DEF CatInv
<1>0. /\ clock \in Nat /\ writes \in Nat /\ \A p \in Profiles : rows[p].at \in Nat
      /\ \A x \in Actors : ops[x].seen \in Nat
  BY DEF CatInv, CatalogInv, CatalogTypeOK
<1>3. CatalogTypeOK'
  <2>1. \A p \in Stored' : rows'[p].cat.profile = p
    BY <1>2 DEF Stored
  <2>2. clock' \in Nat /\ writes' \in Nat
    BY <1>0, <1>2
  <2>3. ops' \in [Actors -> Op]
    BY <1>1
  <2> QED
    BY <1>2, <2>1, <2>2, <2>3 DEF CatInv, CatalogInv, CatalogTypeOK, Op
<1>4. Times'
  <2>1. \A p \in Profiles : rows'[p].at < clock'
    BY <1>0, <1>2 DEF CatInv, CatalogInv, Times, NoRow
  <2>5. \A x \in Actors : ops[x].at \in Nat /\ (ops[x].at < clock => ops[x].at < clock')
    BY <1>0 DEF CatInv, CatalogInv, CatalogTypeOK
  <2>2. clock' >= 2
    BY <1>0 DEF CatInv, CatalogInv, Times
  <2>3. \A x \in Actors : ops'[x].pc \in {"index", "replace"} => ops'[x].at > 0 /\ ops'[x].at < clock'
    BY <1>1, <2>5 DEF CatInv, CatalogInv, Times
  <2> QED
    BY <2>1, <2>2, <2>3 DEF Times
<1>a. \A x \in Actors : ArgFits(ops[x])'
  BY <1>1 DEF CatInv, CatalogInv, ArgFits
<1>5. Loads'
  BY <1>1, <1>2 DEF CatInv, CatalogInv, Loads
<1>6. Fresh'
  <2>1. \A x \in Actors : ops[x].seen <= writes
    BY DEF CatInv, Fresh
  <2>2. op.seen \in Nat
    BY DEF Op
  <2>3. \A x \in Actors : ops'[x].seen \in Nat /\ ops'[x].seen <= writes
    BY <1>0, <1>1, <2>1, <2>2
  <2> QED
    BY <1>0, <1>2, <2>3 DEF Fresh
<1>7. Audited'
  BY <1>1, <1>2 DEF CatInv, Audited
<1> QED
  BY <1>a, <1>3, <1>4, <1>5, <1>6, <1>7 DEF CatInv, CatalogInv

-----------------------------------------------------------------------------
(* The actions.                                                            *)

Types == /\ profileIndex \subseteq Catalogs
         /\ configs \subseteq [id : Nat, bundle : Catalogs, active : BOOLEAN]
         /\ models \in [Profiles -> [1 .. ModelKeys -> Nat]]
         /\ clock \in Nat /\ started \in Nat /\ writes \in Nat
         /\ unaudited \in BOOLEAN /\ interrupted \in BOOLEAN
         /\ ops \in [Actors -> Op]
         /\ rows \in [Profiles -> [at : Nat, cat : Catalogs]]

LEMMA TypesHold == CatInv => Types
BY DEF CatInv, CatalogInv, CatalogTypeOK, Types, Op

LEMMA Registers ==
    ASSUME CatInv, NEW a \in Actors, BeginRegistration(a)
    PROVE  CatInv' /\ NoLoss
<1>0. Types
  BY TypesHold
<1>1. PICK kind \in {"service", "node", "workflow", "binding"}, arg \in Services \cup Workflows :
        /\ Begin(a, kind, FirstRead.pc, arg, FirstRead.cat, 0)
        /\ kind \in {"service", "node"} => arg \in Services
        /\ kind \in {"workflow", "binding"} => arg \in Workflows
  BY DEF BeginRegistration
<1> DEFINE op == [pc |-> FirstRead.pc, kind |-> kind, arg |-> arg, cat |-> FirstRead.cat, at |-> 0,
                  seen |-> writes, key |-> 1, good |-> TRUE, report |-> "none",
                  alone |-> \A x \in Actors : At(x, "idle")]
<1>2. /\ FirstRead.cat \in Catalogs /\ FirstRead.pc \in {"write", "services"}
      /\ FirstRead.pc = "services" => backend = "sqlite" /\ Stored # {}
  BY FirstReadType DEF CatInv
<1>3. op \in Op /\ op.seen = writes /\ op.pc = FirstRead.pc /\ op.cat = FirstRead.cat
      /\ ArgFits(op)
  BY <1>0, <1>2, <1>1, CatalogConstants DEF Op, OpPlaces, OpKinds, NextTable, Types, ArgFits
<1>4. /\ Becomes(a, op) /\ started' = started + 1 /\ clock' = clock
      /\ UNCHANGED <<backend, rows, profileIndex, configs, models, writes, unaudited, interrupted>>
  BY <1>1 DEF Begin, BeginRegistration
<1> HIDE DEF op
<1>5. ASSUME Stored # {}, FirstRead.pc = "write"
      PROVE  Newest \in Stored /\ FirstRead.cat = rows[Newest].cat
  <2>1. backend = "sql" => FirstRead.cat = rows[Newest].cat
    BY <1>5 DEF FirstRead, CurrentCatalog
  <2>2. backend # "sql" => FirstRead.pc = "services"
    BY <1>5 DEF FirstRead
  <2>3. Newest \in Stored
    BY <1>5, NewestStored DEF CatInv
  <2> QED
    BY <1>5, <2>1, <2>2, <2>3
<1>6. FreshCopy(op)
  <2>1. CASE FirstRead.pc = "write"
    BY <1>3, <1>5, <2>1 DEF FreshCopy, CatInv, CatalogInv, CatalogTypeOK
  <2>2. CASE FirstRead.pc = "services"
    <3>1. backend # "sql" /\ Stored # {}
      BY <1>2, <2>2
    <3>2. FirstRead.cat.profile = Newest
      BY <3>1 DEF FirstRead, EmptyCatalog
    <3>3. ReadAt("services") = {}
      BY DEF ReadAt
    <3> QED
      BY <1>3, <2>2, <3>2, <3>3 DEF FreshCopy
  <2> QED
    BY <1>2, <2>1, <2>2
<1>7. backend = "sql" /\ ~unaudited /\ op.pc = "write" => AuditOK(op.cat)
  <2> SUFFICES ASSUME backend = "sql", ~unaudited, FirstRead.pc = "write" PROVE AuditOK(FirstRead.cat)
    BY <1>3
  <2>1. CASE Stored = {}
    BY <2>1 DEF FirstRead, EmptyCatalog, AuditOK
  <2>2. CASE Stored # {}
    BY <1>5, <2>2 DEF CatInv, Audited, Stored
  <2> QED
    BY <2>1, <2>2
<1>8. op.pc \in Loading => backend = "sqlite" /\ Stored # {}
  BY <1>2, <1>3 DEF Loading
<1>9. /\ op.pc \notin {"index", "replace"} /\ op.seen <= writes
      /\ clock' \in {clock, clock + 1} /\ started' \in Nat /\ interrupted' \in BOOLEAN
      /\ profileIndex' \subseteq Catalogs
      /\ configs' \subseteq [id : Nat, bundle : Catalogs, active : BOOLEAN]
      /\ models' \in [Profiles -> [1 .. ModelKeys -> Nat]]
  BY <1>0, <1>2, <1>3, <1>4 DEF Types
<1>10. UNCHANGED <<backend, rows, writes, unaudited>>
  BY <1>4
<1> QED
  BY <1>3, <1>4, <1>6, <1>7, <1>8, <1>9, <1>10, NothingWritten

LEMMA LoadsTable ==
    ASSUME CatInv, NEW a \in Actors, LoadTable(a)
    PROVE  CatInv' /\ NoLoss
<1>0. Types
  BY TypesHold
<1>1. PICK t \in Loading : t = ops[a].pc
  BY DEF LoadTable, NextTable, Loading
<1>2. backend = "sqlite" /\ Stored # {} /\ Newest \in Stored
  BY <1>1, NewestStored DEF CatInv, CatalogInv, Loads
<1>3. PICK table : table = rows[Newest].cat[t]
  OBVIOUS
<1> DEFINE cat == [ops[a].cat EXCEPT ![t] = table]
           op == [ops[a] EXCEPT !.pc = NextTable[t], !.cat = cat]
<1>4. rows[Newest].cat \in Catalogs /\ ops[a].cat \in Catalogs /\ ops[a] \in Op
  BY <1>0, <1>2 DEF Types, Stored, Op
<1>5. /\ cat \in Catalogs /\ cat.profile = ops[a].cat.profile /\ cat[t] = table
      /\ \A f \in Loading \ {t} : cat[f] = ops[a].cat[f]
  BY <1>1, <1>3, <1>4 DEF Catalogs, Loading
<1>6. Becomes(a, op) /\ UNCHANGED <<backend, rows, profileIndex, configs, models, clock, started, writes,
                                    unaudited, interrupted>>
  BY <1>1, <1>3 DEF LoadTable, CurrentCatalog
<1> HIDE DEF cat
<1>7. /\ op \in Op /\ op.pc = NextTable[t] /\ op.cat = cat /\ op.seen = ops[a].seen
      /\ NextTable[t] \in Loading \cup {"write"} /\ op.kind = ops[a].kind /\ op.arg = ops[a].arg
  <2>1. PICK pc : pc = NextTable[t]
    OBVIOUS
  <2>2. pc \in Loading \cup {"write"}
    BY <1>1, <2>1 DEF NextTable, Loading
  <2>3. Loading \cup {"write"} \subseteq OpPlaces
    BY DEF OpPlaces, NextTable, Loading
  <2>4. op = [ops[a] EXCEPT !.pc = pc, !.cat = cat]
    BY <2>1
  <2> HIDE DEF op
  <2> QED
    BY <1>4, <1>5, <2>1, <2>2, <2>3, <2>4 DEF Op
<1> HIDE DEF op
<1>8. ReadAt(NextTable[t]) \subseteq ReadAt(t) \cup {t} /\ ReadAt(NextTable[t]) \subseteq Loading
  BY <1>1 DEF ReadAt, NextTable, Loading
<1>9. op.seen = writes => FreshCopy(op)
  <2> SUFFICES ASSUME ops[a].seen = writes PROVE FreshCopy(op)
    BY <1>7
  <2>1. FreshCopy(ops[a])
    BY DEF CatInv, Fresh
  <2>2. ops[a].cat.profile = Newest /\ \A f \in ReadAt(t) : rows[Newest].cat[f] \subseteq ops[a].cat[f]
    BY <1>1, <1>2, <2>1 DEF FreshCopy
  <2>3. \A f \in ReadAt(NextTable[t]) : rows[Newest].cat[f] \subseteq cat[f]
    BY <1>3, <1>5, <1>8, <2>2
  <2> QED
    BY <1>5, <1>7, <2>2, <2>3 DEF FreshCopy
<1>10. op.seen <= writes
  BY <1>7 DEF CatInv, Fresh
<1>12. ArgFits(op)
  BY <1>7 DEF ArgFits, CatInv, CatalogInv
<1>11. /\ op.pc \notin {"index", "replace"}
       /\ clock' \in {clock, clock + 1} /\ started' \in Nat /\ interrupted' \in BOOLEAN
       /\ profileIndex' \subseteq Catalogs
       /\ configs' \subseteq [id : Nat, bundle : Catalogs, active : BOOLEAN]
       /\ models' \in [Profiles -> [1 .. ModelKeys -> Nat]]
       /\ UNCHANGED <<backend, rows, writes, unaudited>>
  BY <1>0, <1>6, <1>7 DEF Types, Loading
<1> QED
  BY <1>2, <1>6, <1>7, <1>9, <1>10, <1>11, <1>12, NothingWritten

\* What a registration makes of the catalog it loaded.
Grows(cat, larger) ==
    larger \in Catalogs /\ larger.profile = cat.profile /\ \A f \in Loading : cat[f] \subseteq larger[f]

LEMMA Adds ==
    ASSUME NEW cat \in Catalogs
    PROVE  /\ \A s \in Services : Grows(cat, AddService(cat, s)) /\ Grows(cat, AddNode(cat, s))
           /\ \A w \in Workflows : Grows(cat, AddWorkflow(cat, w)) /\ Grows(cat, AddBinding(cat, w))
BY DEF Grows, Catalogs, Loading, AddService, AddNode, AddWorkflow, AddBinding

LEMMA WritesBack ==
    ASSUME CatInv, NEW a \in Actors, NEW kind, NEW cat, Grows(ops[a].cat, cat),
           backend = "sql" /\ ~unaudited /\ AuditOK(ops[a].cat) => AuditOK(cat),
           WriteBack(a, kind, cat)
    PROVE  CatInv' /\ NoLoss
<1>0. Types
  BY TypesHold
<1>1. cat \in Catalogs /\ cat.profile = ops[a].cat.profile /\ \A f \in Loading : ops[a].cat[f] \subseteq cat[f]
  BY DEF Grows
<1>2. /\ ops[a].pc = "write" /\ Replace(cat, clock) /\ clock' = clock + 1 /\ Becomes(a, Idle)
      /\ UNCHANGED <<backend, profileIndex, configs, models, started, unaudited, interrupted>>
  BY DEF WriteBack, At, Ends
<1>3. clock \in Nat /\ clock > 0 /\ clock < clock'
  BY <1>0, <1>2 DEF CatInv, CatalogInv, Times, Types
<1>4. /\ Idle \in Op /\ ArgFits(Idle) /\ Idle.pc \notin Loading \cup {"write", "index", "replace"} /\ Idle.seen <= writes
  BY <1>0, IdleType DEF Loading, Types
<1>5. backend = "sql" /\ ~unaudited' => AuditOK(cat)
  BY <1>2 DEF CatInv, Audited
<1>6. CatInv'
  <2>1. started' \in Nat /\ unaudited' \in BOOLEAN /\ (unaudited => unaudited')
    BY <1>0, <1>2 DEF Types
  <2> QED
    BY <1>1, <1>2, <1>3, <1>4, <1>5, <2>1, CatalogWritten
<1>7. NoLoss
  <2> SUFFICES ASSUME NEW x \in Actors, NEW p \in Profiles, ops[x].pc = "write", ops'[x].pc = "idle",
                      p \in Stored, rows'[p].at # 0, writes = ops[x].seen,
                      NEW f \in Loading, ~(rows[p].cat[f] \subseteq rows'[p].cat[f])
               PROVE  FALSE
    BY DEF NoLoss, Loses, At, Loading
  <2>1. x = a
    BY <1>2, <1>4, BecomesOthers DEF CatInv
  <2>2. FreshCopy(ops[a])
    BY <2>1 DEF CatInv, Fresh
  <2>3. ReadAt("write") = Loading
    BY DEF ReadAt
  <2>4. cat.profile = Newest /\ \A g \in Loading : rows[Newest].cat[g] \subseteq cat[g]
    BY <1>1, <1>2, <2>2, <2>3 DEF FreshCopy
  <2>5. /\ rows'[cat.profile] = [at |-> clock, cat |-> cat]
        /\ \A q \in Profiles \ {cat.profile} : rows'[q] = rows[q] \/ rows'[q] = NoRow
    BY <1>1, <1>2, <1>3, ReplaceType DEF CatInv
  <2>6. CASE p = Newest
    BY <2>4, <2>5, <2>6
  <2>7. CASE p # Newest
    <3>1. rows'[p] = NoRow
      BY <2>4, <2>5, <2>7
    <3> QED
      BY <3>1 DEF NoRow
  <2> QED
    BY <2>6, <2>7
<1> QED
  BY <1>6, <1>7

\* A command ends and has written no catalog with this step.
LEMMA CommandEnds ==
    ASSUME CatInv, NEW a \in Actors, Ends(a), interrupted' \in BOOLEAN,
           models' \in [Profiles -> [1 .. ModelKeys -> Nat]],
           UNCHANGED <<backend, rows, profileIndex, configs, clock, started, writes, unaudited>>
    PROVE  CatInv' /\ NoLoss
<1>0. Types
  BY TypesHold
<1>1. Becomes(a, Idle)
  BY DEF Ends
<1>2. /\ Idle \in Op /\ ArgFits(Idle) /\ Idle.pc \notin Loading \cup {"write", "index", "replace"}
      /\ Idle.seen <= writes
  BY <1>0, IdleType DEF Loading, Types
<1>3. FreshCopy(Idle)
  BY <1>2 DEF FreshCopy
<1>4. /\ clock' \in {clock, clock + 1} /\ started' \in Nat /\ profileIndex' \subseteq Catalogs
      /\ configs' \subseteq [id : Nat, bundle : Catalogs, active : BOOLEAN]
  BY <1>0 DEF Types
<1> QED
  BY <1>1, <1>2, <1>3, <1>4, NothingWritten

LEMMA Registrations ==
    ASSUME CatInv, NEW a \in Actors, Register(a)
    PROVE  CatInv' /\ NoLoss
<1>0. Types
  BY TypesHold
<1>1. ops[a] \in Op
  BY <1>0 DEF Types
<1>2. ops[a].cat \in Catalogs
  BY <1>1 DEF Op
<1>3. ArgFits(ops[a])
  BY DEF CatInv, CatalogInv
<1>4. PICK arg : arg = ops[a].arg
  OBVIOUS
<1>5. CASE RegisterSandboxService(a)
  <2>1. WriteBack(a, "service", AddService(ops[a].cat, arg)) /\ arg \in Services
    BY <1>3, <1>4, <1>5 DEF RegisterSandboxService, WriteBack, ArgFits
  <2>2. AuditOK(ops[a].cat) => AuditOK(AddService(ops[a].cat, arg))
    BY <1>2 DEF AuditOK, AddService, Catalogs
  <2> QED
    BY <1>2, <2>1, <2>2, Adds, WritesBack
<1>6. CASE RegisterSandboxInterface(a)
  <2>1. WriteBack(a, "node", AddNode(ops[a].cat, arg)) /\ arg \in Services
    BY <1>3, <1>4, <1>6 DEF RegisterSandboxInterface, WriteBack, ArgFits
  <2>2. AuditOK(ops[a].cat) => AuditOK(AddNode(ops[a].cat, arg))
    BY <1>2 DEF AuditOK, AddNode, Catalogs
  <2> QED
    BY <1>2, <2>1, <2>2, Adds, WritesBack
<1>7. CASE WorkflowUpsert(a)
  <2>1. WriteBack(a, "workflow", AddWorkflow(ops[a].cat, arg)) /\ arg \in Workflows
    BY <1>3, <1>4, <1>7 DEF WorkflowUpsert, WriteBack, ArgFits
  <2>2. AuditOK(ops[a].cat) => AuditOK(AddWorkflow(ops[a].cat, arg))
    BY <1>2 DEF AuditOK, AddWorkflow, Catalogs
  <2> QED
    BY <1>2, <2>1, <2>2, Adds, WritesBack
<1>8. CASE BindingUpsert(a)
  <2>1. /\ WriteBack(a, "binding", AddBinding(ops[a].cat, arg)) /\ arg \in Workflows
        /\ arg \in ops[a].cat.workflows
    BY <1>3, <1>4, <1>8 DEF BindingUpsert, WriteBack, ArgFits
  <2>2. AuditOK(ops[a].cat) => AuditOK(AddBinding(ops[a].cat, arg))
    BY <1>2, <2>1 DEF AuditOK, AddBinding, Catalogs
  <2> QED
    BY <1>2, <2>1, <2>2, Adds, WritesBack
<1>9. CASE Reject(a)
  BY <1>0, <1>9, CommandEnds DEF Reject, Types
<1> QED
  BY <1>5, <1>6, <1>7, <1>8, <1>9 DEF Register

\* Steps of publications and verifications that write no catalog; what they put in the
\* other tables is theirs.
LEMMA Moves ==
    ASSUME CatInv, NEW a \in Actors, NEW op, Becomes(a, op), op \in Op,
           op.seen = ops[a].seen, op.kind = ops[a].kind, op.arg = ops[a].arg, op.at = ops[a].at,
           op.pc \notin Loading \cup {"write"},
           op.pc \in {"index", "replace"} => ops[a].pc \in {"index", "replace"},
           UNCHANGED <<backend, rows, writes, unaudited, clock, started, interrupted>>,
           profileIndex' \subseteq Catalogs,
           configs' \subseteq [id : Nat, bundle : Catalogs, active : BOOLEAN],
           models' \in [Profiles -> [1 .. ModelKeys -> Nat]]
    PROVE  CatInv' /\ NoLoss
<1>0. Types
  BY TypesHold
<1>1. ArgFits(op)
  BY DEF CatInv, CatalogInv, ArgFits
<1>2. op.seen <= writes /\ FreshCopy(op)
  BY DEF CatInv, Fresh, FreshCopy
<1>3. op.pc \in {"index", "replace"} => op.at > 0 /\ op.at < clock'
  BY DEF CatInv, CatalogInv, Times
<1>4. clock' \in {clock, clock + 1} /\ started' \in Nat /\ interrupted' \in BOOLEAN
  BY <1>0 DEF Types
<1> QED
  BY <1>1, <1>2, <1>3, <1>4, NothingWritten

\* Only a command that writes back what it loaded can lose something it should keep.
LEMMA OthersLoseNothing ==
    ASSUME CatInv, NEW a \in Actors, NEW op \in Op, Becomes(a, op), ops[a].pc # "write"
    PROVE  NoLoss
BY BecomesOthers DEF CatInv, NoLoss, At

LEMMA BeginsBundle ==
    ASSUME CatInv, NEW a \in Actors, NEW kind \in {"publish", "verify", "copy"},
           NEW pc \in {"index", "replace"}, NEW cat \in Catalogs, NEW at \in Nat,
           Begin(a, kind, pc, "none", cat, at), clock' \in {clock, clock + 1},
           at > 0, at < clock'
    PROVE  CatInv' /\ NoLoss
<1>0. Types
  BY TypesHold
<1> DEFINE op == [pc |-> pc, kind |-> kind, arg |-> "none", cat |-> cat, at |-> at,
                  seen |-> writes, key |-> 1, good |-> TRUE, report |-> "none",
                  alone |-> \A x \in Actors : At(x, "idle")]
<1>1. op \in Op /\ op.pc = pc /\ op.at = at /\ op.seen = writes /\ ArgFits(op)
  BY <1>0, CatalogConstants DEF Op, OpPlaces, OpKinds, Types, ArgFits
<1>2. /\ Becomes(a, op) /\ started' = started + 1
      /\ UNCHANGED <<backend, rows, profileIndex, configs, models, writes, unaudited, interrupted>>
  BY DEF Begin
<1> HIDE DEF op
<1>3. op.pc \notin Loading \cup {"write"} /\ FreshCopy(op)
  BY <1>1 DEF Loading, FreshCopy
<1>4. /\ started' \in Nat /\ interrupted' \in BOOLEAN /\ profileIndex' \subseteq Catalogs
      /\ configs' \subseteq [id : Nat, bundle : Catalogs, active : BOOLEAN]
      /\ models' \in [Profiles -> [1 .. ModelKeys -> Nat]] /\ op.seen <= writes
  BY <1>0, <1>1, <1>2 DEF Types
<1>5. UNCHANGED <<backend, rows, writes, unaudited>>
  BY <1>2
<1> QED
  BY <1>1, <1>2, <1>3, <1>4, <1>5, NothingWritten

LEMMA Begins ==
    ASSUME CatInv, NEW a \in Actors, BeginPublish(a) \/ BeginCopy(a)
    PROVE  CatInv' /\ NoLoss
<1>0. clock \in Nat /\ clock >= 2
  BY TypesHold DEF Types, CatInv, CatalogInv, Times
<1>1. CASE BeginPublish(a)
  <2>1. PICK b \in Bundles, kind \in {"publish", "verify"} : Begin(a, kind, "index", "none", b, clock)
    BY <1>1 DEF BeginPublish
  <2>2. b \in Catalogs /\ clock' = clock + 1
    BY <1>1, CatalogConstants DEF BeginPublish
  <2> QED
    BY <1>0, <2>1, <2>2, BeginsBundle
<1>2. CASE BeginCopy(a)
  <2>1. Begin(a, "copy", "replace", "none", SourceCatalog, 1) /\ clock' = clock
    BY <1>2 DEF BeginCopy, CopiedAt
  <2> QED
    BY <1>0, <2>1, CatalogConstants, BeginsBundle
<1> QED
  BY <1>1, <1>2

LEMMA Reports ==
    ASSUME CatInv, NEW a \in Actors, ReportBundle(a)
    PROVE  CatInv' /\ NoLoss
<1>0. Types
  BY TypesHold
<1>1. PICK b \in Bundles : ReplaceByBundle(b, clock)
  BY DEF ReportBundle
<1>2. /\ b \in Catalogs /\ Replace(b, clock) /\ unaudited' = (unaudited \/ ~AuditOK(b))
      /\ Becomes(a, Idle) /\ clock' = clock + 1 /\ started' = started + 1 /\ ops[a].pc = "idle"
      /\ UNCHANGED <<backend, profileIndex, configs, models, interrupted>>
  BY <1>1, CatalogConstants DEF ReportBundle, ReplaceByBundle, Ends, At
<1>3. clock > 0 /\ clock < clock' /\ clock \in Nat /\ started' \in Nat
  BY <1>0, <1>2 DEF Types, CatInv, CatalogInv, Times
<1>4. /\ Idle \in Op /\ ArgFits(Idle) /\ Idle.pc \notin Loading \cup {"write", "index", "replace"}
      /\ Idle.seen <= writes
  BY <1>0, IdleType DEF Loading, Types
<1>5. unaudited' \in BOOLEAN /\ (unaudited => unaudited') /\ (~unaudited' => AuditOK(b))
  BY <1>2
<1> QED
  BY <1>2, <1>3, <1>4, <1>5, CatalogWritten, OthersLoseNothing

LEMMA PublishesCatalog ==
    ASSUME CatInv, NEW a \in Actors, PublishCatalog(a)
    PROVE  CatInv' /\ NoLoss
<1>0. Types
  BY TypesHold
<1>1. PICK pc : pc = (IF ops[a].kind = "copy" THEN "index" ELSE "reset")
  OBVIOUS
<1> DEFINE op == [ops[a] EXCEPT !.pc = pc]
<1>2. ops[a] \in Op /\ pc \in {"index", "reset"} /\ pc \in OpPlaces
  BY <1>0, <1>1 DEF Types, OpPlaces
<1>3. /\ op \in Op /\ op.pc = pc /\ op.at = ops[a].at /\ op.seen = ops[a].seen
      /\ op.kind = ops[a].kind /\ op.arg = ops[a].arg
  BY <1>2 DEF Op
<1>4. /\ ops[a].pc = "replace" /\ ReplaceByBundle(ops[a].cat, ops[a].at) /\ Becomes(a, op)
      /\ UNCHANGED <<backend, profileIndex, configs, models, clock, started, interrupted>>
  BY <1>1 DEF PublishCatalog, Goes, At
<1> HIDE DEF op
<1>5. /\ ops[a].cat \in Catalogs /\ ops[a].at \in Nat /\ ops[a].at > 0 /\ ops[a].at < clock'
      /\ op.at > 0 /\ op.at < clock' /\ op.seen <= writes /\ ArgFits(op)
  BY <1>2, <1>3, <1>4 DEF Op, CatInv, CatalogInv, Times, ArgFits, Fresh
<1>6. Replace(ops[a].cat, ops[a].at) /\ unaudited' = (unaudited \/ ~AuditOK(ops[a].cat))
  BY <1>4 DEF ReplaceByBundle
<1>7. /\ unaudited' \in BOOLEAN /\ (unaudited => unaudited')
      /\ (~unaudited' => AuditOK(ops[a].cat))
  BY <1>6
<1>8. clock' \in {clock, clock + 1} /\ started' \in Nat /\ op.pc \notin Loading \cup {"write"}
  BY <1>0, <1>2, <1>3, <1>4 DEF Types, Loading
<1> QED
  BY <1>3, <1>4, <1>5, <1>6, <1>7, <1>8, CatalogWritten, OthersLoseNothing

LEMMA Publications ==
    ASSUME CatInv, NEW a \in Actors,
           PublishIndex(a) \/ ResetActive(a) \/ ActivateVersion(a)
    PROVE  CatInv' /\ NoLoss
<1>0. Types
  BY TypesHold
<1>1. ops[a] \in Op /\ ops[a].cat \in Catalogs /\ ops[a].at \in Nat
  BY <1>0 DEF Types, Op
<1>2. PICK pc \in {"reset", "replace", "activate", "models"} :
        Goes(a, pc) /\ (pc = "replace" => ops[a].pc = "index")
  BY DEF PublishIndex, ResetActive, ActivateVersion, At
<1> DEFINE op == [ops[a] EXCEPT !.pc = pc]
<1>3. /\ op \in Op /\ op.pc = pc /\ op.at = ops[a].at /\ op.seen = ops[a].seen
      /\ op.kind = ops[a].kind /\ op.arg = ops[a].arg
  <2>1. pc \in OpPlaces
    BY DEF OpPlaces
  <2> QED
    BY <1>1, <2>1 DEF Op
<1>4. Becomes(a, op)
  BY <1>2 DEF Goes
<1> HIDE DEF op
<1>5. profileIndex' \subseteq Catalogs
  BY <1>0, <1>1 DEF PublishIndex, ResetActive, ActivateVersion, Types
<1>6. configs' \subseteq [id : Nat, bundle : Catalogs, active : BOOLEAN]
  <2>1. configs \subseteq [id : Nat, bundle : Catalogs, active : BOOLEAN]
    BY <1>0 DEF Types
  <2>2. CASE ResetActive(a)
    BY <2>1, <2>2 DEF ResetActive
  <2>3. CASE ActivateVersion(a)
    <3>1. [id |-> ops[a].at, bundle |-> ops[a].cat, active |-> TRUE]
            \in [id : Nat, bundle : Catalogs, active : BOOLEAN]
      BY <1>1
    <3> QED
      BY <2>1, <2>3, <3>1 DEF ActivateVersion
  <2>4. CASE PublishIndex(a)
    BY <2>1, <2>4 DEF PublishIndex
  <2> QED
    BY <2>2, <2>3, <2>4
<1>7. /\ models' \in [Profiles -> [1 .. ModelKeys -> Nat]]
      /\ UNCHANGED <<backend, rows, writes, unaudited, clock, started, interrupted>>
  BY <1>0 DEF PublishIndex, ResetActive, ActivateVersion, Types
<1>8. op.pc \notin Loading \cup {"write"} /\ (op.pc \in {"index", "replace"} => ops[a].pc \in {"index", "replace"})
  BY <1>2, <1>3 DEF Loading
<1> QED
  BY <1>3, <1>4, <1>5, <1>6, <1>7, <1>8, Moves

LEMMA ReadModels ==
    ASSUME CatInv, NEW a \in Actors, UpsertReadModel(a)
    PROVE  CatInv' /\ NoLoss
<1>0. Types
  BY TypesHold
<1>1. /\ ops[a] \in Op /\ ops[a].cat.profile \in Profiles /\ ops[a].at \in Nat
      /\ ops[a].key \in 1 .. ModelKeys /\ ModelKeys \in Nat \ {0}
  BY <1>0, CatalogConstants DEF Types, Op, Catalogs
<1>2. PICK k : k = ops[a].key
  OBVIOUS
<1>3. /\ UNCHANGED <<backend, rows, profileIndex, configs, clock, started, writes, unaudited, interrupted>>
      /\ models' = [models EXCEPT ![ops[a].cat.profile][k] = ops[a].at] /\ ops[a].pc = "models"
  BY <1>2 DEF UpsertReadModel, At
<1>4. models' \in [Profiles -> [1 .. ModelKeys -> Nat]]
  BY <1>0, <1>1, <1>2, <1>3 DEF Types
<1>5. interrupted' \in BOOLEAN /\ profileIndex' \subseteq Catalogs
      /\ configs' \subseteq [id : Nat, bundle : Catalogs, active : BOOLEAN]
  BY <1>0, <1>3 DEF Types
<1>6. CASE k < ModelKeys
  <2> DEFINE op == [ops[a] EXCEPT !.key = k + 1]
  <2>1. Becomes(a, op)
    BY <1>2, <1>6 DEF UpsertReadModel
  <2>2. k + 1 \in 1 .. ModelKeys
    BY <1>1, <1>2, <1>6
  <2>3. /\ op \in Op /\ op.pc = ops[a].pc /\ op.at = ops[a].at /\ op.seen = ops[a].seen
        /\ op.kind = ops[a].kind /\ op.arg = ops[a].arg
    BY <1>1, <2>2 DEF Op
  <2> HIDE DEF op
  <2>4. op.pc \notin Loading \cup {"write", "index", "replace"}
    BY <1>3, <2>3 DEF Loading
  <2> QED
    BY <1>3, <1>4, <1>5, <2>1, <2>3, <2>4, Moves
<1>7. CASE ~(k < ModelKeys) /\ ops[a].kind = "verify"
  <2> DEFINE op == [ops[a] EXCEPT !.pc = "checkIndex", !.key = 1]
  <2>1. Becomes(a, op)
    BY <1>2, <1>7 DEF UpsertReadModel
  <2>2. 1 \in 1 .. ModelKeys /\ "checkIndex" \in OpPlaces
    BY <1>1 DEF OpPlaces
  <2>3. /\ op \in Op /\ op.pc = "checkIndex" /\ op.at = ops[a].at /\ op.seen = ops[a].seen
        /\ op.kind = ops[a].kind /\ op.arg = ops[a].arg
    BY <1>1, <2>2 DEF Op
  <2> HIDE DEF op
  <2>4. op.pc \notin Loading \cup {"write", "index", "replace"}
    BY <2>3 DEF Loading
  <2> QED
    BY <1>3, <1>4, <1>5, <2>1, <2>3, <2>4, Moves
<1>8. CASE ~(k < ModelKeys) /\ ops[a].kind # "verify"
  <2>1. Ends(a)
    BY <1>2, <1>8 DEF UpsertReadModel, Ends
  <2> QED
    BY <1>3, <1>4, <1>5, <2>1, CommandEnds
<1> QED
  BY <1>6, <1>7, <1>8

\* A check reads, and goes on with its result.
LEMMA Checked ==
    ASSUME CatInv, NEW a \in Actors, NEW good \in BOOLEAN, NEW key \in 1 .. ModelKeys,
           NEW pc \in {"checkCatalog", "checkConfig", "checkModels", "report"},
           Becomes(a, [ops[a] EXCEPT !.pc = pc, !.good = good, !.key = key]),
           UNCHANGED <<backend, rows, profileIndex, configs, models, clock, started, writes,
                       unaudited, interrupted>>
    PROVE  CatInv' /\ NoLoss
<1>0. Types
  BY TypesHold
<1> DEFINE op == [ops[a] EXCEPT !.pc = pc, !.good = good, !.key = key]
<1>1. ops[a] \in Op /\ pc \in OpPlaces
  BY <1>0 DEF Types, OpPlaces
<1>2. /\ op \in Op /\ op.pc = pc /\ op.at = ops[a].at /\ op.seen = ops[a].seen
      /\ op.kind = ops[a].kind /\ op.arg = ops[a].arg
  BY <1>1 DEF Op
<1>3. Becomes(a, op)
  OBVIOUS
<1> HIDE DEF op
<1>4. op.pc \notin Loading \cup {"write", "index", "replace"}
  BY <1>2 DEF Loading
<1>5. /\ profileIndex' \subseteq Catalogs
      /\ configs' \subseteq [id : Nat, bundle : Catalogs, active : BOOLEAN]
      /\ models' \in [Profiles -> [1 .. ModelKeys -> Nat]]
  BY <1>0 DEF Types
<1> QED
  BY <1>2, <1>3, <1>4, <1>5, Moves

LEMMA SameKey ==
    ASSUME CatInv, NEW a \in Actors, NEW pc, NEW good
    PROVE  [ops[a] EXCEPT !.pc = pc, !.good = good]
              = [ops[a] EXCEPT !.pc = pc, !.good = good, !.key = ops[a].key]
<1>1. ops[a] \in Op
  BY TypesHold DEF Types
<1> QED
  BY <1>1 DEF Op

LEMMA Checking ==
    ASSUME CatInv, NEW a \in Actors, NEW from, NEW ok \in BOOLEAN,
           NEW pc \in {"checkCatalog", "checkConfig", "checkModels", "report"}, Checks(a, from, ok, pc)
    PROVE  CatInv' /\ NoLoss
<1>1. ops[a].key \in 1 .. ModelKeys /\ ops[a].good \in BOOLEAN
  BY TypesHold DEF Types, Op
<1>2. PICK good \in BOOLEAN : good = (ops[a].good /\ ok)
  OBVIOUS
<1>3. Becomes(a, [ops[a] EXCEPT !.pc = pc, !.good = good])
  BY <1>2 DEF Checks
<1>4. Becomes(a, [ops[a] EXCEPT !.pc = pc, !.good = good, !.key = ops[a].key])
  BY <1>3, SameKey
<1>5. UNCHANGED <<backend, rows, profileIndex, configs, models, clock, started, writes,
                  unaudited, interrupted>>
  BY DEF Checks
<1> QED
  BY <1>1, <1>4, <1>5, Checked

LEMMA ReadsModel ==
    ASSUME CatInv, NEW a \in Actors, CheckModels(a)
    PROVE  CatInv' /\ NoLoss
<1>1. /\ ops[a].key \in 1 .. ModelKeys /\ ops[a].good \in BOOLEAN /\ ModelKeys \in Nat \ {0}
  BY TypesHold, CatalogConstants DEF Types, Op
<1>2. PICK ok \in BOOLEAN : ok = (models[ops[a].cat.profile][ops[a].key] = ops[a].at)
  OBVIOUS
<1>3. PICK good \in BOOLEAN : good = (ops[a].good /\ ok)
  OBVIOUS
<1>4. PICK key : key = (IF ops[a].key < ModelKeys THEN ops[a].key + 1 ELSE ops[a].key)
  OBVIOUS
<1>5. PICK pc \in {"checkModels", "report"} :
        pc = (IF ops[a].key < ModelKeys THEN "checkModels" ELSE "report")
  OBVIOUS
<1>6. Becomes(a, [ops[a] EXCEPT !.good = good, !.key = key, !.pc = pc])
  BY <1>2, <1>3, <1>4, <1>5 DEF CheckModels
<1>7. [ops[a] EXCEPT !.good = good, !.key = key, !.pc = pc]
         = [ops[a] EXCEPT !.pc = pc, !.good = good, !.key = key]
  <2>1. ops[a] \in Op
    BY TypesHold DEF Types
  <2> QED
    BY <2>1 DEF Op
<1>8. key \in 1 .. ModelKeys
  BY <1>1, <1>4
<1>9. UNCHANGED <<backend, rows, profileIndex, configs, models, clock, started, writes,
                  unaudited, interrupted>>
  BY DEF CheckModels
<1> QED
  BY <1>6, <1>7, <1>8, <1>9, Checked

LEMMA ReportsChecks ==
    ASSUME CatInv, NEW a \in Actors, Report(a)
    PROVE  CatInv' /\ NoLoss
<1>0. Types
  BY TypesHold
<1>1. PICK report \in {"ok", "failed"} : report = (IF ops[a].good THEN "ok" ELSE "failed")
  OBVIOUS
<1> DEFINE op == [ops[a] EXCEPT !.pc = "end", !.report = report]
<1>2. ops[a] \in Op /\ "end" \in OpPlaces
  BY <1>0 DEF Types, OpPlaces
<1>3. /\ op \in Op /\ op.pc = "end" /\ op.at = ops[a].at /\ op.seen = ops[a].seen
      /\ op.kind = ops[a].kind /\ op.arg = ops[a].arg
  BY <1>2 DEF Op
<1>4. /\ Becomes(a, op)
      /\ UNCHANGED <<backend, rows, profileIndex, configs, models, clock, started, writes,
                     unaudited, interrupted>>
  BY <1>1 DEF Report
<1> HIDE DEF op
<1>5. op.pc \notin Loading \cup {"write", "index", "replace"}
  BY <1>3 DEF Loading
<1>6. /\ profileIndex' \subseteq Catalogs
      /\ configs' \subseteq [id : Nat, bundle : Catalogs, active : BOOLEAN]
      /\ models' \in [Profiles -> [1 .. ModelKeys -> Nat]]
  BY <1>0, <1>4 DEF Types
<1> QED
  BY <1>3, <1>4, <1>5, <1>6, Moves

LEMMA Verifications ==
    ASSUME CatInv, NEW a \in Actors, Verify(a)
    PROVE  CatInv' /\ NoLoss
<1>1. CASE CheckIndex(a)
  <2>1. PICK ok \in BOOLEAN : ok <=> ops[a].cat \in profileIndex
    OBVIOUS
  <2>2. PICK pc \in {"checkCatalog", "report"} :
          pc = IF \E b \in profileIndex : b.profile = ops[a].cat.profile
               THEN "checkCatalog" ELSE "report"
    OBVIOUS
  <2>3. Checks(a, "checkIndex", ok, pc)
    BY <1>1, <2>1, <2>2 DEF CheckIndex
  <2> QED
    BY <2>3, Checking
<1>2. CASE CheckCatalog(a)
  <2>1. PICK ok \in BOOLEAN : Checks(a, "checkCatalog", ok, "checkConfig")
    BY <1>2 DEF CheckCatalog
  <2> QED
    BY <2>1, Checking
<1>3. CASE CheckConfig(a)
  <2>1. PICK ok \in BOOLEAN : Checks(a, "checkConfig", ok, "checkModels")
    BY <1>3 DEF CheckConfig
  <2> QED
    BY <2>1, Checking
<1> QED
  BY <1>1, <1>2, <1>3, ReadsModel, ReportsChecks DEF Verify

LEMMA Ending ==
    ASSUME CatInv, NEW a \in Actors, Finish(a) \/ Fail(a)
    PROVE  CatInv' /\ NoLoss
<1>1. Types
  BY TypesHold
<1>2. CASE Finish(a)
  BY <1>1, <1>2, CommandEnds DEF Finish, Types
<1>3. CASE Fail(a)
  <2>1. interrupted' \in BOOLEAN
    BY <1>1, <1>3 DEF Fail, Types
  <2> QED
    BY <1>1, <1>3, <2>1, CommandEnds DEF Fail, Types
<1> QED
  BY <1>2, <1>3

-----------------------------------------------------------------------------
(* The induction.                                                          *)

LEMMA CatInit == CatalogInit => CatInv
<1> SUFFICES ASSUME CatalogInit PROVE CatInv
  OBVIOUS
<1>1. /\ ops \in [Actors -> Op] /\ \A a \in Actors : ops[a] = Idle
  BY IdleType DEF CatalogInit
<1>2. /\ rows \in [Profiles -> [at : Nat, cat : Catalogs]] /\ Stored = {}
      /\ \A p \in Profiles : rows[p] = NoRow /\ rows[p].at = 0
      /\ AuditOK(NoRow.cat)
  BY EmptyIsCatalog, CatalogConstants DEF CatalogInit, Stored, NoRow, AuditOK, EmptyCatalog
<1>3. CatalogTypeOK
  <2>1. models \in [Profiles -> [1 .. ModelKeys -> Nat]]
    BY DEF CatalogInit, NoModel
  <2> QED
    BY <1>1, <1>2, <2>1 DEF CatalogInit, CatalogTypeOK, Op
<1>4. CatalogInv
  BY <1>1, <1>2, <1>3, IdleType DEF CatalogInit, CatalogInv, Times, Loads, Loading
<1>5. Fresh
  BY <1>1, <1>2, IdleType DEF CatalogInit, Fresh, FreshCopy
<1>6. Audited
  BY <1>1, <1>2, IdleType DEF Audited
<1> QED
  BY <1>4, <1>5, <1>6 DEF CatInv

LEMMA CatStep == CatInv /\ [CatalogNext]_catalogVars => CatInv' /\ NoLoss
<1> SUFFICES ASSUME CatInv, [CatalogNext]_catalogVars PROVE CatInv' /\ NoLoss
  OBVIOUS
<1>1. ASSUME NEW a \in Actors,
             \/ BeginRegistration(a) \/ BeginPublish(a) \/ BeginCopy(a) \/ ReportBundle(a)
             \/ LoadTable(a) \/ Register(a) \/ Publish(a) \/ Verify(a) \/ Finish(a) \/ Fail(a)
      PROVE  CatInv' /\ NoLoss
  <2>1. CASE BeginRegistration(a)
    BY <2>1, Registers
  <2>2. CASE BeginPublish(a) \/ BeginCopy(a)
    BY <2>2, Begins
  <2>3. CASE ReportBundle(a)
    BY <2>3, Reports
  <2>4. CASE LoadTable(a)
    BY <2>4, LoadsTable
  <2>5. CASE Register(a)
    BY <2>5, Registrations
  <2>6. CASE Publish(a)
    BY <2>6, Publications, PublishesCatalog, ReadModels DEF Publish
  <2>7. CASE Verify(a)
    BY <2>7, Verifications
  <2>8. CASE Finish(a) \/ Fail(a)
    BY <2>8, Ending
  <2> QED
    BY <1>1, <2>1, <2>2, <2>3, <2>4, <2>5, <2>6, <2>7, <2>8
<1>2. CASE UNCHANGED catalogVars
  <2>0. Stored' = Stored /\ Newest' = Newest
    BY <1>2 DEF catalogVars, Stored, Newest
  <2>3. CatalogTypeOK'
    BY <1>2, <2>0 DEF catalogVars, CatInv, CatalogInv, CatalogTypeOK
  <2>4. CatalogInv'
    BY <1>2, <2>0, <2>3 DEF catalogVars, CatInv, CatalogInv, Times, Loads, ArgFits
  <2>5. \A a \in Actors : FreshCopy(ops[a])' <=> FreshCopy(ops[a])
    BY <1>2, <2>0 DEF catalogVars, FreshCopy
  <2>6. Fresh' /\ Audited'
    BY <1>2, <2>5 DEF catalogVars, CatInv, Fresh, Audited
  <2>1. CatInv'
    BY <2>4, <2>6 DEF CatInv
  <2>2. NoLoss
    BY <1>2 DEF catalogVars, NoLoss, Loses
  <2> QED
    BY <2>1, <2>2
<1> QED
  BY <1>1, <1>2 DEF CatalogNext

\* Whatever commands run side by side, stop or fail, what they hold and what is stored
\* keep to what they read.
THEOREM CatalogHolds == CatalogSpec => []CatInv
<1>1. CatInv /\ [CatalogNext]_catalogVars => CatInv'
  BY CatStep
<1> QED
  BY <1>1, CatInit, PTL DEF CatalogSpec

\* Rows, publications and what commands hold keep their types (CatalogTypeOK).
THEOREM CatalogsKeepTypes == CatalogSpec => []CatalogTypeOK
<1>1. CatInv => CatalogTypeOK
  BY DEF CatInv, CatalogInv
<1> QED
  BY <1>1, CatalogHolds, PTL

\* A registration drops an entry only if a catalog was written since it began to load.
THEOREM LossesOverlap == CatalogSpec => LossNeedsOverlap
<1>1. CatInv /\ [CatalogNext]_catalogVars
        => [\A a \in Actors : \A p \in Profiles :
              (At(a, "write") /\ ops'[a].pc = "idle" /\ Loses(p)) => writes # ops[a].seen]_catalogVars
  BY CatStep DEF NoLoss
<1> QED
  BY <1>1, CatalogHolds, PTL DEF CatalogSpec, LossNeedsOverlap

\* On MySQL and PostgreSQL a stored binding has its workflow, unless an unaudited
\* bundle was written.
THEOREM BindingsKeepWorkflows == CatalogSpec => []BindingsHaveWorkflows
<1>1. CatInv => BindingsHaveWorkflows
  BY DEF CatInv, Audited, AuditOK, BindingsHaveWorkflows, Stored
<1> QED
  BY <1>1, CatalogHolds, PTL

-----------------------------------------------------------------------------
(* The active config version.                                              *)

LEMMA PlacesStay ==
    ASSUME CatInv, NEW a \in Actors, NEW op, Becomes(a, op)
    PROVE  ops'[a] = op /\ \A x \in Actors \ {a} : ops'[x].pc = ops[x].pc
<1>1. \A x \in Actors : ops[x] \in Op
  BY TypesHold DEF Types
<1> QED
  BY <1>1 DEF Becomes, Op

LEMMA ActiveStays ==
    ASSUME CatInv, ActiveUnlessInterrupted, NEW a \in Actors, NEW op, Becomes(a, op),
           configs' = configs, interrupted => interrupted',
           ops[a].pc = "activate" => interrupted'
    PROVE  ActiveUnlessInterrupted'
BY PlacesStay DEF ActiveUnlessInterrupted, Active, At

LEMMA ActiveStep ==
    ASSUME CatInv, ActiveUnlessInterrupted, NEW a \in Actors,
           \/ BeginRegistration(a) \/ BeginPublish(a) \/ BeginCopy(a) \/ ReportBundle(a)
           \/ LoadTable(a) \/ Register(a) \/ Publish(a) \/ Verify(a) \/ Finish(a) \/ Fail(a)
    PROVE  ActiveUnlessInterrupted'
<1>1. CASE BeginRegistration(a) \/ BeginPublish(a) \/ BeginCopy(a)
  <2>1. \E op : Becomes(a, op) /\ UNCHANGED <<configs, interrupted>> /\ ops[a].pc = "idle"
    BY <1>1 DEF BeginRegistration, BeginPublish, BeginCopy, Begin, At
  <2> QED
    BY <2>1, ActiveStays
<1>2. CASE ReportBundle(a)
  BY <1>2, ActiveStays DEF ReportBundle, Ends, At
<1>3. CASE LoadTable(a)
  BY <1>3, ActiveStays DEF LoadTable, NextTable
<1>4. CASE Register(a)
  BY <1>4, ActiveStays DEF Register, RegisterSandboxService, RegisterSandboxInterface,
     WorkflowUpsert, BindingUpsert, Reject, WriteBack, Ends, At
<1>5. CASE PublishIndex(a) \/ PublishCatalog(a)
  BY <1>5, ActiveStays DEF PublishIndex, PublishCatalog, Goes, At
<1>6. CASE UpsertReadModel(a)
  BY <1>6, ActiveStays DEF UpsertReadModel, At
<1>7. CASE ResetActive(a)
  <2>1. ops'[a] = [ops[a] EXCEPT !.pc = "activate"] /\ ops[a] \in Op
    BY <1>7, PlacesStay, TypesHold DEF ResetActive, Goes, Types
  <2>2. ops'[a].pc = "activate"
    BY <2>1 DEF Op
  <2> QED
    BY <2>2 DEF ActiveUnlessInterrupted, At
<1>8. CASE ActivateVersion(a)
  <2>1. [id |-> ops[a].at, bundle |-> ops[a].cat, active |-> TRUE] \in configs'
    BY <1>8 DEF ActivateVersion
  <2>2. Active' # {}
    BY <2>1 DEF Active
  <2> QED
    BY <2>2 DEF ActiveUnlessInterrupted
<1>9. CASE Verify(a)
  <2>1. \E op : Becomes(a, op) /\ UNCHANGED <<configs, interrupted>> /\ ops[a].pc # "activate"
    BY <1>9 DEF Verify, CheckIndex, CheckCatalog, CheckConfig, CheckModels, Report, Checks, At
  <2> QED
    BY <2>1, ActiveStays
<1>10. CASE Finish(a)
  BY <1>10, ActiveStays DEF Finish, Ends, At
<1>11. CASE Fail(a)
  BY <1>11, ActiveStays DEF Fail, Ends
<1> QED
  BY <1>1, <1>2, <1>3, <1>4, <1>5, <1>6, <1>7, <1>8, <1>9, <1>10, <1>11 DEF Publish

\* Readers find an active version once one was published, unless an activation is
\* between its statements or was interrupted there.
THEOREM ActiveUnlessStopped == CatalogSpec => []ActiveUnlessInterrupted
<1>1. CatalogInit => ActiveUnlessInterrupted
  BY DEF CatalogInit, ActiveUnlessInterrupted
<1>2. CatInv /\ ActiveUnlessInterrupted /\ [CatalogNext]_catalogVars => ActiveUnlessInterrupted'
  <2>1. CatInv /\ ActiveUnlessInterrupted /\ CatalogNext => ActiveUnlessInterrupted'
    BY ActiveStep DEF CatalogNext
  <2>2. ActiveUnlessInterrupted /\ UNCHANGED catalogVars => ActiveUnlessInterrupted'
    BY DEF ActiveUnlessInterrupted, Active, At, catalogVars
  <2> QED
    BY <2>1, <2>2
<1> QED
  BY <1>1, <1>2, CatalogHolds, PTL DEF CatalogSpec

-----------------------------------------------------------------------------
(* A verification that is alone.                                           *)

Checkings == {"checkIndex", "checkCatalog", "checkConfig", "checkModels", "report", "end"}

Version(op) == [id |-> op.at, bundle |-> op.cat, active |-> TRUE]

\* What a verification has written when it is at a place, if nobody took a step meanwhile.
Proven(op) ==
    /\ op.good = TRUE /\ op.report # "failed" /\ op.at > 0
    /\ op.pc # "index" => op.cat \in profileIndex
    /\ \A p \in Profiles : p # op.cat.profile => rows[p].at < op.at
    /\ op.pc \in {"index", "replace"} => rows[op.cat.profile].at < op.at
    /\ op.pc \notin {"index", "replace"} => rows[op.cat.profile].at = op.at
    /\ op.pc = "activate" => Active = {}
    /\ op.pc \in {"models"} \cup Checkings => Active = {Version(op)}
    /\ op.pc \in {"index", "replace", "reset", "activate", "checkIndex", "checkCatalog", "checkConfig"} => op.key = 1
    /\ op.pc = "models" => \A k \in 1 .. ModelKeys : k < op.key => models[op.cat.profile][k] = op.at
    /\ op.pc \in Checkings => \A k \in 1 .. ModelKeys : models[op.cat.profile][k] = op.at

VerifyPlaces(op) ==
    op.kind = "verify" => op.pc \in {"index", "replace", "reset", "activate", "models"} \cup Checkings

Lone(op) == VerifyPlaces(op) /\ (op.kind = "verify" /\ op.alone => Proven(op))

LoneInv == \A a \in Actors : Lone(ops[a])

\* Only the command that took the step can still be alone.
LEMMA StepOfOne ==
    ASSUME CatInv, LoneInv, NEW a \in Actors, NEW op, Becomes(a, op), Lone(op)'
    PROVE  LoneInv'
<1>1. \A x \in Actors : ops[x] \in Op
  BY TypesHold DEF Types
<1>2. ops'[a] = op /\ \A x \in Actors \ {a} : ops'[x] = [ops[x] EXCEPT !.alone = FALSE]
  BY DEF Becomes
<1>3. ASSUME NEW x \in Actors \ {a} PROVE Lone(ops[x])'
  <2>1. /\ ops'[x].pc = ops[x].pc /\ ops'[x].kind = ops[x].kind /\ ops'[x].alone = FALSE
    BY <1>1, <1>2 DEF Op
  <2> QED
    BY <2>1 DEF LoneInv, Lone, VerifyPlaces
<1>4. Lone(ops[a])'
  BY <1>2 DEF Lone, VerifyPlaces, Proven, Version, Active
<1> QED
  BY <1>3, <1>4 DEF LoneInv

\* A step of a command that is not a verification, or the end of one.
LEMMA NoVerification ==
    ASSUME CatInv, LoneInv, NEW a \in Actors, NEW op, Becomes(a, op), op.kind # "verify"
    PROVE  LoneInv'
<1>1. Lone(op)'
  BY DEF Lone, VerifyPlaces
<1> QED
  BY <1>1, StepOfOne

LEMMA EndsVerification ==
    ASSUME CatInv, LoneInv, NEW a \in Actors, Ends(a)
    PROVE  LoneInv'
BY NoVerification DEF Ends, Idle

LEMMA LoneBegins ==
    ASSUME CatInv, LoneInv, NEW a \in Actors, BeginPublish(a)
    PROVE  LoneInv'
<1>0. /\ clock \in Nat /\ clock >= 2 /\ \A p \in Profiles : rows[p].at < clock
      /\ \A b \in Bundles : b.profile \in Profiles
  BY TypesHold, CatalogConstants DEF Types, CatInv, CatalogInv, Times, Catalogs
<1>1. PICK b \in Bundles, kind \in {"publish", "verify"} : Begin(a, kind, "index", "none", b, clock)
  BY DEF BeginPublish
<1>2. PICK op : /\ Becomes(a, op) /\ op.pc = "index" /\ op.kind = kind /\ op.cat = b /\ op.at = clock
                /\ op.good = TRUE /\ op.report = "none" /\ op.key = 1
  <2> DEFINE t == [pc |-> "index", kind |-> kind, arg |-> "none", cat |-> b, at |-> clock,
                   seen |-> writes, key |-> 1, good |-> TRUE, report |-> "none",
                   alone |-> \A x \in Actors : At(x, "idle")]
  <2>1. Becomes(a, t)
    BY <1>1 DEF Begin
  <2>2. /\ t.pc = "index" /\ t.kind = kind /\ t.cat = b /\ t.at = clock
        /\ t.good = TRUE /\ t.report = "none" /\ t.key = 1
    OBVIOUS
  <2> HIDE DEF t
  <2> QED
    BY <2>1, <2>2
<1>3. rows' = rows
  BY <1>1 DEF Begin
<1>4. Lone(op)'
  BY <1>0, <1>2, <1>3 DEF Lone, VerifyPlaces, Proven, Checkings
<1> QED
  BY <1>2, <1>4, StepOfOne

\* What a step of a publication changes in its command.
LEMMA OpFields ==
    ASSUME CatInv, NEW a \in Actors
    PROVE  /\ ops[a] \in Op /\ ops[a].cat \in Catalogs /\ ops[a].cat.profile \in Profiles
           /\ ops[a].at \in Nat /\ ops[a].key \in 1 .. ModelKeys
BY TypesHold DEF Types, Op, Catalogs

LEMMA LoneMoves ==
    ASSUME CatInv, LoneInv, NEW a \in Actors, NEW op, Becomes(a, op),
           op.kind = ops[a].kind, op.alone = ops[a].alone,
           ops[a].kind = "verify" => op.pc \in {"index", "replace", "reset", "activate", "models"} \cup Checkings,
           ops[a].kind = "verify" /\ Proven(ops[a]) => Proven(op)'
    PROVE  LoneInv'
<1>1. Lone(ops[a])
  BY DEF LoneInv
<1>2. Lone(op)'
  BY <1>1 DEF Lone, VerifyPlaces
<1> QED
  BY <1>2, StepOfOne

LEMMA LoneIndexes ==
    ASSUME CatInv, LoneInv, NEW a \in Actors, PublishIndex(a)
    PROVE  LoneInv'
<1>0. /\ ops[a] \in Op /\ ops[a].cat \in Catalogs /\ ops[a].cat.profile \in Profiles
      /\ ops[a].at \in Nat
  BY OpFields
<1>1. PICK pc : pc = IF ops[a].kind = "copy" THEN "reset" ELSE "replace"
  OBVIOUS
<1>2. PICK op : op = [ops[a] EXCEPT !.pc = pc]
  OBVIOUS
<1>3. /\ op.pc = pc /\ op.kind = ops[a].kind /\ op.cat = ops[a].cat /\ op.at = ops[a].at
      /\ op.key = ops[a].key /\ op.good = ops[a].good /\ op.report = ops[a].report
      /\ op.alone = ops[a].alone
  BY <1>0, <1>2 DEF Op
<1>4. Becomes(a, op) /\ ops[a].pc = "index" /\ rows' = rows /\ ops[a].cat \in profileIndex'
  BY <1>1, <1>2 DEF PublishIndex, Goes, At
<1>5. ASSUME ops[a].kind = "verify", Proven(ops[a]) PROVE Proven(op)' /\ op.pc = "replace"
  <2>1. op.pc = "replace"
    BY <1>1, <1>3, <1>5
  <2> QED
    BY <1>0, <1>3, <1>4, <1>5, <2>1 DEF Proven, Checkings
<1>6. ops[a].kind = "verify" => op.pc = "replace"
  BY <1>1, <1>3
<1> QED
  BY <1>3, <1>4, <1>5, <1>6, LoneMoves

LEMMA LoneReplaces ==
    ASSUME CatInv, LoneInv, NEW a \in Actors, PublishCatalog(a)
    PROVE  LoneInv'
<1>0. /\ ops[a] \in Op /\ ops[a].cat \in Catalogs /\ ops[a].cat.profile \in Profiles
      /\ ops[a].at \in Nat /\ CatalogInv
  BY OpFields DEF CatInv
<1>1. PICK pc : pc = IF ops[a].kind = "copy" THEN "index" ELSE "reset"
  OBVIOUS
<1>2. PICK op : op = [ops[a] EXCEPT !.pc = pc]
  OBVIOUS
<1>3. /\ op.pc = pc /\ op.kind = ops[a].kind /\ op.cat = ops[a].cat /\ op.at = ops[a].at
      /\ op.key = ops[a].key /\ op.good = ops[a].good /\ op.report = ops[a].report
      /\ op.alone = ops[a].alone
  BY <1>0, <1>2 DEF Op
<1>4. Becomes(a, op) /\ ops[a].pc = "replace" /\ profileIndex' = profileIndex
  BY <1>1, <1>2 DEF PublishCatalog, Goes, At
<1>5. Replace(ops[a].cat, ops[a].at) /\ ops[a].at > 0
  BY <1>0, <1>4 DEF PublishCatalog, ReplaceByBundle, CatalogInv, Times
<1>6. /\ rows'[ops[a].cat.profile].at = ops[a].at
      /\ \A p \in Profiles \ {ops[a].cat.profile} : rows'[p] \in {rows[p], NoRow}
  <2>1. PICK cat, at : cat = ops[a].cat /\ at = ops[a].at
    OBVIOUS
  <2>2. cat \in Catalogs /\ at \in Nat /\ at > 0 /\ Replace(cat, at)
    BY <1>0, <1>5, <2>1
  <2>3. rows'[cat.profile] = [at |-> at, cat |-> cat]
    BY <1>0, <2>2, ReplaceType
  <2>4. \A p \in Profiles \ {cat.profile} : rows'[p] \in {rows[p], NoRow}
    BY <1>0, <2>2, ReplaceType
  <2> QED
    BY <2>1, <2>3, <2>4
<1>7. ASSUME ops[a].kind = "verify", Proven(ops[a]) PROVE Proven(op)'
  <2>1. op.pc = "reset"
    BY <1>1, <1>3, <1>7
  <2>2. \A p \in Profiles : p # ops[a].cat.profile => rows'[p].at < ops[a].at
    BY <1>0, <1>5, <1>6, <1>7 DEF Proven, NoRow
  <2> QED
    BY <1>0, <1>3, <1>4, <1>6, <1>7, <2>1, <2>2 DEF Proven, Checkings
<1>8. ops[a].kind = "verify" => op.pc = "reset"
  BY <1>1, <1>3
<1> QED
  BY <1>3, <1>4, <1>7, <1>8, LoneMoves

LEMMA LoneActivates ==
    ASSUME CatInv, LoneInv, NEW a \in Actors, ResetActive(a) \/ ActivateVersion(a)
    PROVE  LoneInv'
<1>0. /\ ops[a] \in Op /\ ops[a].cat \in Catalogs /\ ops[a].at \in Nat /\ ops[a].key \in 1 .. ModelKeys
      /\ configs \subseteq [id : Nat, bundle : Catalogs, active : BOOLEAN]
  BY OpFields, TypesHold DEF Types
<1>1. CASE ResetActive(a)
  <2>1. PICK op : op = [ops[a] EXCEPT !.pc = "activate"]
    OBVIOUS
  <2>2. /\ op.pc = "activate" /\ op.kind = ops[a].kind /\ op.cat = ops[a].cat /\ op.at = ops[a].at
        /\ op.key = ops[a].key
        /\ op.good = ops[a].good /\ op.report = ops[a].report /\ op.alone = ops[a].alone
    BY <1>0, <2>1 DEF Op
  <2>3. /\ Becomes(a, op) /\ ops[a].pc = "reset" /\ rows' = rows /\ profileIndex' = profileIndex
        /\ configs' = {[c EXCEPT !.active = FALSE] : c \in configs}
    BY <1>1, <2>1 DEF ResetActive, Goes, At
  <2>4. \A c \in configs' : c.active = FALSE
    BY <1>0, <2>3
  <2>5. Active' = {}
    BY <2>4 DEF Active
  <2>6. Proven(ops[a]) => Proven(op)'
    BY <2>2, <2>3, <2>5 DEF Proven, Checkings
  <2> QED
    BY <2>2, <2>3, <2>6, LoneMoves
<1>2. CASE ActivateVersion(a)
  <2>1. PICK op : op = [ops[a] EXCEPT !.pc = "models"]
    OBVIOUS
  <2>2. /\ op.pc = "models" /\ op.kind = ops[a].kind /\ op.cat = ops[a].cat /\ op.at = ops[a].at
        /\ op.key = ops[a].key
        /\ op.good = ops[a].good /\ op.report = ops[a].report /\ op.alone = ops[a].alone
    BY <1>0, <2>1 DEF Op
  <2>3. /\ Becomes(a, op) /\ ops[a].pc = "activate" /\ rows' = rows /\ profileIndex' = profileIndex
        /\ configs' = {c \in configs : c.id # ops[a].at} \cup {Version(ops[a])}
    BY <1>2, <2>1 DEF ActivateVersion, Goes, At, Version
  <2>4. Version(op) = Version(ops[a]) /\ Version(op).active = TRUE
    BY <2>2 DEF Version
  <2>5. Active = {} => Active' = {Version(op)}
    BY <2>3, <2>4 DEF Active
  <2>6. ASSUME Proven(ops[a]) PROVE Proven(op)'
    <3>1. ops[a].key = 1
      BY <2>3, <2>6 DEF Proven
    <3>2. \A k \in 1 .. ModelKeys : ~(k < op.key)
      BY <2>2, <3>1
    <3>3. Version(op)' = Version(op)
      BY DEF Version
    <3> QED
      BY <2>2, <2>3, <2>5, <2>6, <3>2, <3>3 DEF Proven, Checkings
  <2> QED
    BY <2>2, <2>3, <2>6, LoneMoves
<1> QED
  BY <1>1, <1>2

LEMMA LoneReadModels ==
    ASSUME CatInv, LoneInv, NEW a \in Actors, UpsertReadModel(a)
    PROVE  LoneInv'
<1>0. /\ ops[a] \in Op /\ ops[a].cat.profile \in Profiles /\ ops[a].at \in Nat
      /\ ops[a].key \in 1 .. ModelKeys /\ ModelKeys \in Nat \ {0}
      /\ models \in [Profiles -> [1 .. ModelKeys -> Nat]]
  BY OpFields, TypesHold, CatalogConstants DEF Types
<1>1. /\ ops[a].pc = "models" /\ rows' = rows /\ profileIndex' = profileIndex /\ configs' = configs
      /\ models' = [models EXCEPT ![ops[a].cat.profile][ops[a].key] = ops[a].at]
  BY DEF UpsertReadModel, At
<1>2. /\ models'[ops[a].cat.profile][ops[a].key] = ops[a].at
      /\ \A k \in 1 .. ModelKeys : k # ops[a].key
            => models'[ops[a].cat.profile][k] = models[ops[a].cat.profile][k]
  BY <1>0, <1>1
<1>3. ASSUME Proven(ops[a])
      PROVE  \A k \in 1 .. ModelKeys : k <= ops[a].key => models'[ops[a].cat.profile][k] = ops[a].at
  BY <1>0, <1>1, <1>2, <1>3 DEF Proven
<1>4. Active' = Active
  BY <1>1 DEF Active
<1>5. CASE ops[a].key < ModelKeys
  <2>1. PICK op : op = [ops[a] EXCEPT !.key = ops[a].key + 1]
    OBVIOUS
  <2>2. /\ op.pc = "models" /\ op.kind = ops[a].kind /\ op.cat = ops[a].cat /\ op.at = ops[a].at
        /\ op.key = ops[a].key + 1
        /\ op.good = ops[a].good /\ op.report = ops[a].report /\ op.alone = ops[a].alone
    BY <1>0, <1>1, <2>1 DEF Op
  <2>3. Becomes(a, op)
    BY <1>5, <2>1 DEF UpsertReadModel
  <2>4. ASSUME Proven(ops[a]) PROVE Proven(op)'
    <3>1. \A k \in 1 .. ModelKeys : k < op.key => models'[op.cat.profile][k] = op.at
      BY <1>0, <1>3, <2>2, <2>4
    <3>2. Version(op)' = Version(ops[a])
      BY <2>2 DEF Version
    <3> QED
      BY <1>1, <1>4, <2>2, <2>4, <3>1, <3>2 DEF Proven, Checkings
  <2> QED
    BY <2>2, <2>3, <2>4, LoneMoves
<1>6. CASE ~(ops[a].key < ModelKeys) /\ ops[a].kind = "verify"
  <2>1. PICK op : op = [ops[a] EXCEPT !.pc = "checkIndex", !.key = 1]
    OBVIOUS
  <2>2. /\ op.pc = "checkIndex" /\ op.kind = ops[a].kind /\ op.cat = ops[a].cat
        /\ op.at = ops[a].at /\ op.key = 1
        /\ op.good = ops[a].good /\ op.report = ops[a].report /\ op.alone = ops[a].alone
    BY <1>0, <1>1, <2>1 DEF Op
  <2>3. Becomes(a, op)
    BY <1>6, <2>1 DEF UpsertReadModel
  <2>4. ASSUME Proven(ops[a]) PROVE Proven(op)'
    <3>1. \A k \in 1 .. ModelKeys : models'[op.cat.profile][k] = op.at
      BY <1>0, <1>3, <1>6, <2>2, <2>4
    <3>2. Version(op)' = Version(ops[a])
      BY <2>2 DEF Version
    <3> QED
      BY <1>1, <1>4, <2>2, <2>4, <3>1, <3>2 DEF Proven, Checkings
  <2>5. op.pc \in Checkings
    BY <2>2 DEF Checkings
  <2> QED
    BY <2>2, <2>3, <2>4, <2>5, LoneMoves
<1>7. CASE ~(ops[a].key < ModelKeys) /\ ops[a].kind # "verify"
  <2>1. Ends(a)
    BY <1>7 DEF UpsertReadModel, Ends
  <2> QED
    BY <2>1, EndsVerification
<1> QED
  BY <1>5, <1>6, <1>7

\* The four checks read what the verification wrote, so that each of them passes.
LEMMA LonePasses ==
    ASSUME CatInv, LoneInv, NEW a \in Actors, NEW op, Becomes(a, op),
           ops[a].pc \in Checkings, op.pc \in Checkings,
           op.pc \in {"checkIndex", "checkCatalog", "checkConfig"} => op.key = ops[a].key,
           ops[a].pc \in {"checkModels", "report", "end"} => op.pc \in {"checkModels", "report", "end"},
           op.kind = ops[a].kind, op.alone = ops[a].alone, op.cat = ops[a].cat, op.at = ops[a].at,
           Proven(ops[a]) => op.good = TRUE /\ op.report # "failed",
           UNCHANGED <<rows, profileIndex, configs, models>>
    PROVE  LoneInv'
<1>1. Active' = Active /\ Version(op)' = Version(ops[a])
  BY DEF Active, Version
<1>2. Proven(ops[a]) => Proven(op)'
  BY <1>1 DEF Proven, Checkings
<1> QED
  BY <1>2, LoneMoves

LEMMA LoneChecks ==
    ASSUME CatInv, LoneInv, NEW a \in Actors, NEW pc \in {"checkIndex", "checkCatalog", "checkConfig"},
           NEW ok \in BOOLEAN, NEW next \in Checkings \ {"checkIndex"}, Checks(a, pc, ok, next),
           ops[a].pc = pc /\ Proven(ops[a]) => ok
    PROVE  LoneInv'
<1>0. ops[a] \in Op
  BY OpFields
<1>1. PICK good \in BOOLEAN : good <=> (ops[a].good /\ ok)
  OBVIOUS
<1>2. PICK op : op = [ops[a] EXCEPT !.pc = next, !.good = ops[a].good /\ ok]
  OBVIOUS
<1>3. /\ op.pc = next /\ op.kind = ops[a].kind /\ op.cat = ops[a].cat /\ op.at = ops[a].at
      /\ op.key = ops[a].key /\ op.report = ops[a].report /\ op.alone = ops[a].alone
      /\ op.good = (ops[a].good /\ ok)
  BY <1>0, <1>2, Zenon DEF Op
<1>4. Becomes(a, op) /\ ops[a].pc = pc /\ UNCHANGED <<rows, profileIndex, configs, models>>
  BY <1>2, Zenon DEF Checks, At
<1>5. Proven(ops[a]) => op.good = TRUE /\ op.report # "failed"
  BY <1>3, <1>4, Zenon DEF Proven
<1>6. ops[a].pc \in Checkings /\ ops[a].pc \notin {"checkModels", "report", "end"}
  BY <1>4 DEF Checkings
<1> QED
  BY <1>3, <1>4, <1>5, <1>6, LonePasses

\* The newest catalog and the active version are the ones the verification wrote.
LEMMA ReadsItsOwn ==
    ASSUME CatInv, NEW a \in Actors, Proven(ops[a])
    PROVE  /\ ops[a].pc = "checkIndex" => ops[a].cat \in profileIndex
           /\ ops[a].pc = "checkCatalog" => Stored # {} /\ Newest = ops[a].cat.profile
           /\ ops[a].pc = "checkConfig" =>
                 Active # {} /\ ActiveVersion.id = ops[a].at /\ ActiveVersion.bundle = ops[a].cat
<1>0. /\ ops[a].cat.profile \in Profiles /\ ops[a].at \in Nat /\ CatalogInv
      /\ rows \in [Profiles -> [at : Nat, cat : Catalogs]]
  BY OpFields, TypesHold DEF Types, CatInv
<1>1. ASSUME ops[a].pc = "checkCatalog" PROVE Stored # {} /\ Newest = ops[a].cat.profile
  <2>1. /\ rows[ops[a].cat.profile].at = ops[a].at /\ ops[a].at > 0
        /\ \A p \in Profiles : p # ops[a].cat.profile => rows[p].at < ops[a].at
    BY <1>1 DEF Proven
  <2>2. ops[a].cat.profile \in Stored
    BY <1>0, <2>1 DEF Stored
  <2>3. Newest \in Profiles /\ rows[ops[a].cat.profile].at <= rows[Newest].at
    BY <1>0, <2>2, NewestStored DEF Stored
  <2>4. rows[Newest].at \in Nat
    BY <1>0, <2>3
  <2> QED
    BY <1>0, <2>1, <2>2, <2>3, <2>4
<1>2. ASSUME ops[a].pc = "checkConfig"
      PROVE  Active # {} /\ ActiveVersion.id = ops[a].at /\ ActiveVersion.bundle = ops[a].cat
  <2>1. Active = {Version(ops[a])}
    BY <1>2 DEF Proven, Checkings
  <2>2. Version(ops[a]).id = ops[a].at /\ Version(ops[a]).bundle = ops[a].cat
    BY DEF Version
  <2>3. Version(ops[a]).id <= Version(ops[a]).id
    BY <1>0, <2>2
  <2>4. ActiveVersion = Version(ops[a])
    BY <2>1, <2>3 DEF ActiveVersion
  <2> QED
    BY <2>1, <2>2, <2>4
<1> QED
  BY <1>1, <1>2 DEF Proven

LEMMA LoneVerifies ==
    ASSUME CatInv, LoneInv, NEW a \in Actors, Verify(a)
    PROVE  LoneInv'
<1>0. /\ ops[a] \in Op /\ ops[a].key \in 1 .. ModelKeys /\ ModelKeys \in Nat \ {0}
      /\ ops[a].cat.profile \in Profiles
  BY OpFields, CatalogConstants
<1>1. CASE CheckIndex(a)
  <2>1. PICK ok \in BOOLEAN : ok <=> ops[a].cat \in profileIndex
    OBVIOUS
  <2>2. PICK pc \in {"checkCatalog", "report"} :
          pc = IF \E b \in profileIndex : b.profile = ops[a].cat.profile
               THEN "checkCatalog" ELSE "report"
    OBVIOUS
  <2>3. Checks(a, "checkIndex", ok, pc) /\ pc \in Checkings \ {"checkIndex"}
    BY <1>1, <2>1, <2>2 DEF CheckIndex, Checkings
  <2>4. ops[a].pc = "checkIndex" /\ Proven(ops[a]) => ok
    BY <2>1, ReadsItsOwn
  <2> QED
    BY <2>3, <2>4, LoneChecks
<1>2. CASE CheckCatalog(a)
  <2>1. PICK ok \in BOOLEAN : ok <=> (Stored # {} /\ Newest = ops[a].cat.profile)
    OBVIOUS
  <2>2. Checks(a, "checkCatalog", ok, "checkConfig") /\ "checkConfig" \in Checkings \ {"checkIndex"}
    BY <1>2, <2>1 DEF CheckCatalog, Checkings
  <2>3. ops[a].pc = "checkCatalog" /\ Proven(ops[a]) => ok
    BY <2>1, ReadsItsOwn
  <2> QED
    BY <2>2, <2>3, LoneChecks
<1>3. CASE CheckConfig(a)
  <2>1. PICK ok \in BOOLEAN : ok <=> (/\ Active # {} /\ ActiveVersion.id = ops[a].at
                                      /\ ActiveVersion.bundle = ops[a].cat)
    OBVIOUS
  <2>2. Checks(a, "checkConfig", ok, "checkModels") /\ "checkModels" \in Checkings \ {"checkIndex"}
    BY <1>3, <2>1 DEF CheckConfig, Checkings
  <2>3. ops[a].pc = "checkConfig" /\ Proven(ops[a]) => ok
    BY <2>1, ReadsItsOwn
  <2> QED
    BY <2>2, <2>3, LoneChecks
<1>4. CASE CheckModels(a)
  <2>1. PICK ok \in BOOLEAN : ok <=> models[ops[a].cat.profile][ops[a].key] = ops[a].at
    OBVIOUS
  <2>2. PICK key, pc : /\ key = IF ops[a].key < ModelKeys THEN ops[a].key + 1 ELSE ops[a].key
                       /\ pc = IF ops[a].key < ModelKeys THEN "checkModels" ELSE "report"
    OBVIOUS
  <2>3. PICK op : op = [ops[a] EXCEPT !.good = ops[a].good /\ ok, !.key = key, !.pc = pc]
    OBVIOUS
  <2>4. /\ op.pc = pc /\ op.kind = ops[a].kind /\ op.cat = ops[a].cat /\ op.at = ops[a].at
        /\ op.report = ops[a].report /\ op.alone = ops[a].alone
        /\ op.good = (ops[a].good /\ ok)
    BY <1>0, <2>3, Zenon DEF Op
  <2>5. Becomes(a, op) /\ ops[a].pc = "checkModels" /\ UNCHANGED <<rows, profileIndex, configs, models>>
    BY <1>4, <2>1, <2>2, <2>3 DEF CheckModels, At
  <2>6. ops[a].pc \in Checkings /\ pc \in {"checkModels", "report"} /\ pc \in Checkings
    BY <2>2, <2>5 DEF Checkings
  <2>7. Proven(ops[a]) => ok
    BY <1>0, <2>1, <2>6 DEF Proven
  <2>8. Proven(ops[a]) => op.good = TRUE /\ op.report # "failed"
    BY <2>4, <2>7, Zenon DEF Proven
  <2> QED
    BY <2>4, <2>5, <2>6, <2>8, LonePasses
<1>5. CASE Report(a)
  <2>1. PICK report : report = IF ops[a].good THEN "ok" ELSE "failed"
    OBVIOUS
  <2>2. PICK op : op = [ops[a] EXCEPT !.pc = "end", !.report = report]
    OBVIOUS
  <2>3. /\ op.pc = "end" /\ op.kind = ops[a].kind /\ op.cat = ops[a].cat /\ op.at = ops[a].at
        /\ op.report = report /\ op.alone = ops[a].alone /\ op.good = ops[a].good
    BY <1>0, <2>2 DEF Op
  <2>4. Becomes(a, op) /\ ops[a].pc = "report" /\ UNCHANGED <<rows, profileIndex, configs, models>>
    BY <1>5, <2>1, <2>2 DEF Report, At
  <2>5. Proven(ops[a]) => op.good = TRUE /\ op.report # "failed"
    BY <2>1, <2>3 DEF Proven
  <2>6. ops[a].pc \in Checkings /\ op.pc \in Checkings
    BY <2>3, <2>4 DEF Checkings
  <2> QED
    BY <2>3, <2>4, <2>5, <2>6, LonePasses
<1> QED
  BY <1>1, <1>2, <1>3, <1>4, <1>5 DEF Verify

\* Only a registration reads tables and writes back.
LEMMA LoneOthers ==
    ASSUME CatInv, LoneInv, NEW a \in Actors,
           BeginRegistration(a) \/ BeginCopy(a) \/ LoadTable(a)
    PROVE  LoneInv'
<1>1. CASE BeginRegistration(a) \/ BeginCopy(a)
  <2>1. PICK kind, pc, arg, cat, at : Begin(a, kind, pc, arg, cat, at) /\ kind # "verify"
    <3>1. CASE BeginRegistration(a)
      <4>1. "service" # "verify" /\ "node" # "verify" /\ "workflow" # "verify" /\ "binding" # "verify"
        OBVIOUS
      <4> QED
        BY <3>1, <4>1, Zenon DEF BeginRegistration
    <3>2. CASE BeginCopy(a)
      <4>1. "copy" # "verify"
        OBVIOUS
      <4> QED
        BY <3>2, <4>1, Zenon DEF BeginCopy
    <3> QED
      BY <1>1, <3>1, <3>2
  <2>2. \E op : Becomes(a, op) /\ op.kind # "verify"
    BY <2>1 DEF Begin
  <2> QED
    BY <2>2, NoVerification
<1>2. CASE LoadTable(a)
  <2>1. ops[a] \in Op /\ ops[a].pc \in {"services", "workflows", "nodes", "bindings"}
    BY <1>2, OpFields DEF LoadTable, NextTable
  <2>2. ops[a].kind # "verify"
    BY <2>1 DEF LoneInv, Lone, VerifyPlaces, Checkings
  <2>3. PICK pc, table : Becomes(a, [ops[a] EXCEPT !.pc = pc, !.cat[ops[a].pc] = table])
    BY <1>2, Zenon DEF LoadTable
  <2>4. PICK op : op = [ops[a] EXCEPT !.pc = pc, !.cat[ops[a].pc] = table]
    OBVIOUS
  <2>5. op.kind = ops[a].kind
    BY <2>1, <2>4 DEF Op
  <2> QED
    BY <2>2, <2>3, <2>4, <2>5, NoVerification
<1> QED
  BY <1>1, <1>2

LEMMA LoneStep == CatInv /\ LoneInv /\ [CatalogNext]_catalogVars => LoneInv'
<1> SUFFICES ASSUME CatInv, LoneInv, [CatalogNext]_catalogVars PROVE LoneInv'
  OBVIOUS
<1>1. ASSUME NEW a \in Actors,
             \/ BeginRegistration(a) \/ BeginPublish(a) \/ BeginCopy(a) \/ ReportBundle(a)
             \/ LoadTable(a) \/ Register(a) \/ Publish(a) \/ Verify(a) \/ Finish(a) \/ Fail(a)
      PROVE  LoneInv'
  <2>1. CASE BeginRegistration(a) \/ BeginCopy(a) \/ LoadTable(a)
    BY <2>1, LoneOthers
  <2>2. CASE ReportBundle(a) \/ Register(a) \/ Finish(a) \/ Fail(a)
    BY <2>2, EndsVerification DEF ReportBundle, Register, RegisterSandboxService,
       RegisterSandboxInterface, WorkflowUpsert, BindingUpsert, Reject, WriteBack, Finish, Fail
  <2>3. CASE Publish(a)
    BY <2>3, LoneIndexes, LoneReplaces, LoneActivates, LoneReadModels DEF Publish
  <2> QED
    BY <1>1, <2>1, <2>2, <2>3, LoneBegins, LoneVerifies
<1>2. CASE UNCHANGED catalogVars
  BY <1>2 DEF catalogVars, LoneInv, Lone, VerifyPlaces, Proven, Version, Active
<1> QED
  BY <1>1, <1>2 DEF CatalogNext

\* A verification that no step of another command overlaps reports ok, whatever it found
\* in the Store.
THEOREM LoneVerificationsSucceed == CatalogSpec => []LoneVerifyReportsOk
<1>1. CatalogInit => LoneInv
  BY DEF CatalogInit, LoneInv, Lone, VerifyPlaces, Idle
<1>2. LoneInv => LoneVerifyReportsOk
  BY DEF LoneInv, Lone, Proven, LoneVerifyReportsOk
<1> QED
  BY <1>1, <1>2, LoneStep, CatalogHolds, PTL DEF CatalogSpec
=============================================================================
