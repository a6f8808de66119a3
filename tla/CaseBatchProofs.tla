-------------------------- MODULE CaseBatchProofs --------------------------
(* Theorems about CaseBatch, for any workflow, selections and number of    *)
(* batches.                                                                *)
EXTENDS CaseBatch, TLAPS

Status == {"running", "passed", "failed"}

InCases == {"execute", "record", "index", "collect", "update"}

Recorded(b, i) == caseRun[<<b, i>>] = "passed" /\ <<b, i>> \in evidence

Proven(b, i) == Recorded(b, i) /\ <<b, i>> \in everComplete

IsSettled(s) == s \in {"passed", "failed"}

PassesRecorded(b, rep) ==
  \A i \in DOMAIN rep.cases : rep.cases[i] = "passed" => Recorded(b, i)

\* rep is the final form of the report of b.
IsFinal(b, rep) ==
  /\ rep.cases = report[b].cases
  /\ rep.status = IF SomeFailed(rep.cases) THEN "failed" ELSE "passed"
  /\ rep.accepted => workflow[b] /\ AllPassed(rep.cases)

\* A report that was published or stored.
Good(b, rep) ==
  /\ rep.status # "running"
  /\ Len(rep.cases) = Len(plan[b])
  /\ PassesRecorded(b, rep)
  /\ rep.accepted => workflow[b] /\ \A i \in DOMAIN plan[b] : Proven(b, i)

-----------------------------------------------------------------------------
(* The inductive invariant, for one batch.                                 *)

InMemory(b) == report[b] = Unborn <=> pc[b] \in {"none", "lost"}

NotBegun(b) == pc[b] = "none" => at[b] = 1 /\ exports[b] = {} /\ stored[b] = Unborn

StillOpen(b) ==
  pc[b] \in InCases \cup {"finish"} \cup Closing =>
    /\ report[b].status = "running" /\ ~ report[b].accepted
    /\ Len(report[b].cases) = Len(plan[b]) /\ Len(plan[b]) > 0
    /\ PassesRecorded(b, report[b])

InOrder(b) ==
  pc[b] \in InCases =>
    /\ at[b] <= Len(plan[b])
    /\ \A i \in DOMAIN report[b].cases :
         i < at[b] <=> IsSettled(report[b].cases[i])

ItemRecorded(b) ==
  /\ pc[b] = "index" => caseRun[Current(b)] = item[b]
  /\ pc[b] \in {"collect", "update"} /\ item[b] = "passed" => Recorded(b, at[b])

Exported(b) ==
  pc[b] \in InCases =>
    exports[b] = {i \in 1..(at[b] - 1) : report[b].cases[i] = "passed"}

Deciding(b) ==
  /\ pc[b] \in {"finish"} \cup Closing =>
       \A i \in DOMAIN report[b].cases : IsSettled(report[b].cases[i])
  /\ pc[b] = "accept" => at[b] <= Len(plan[b]) /\ workflow[b]
  /\ pc[b] \in Closing =>
       /\ draft[b] # Unborn /\ IsFinal(b, draft[b])
       /\ draft[b].accepted =>
            \A i \in DOMAIN plan[b] :
              (pc[b] = "accept" => i < at[b]) => Proven(b, i)

Kept(b) ==
  /\ pc[b] = "done" => Good(b, report[b])
  /\ stored[b] # Unborn =>
       /\ pc[b] \in {"publish", "done", "lost"}
       /\ pc[b] = "publish" => stored[b] = draft[b]
       /\ pc[b] = "done" => stored[b] = report[b]
       /\ pc[b] = "lost" => Good(b, stored[b])

BatchInv(b) ==
  /\ InMemory(b) /\ NotBegun(b) /\ StillOpen(b) /\ InOrder(b)
  /\ ItemRecorded(b) /\ Exported(b) /\ Deciding(b) /\ Kept(b)

Inv ==
  /\ TypeOK
  /\ topology \subseteq everComplete
  /\ \A b \in Batch : BatchInv(b)

-----------------------------------------------------------------------------
(* Operators.                                                              *)

\* A plan lists runnable cases only, at most MaxCases of them.
LEMMA PlansTyped ==
  ASSUME NEW runnable \in SUBSET Case, NEW ofWorkflow \in BOOLEAN,
         NEW p \in Plans(runnable, ofWorkflow)
  PROVE  p \in Seq(Planned) /\ Len(p) <= MaxCases
<1>1. ASSUME NEW s \in Seq(Case), Len(s) <= MaxCases, NEW f \in Picks(s, runnable)
      PROVE  \E n \in 0..Len(s) : f \in [1..n -> 1..Len(s)]
  BY <1>1 DEF Picks
<1>2. ASSUME p \in WorkflowPlans(runnable)
      PROVE  p \in Seq(Planned) /\ Len(p) <= MaxCases
  <2>1. PICK f \in Picks(Binding, runnable) :
          p = [k \in DOMAIN f |-> [case |-> Binding[f[k]], step |-> f[k]]]
    BY <1>2 DEF WorkflowPlans
  <2>2. PICK n \in 0..Len(Binding) : f \in [1..n -> 1..Len(Binding)]
    BY <1>1, CaseBatchAssumption
  <2>3. n \in Nat /\ p = [k \in 1..n |-> [case |-> Binding[f[k]], step |-> f[k]]]
    BY <2>1, <2>2, CaseBatchAssumption
  <2>4. \A k \in 1..n : [case |-> Binding[f[k]], step |-> f[k]] \in Planned
    BY <2>2, CaseBatchAssumption DEF Planned
  <2>5. p \in Seq(Planned) /\ Len(p) = n
    BY <2>3, <2>4
  <2> QED
    BY <2>2, <2>5, CaseBatchAssumption
<1>3. ASSUME NEW s \in Selection, p \in SelectedPlans(s, runnable)
      PROVE  p \in Seq(Planned) /\ Len(p) <= MaxCases
  <2>0. s \in Seq(Case) /\ Len(s) <= MaxCases
    BY CaseBatchAssumption
  <2>1. PICK f \in Picks(s, runnable) :
          p = [k \in DOMAIN f |-> [case |-> s[f[k]], step |-> 0]]
    BY <1>3 DEF SelectedPlans
  <2>2. PICK n \in 0..Len(s) : f \in [1..n -> 1..Len(s)]
    BY <1>1, <2>0
  <2>3. n \in Nat /\ p = [k \in 1..n |-> [case |-> s[f[k]], step |-> 0]]
    BY <2>0, <2>1, <2>2
  <2>4. \A k \in 1..n : [case |-> s[f[k]], step |-> 0] \in Planned
    BY <2>0, <2>2, CaseBatchAssumption DEF Planned
  <2>5. p \in Seq(Planned) /\ Len(p) = n
    BY <2>3, <2>4
  <2> QED
    BY <2>0, <2>2, <2>5, CaseBatchAssumption
<1> QED
  BY <1>2, <1>3 DEF Plans

LEMMA BegunIsReport ==
  ASSUME NEW p \in Seq(Planned)
  PROVE  /\ Begun(p) \in Report
         /\ Begun(p).status = "running" /\ Begun(p).accepted = FALSE
         /\ Len(Begun(p).cases) = Len(p)
         /\ \A i \in DOMAIN Begun(p).cases : Begun(p).cases[i] = "running"
<1> DEFINE c == [i \in 1..Len(p) |-> "running"]
<1>1. c \in Seq(Status) /\ Len(c) = Len(p) /\ \A i \in DOMAIN c : c[i] = "running"
  BY DEF Status
<1> QED
  BY <1>1 DEF Begun, Report, Status

LEMMA WithCaseIsReport ==
  ASSUME NEW rep \in Report, NEW i \in DOMAIN rep.cases, NEW s \in {"passed", "failed"}
  PROVE  LET new == WithCase(rep, i, s)
         IN /\ new \in Report
            /\ new.status = rep.status /\ new.accepted = rep.accepted
            /\ Len(new.cases) = Len(rep.cases)
            /\ DOMAIN new.cases = DOMAIN rep.cases
            /\ new.cases[i] = s
            /\ \A j \in DOMAIN rep.cases : j # i => new.cases[j] = rep.cases[j]
<1> DEFINE c == [rep.cases EXCEPT ![i] = s]
<1>1. rep.cases \in Seq(Status)
  BY DEF Report, Status
<1>2. /\ c \in Seq(Status) /\ Len(c) = Len(rep.cases) /\ DOMAIN c = DOMAIN rep.cases
      /\ c[i] = s /\ \A j \in DOMAIN rep.cases : j # i => c[j] = rep.cases[j]
  BY <1>1 DEF Status
<1> QED
  BY <1>2 DEF WithCase, Report, Status

LEMMA CountedIsReport ==
  ASSUME NEW rep \in Report, NEW w \in BOOLEAN, NEW ok \in BOOLEAN
  PROVE  Counted(rep, w) \in Report /\ Require(rep, ok) \in Report
<1>1. AllPassed(rep.cases) \in BOOLEAN
  BY DEF AllPassed
<1> QED
  BY <1>1 DEF Counted, Require, Report


-----------------------------------------------------------------------------
(* Steps.                                                                  *)

\* Case runs, evidence and the history of topology are never taken back.
Grows ==
  /\ \A x \in CaseRun : caseRun[x] # "none" => caseRun'[x] = caseRun[x]
  /\ evidence \subseteq evidence' /\ everComplete \subseteq everComplete'

Untouched(c) ==
  /\ plan'[c] = plan[c] /\ workflow'[c] = workflow[c] /\ report'[c] = report[c]
  /\ pc'[c] = pc[c] /\ at'[c] = at[c] /\ item'[c] = item[c]
  /\ exports'[c] = exports[c] /\ draft'[c] = draft[c] /\ stored'[c] = stored[c]

LEMMA RecordsStay ==
  ASSUME TypeOK, Grows, NEW c \in Batch, NEW i \in Position
  PROVE  /\ Recorded(c, i) => Recorded(c, i)'
         /\ Proven(c, i) => Proven(c, i)'
<1>1. <<c, i>> \in CaseRun
  BY DEF CaseRun
<1> QED
  BY <1>1 DEF Grows, Recorded, Proven

\* The reports and plans of the batches have the form the steps rely on.
LEMMA Shape ==
  ASSUME Inv, NEW b \in Batch
  PROVE  /\ plan[b] \in Seq(Planned) /\ Len(plan[b]) \in 0..MaxCases
         /\ DOMAIN plan[b] = 1..Len(plan[b]) /\ DOMAIN plan[b] \subseteq Position
         /\ at[b] \in 1..MaxCases + 1
         /\ pc[b] \in InCases \cup {"finish"} \cup Closing =>
              /\ report[b] \in Report /\ report[b].cases \in Seq(Status)
              /\ DOMAIN report[b].cases = DOMAIN plan[b]
         /\ pc[b] \in InCases \cup {"accept"} => at[b] \in Position
<1>1. /\ plan[b] \in Seq(Planned) /\ Len(plan[b]) \in 0..MaxCases
      /\ at[b] \in 1..MaxCases + 1
  BY CaseBatchAssumption DEF Inv, TypeOK
<1>2. DOMAIN plan[b] = 1..Len(plan[b]) /\ DOMAIN plan[b] \subseteq Position
  BY <1>1, CaseBatchAssumption DEF Position
<1>3. ASSUME pc[b] \in InCases \cup {"finish"} \cup Closing
      PROVE  /\ report[b] \in Report /\ report[b].cases \in Seq(Status)
             /\ DOMAIN report[b].cases = DOMAIN plan[b]
  <2>1. report[b] # Unborn
    BY <1>3 DEF Inv, BatchInv, InMemory, InCases, Closing
  <2>2. report[b] \in Report
    BY <2>1 DEF Inv, TypeOK
  <2>3. report[b].cases \in Seq(Status)
    BY <2>2 DEF Report, Status
  <2>4. Len(report[b].cases) = Len(plan[b])
    BY <1>3 DEF Inv, BatchInv, StillOpen
  <2> QED
    BY <2>2, <2>3, <2>4, <1>1
<1>4. pc[b] \in InCases \cup {"accept"} => at[b] \in Position
  BY <1>1, CaseBatchAssumption DEF Inv, BatchInv, InOrder, Deciding, Position, Closing
<1> QED
  BY <1>1, <1>2, <1>3, <1>4

LEMMA PassesStay ==
  ASSUME TypeOK, Grows, NEW c \in Batch, NEW rep \in Report,
         Len(rep.cases) <= MaxCases, PassesRecorded(c, rep)
  PROVE  \A i \in DOMAIN rep.cases : rep.cases[i] = "passed" => Recorded(c, i)'
<1>1. rep.cases \in Seq(Status)
  BY DEF Report, Status
<1>2. DOMAIN rep.cases \subseteq Position
  BY <1>1, CaseBatchAssumption DEF Position
<1> QED
  BY <1>2, RecordsStay DEF PassesRecorded, Recorded

\* What a step leaves of a batch it does not touch.
LEMMA Frame ==
  ASSUME Inv, Grows, NEW c \in Batch, Untouched(c)
  PROVE  BatchInv(c)'
<1>0. BatchInv(c) /\ TypeOK
  BY DEF Inv
<1>d. /\ DOMAIN plan[c] \subseteq Position
      /\ pc[c] \in InCases => at[c] \in Position
  BY Shape
<1>b. \A rep \in Report : Len(rep.cases) <= MaxCases /\ PassesRecorded(c, rep)
        => PassesRecorded(c, rep)'
  BY <1>0, PassesStay DEF PassesRecorded, Recorded
<1>c. ASSUME NEW rep \in Report, Good(c, rep)
      PROVE  Good(c, rep)'
  <2>1. PassesRecorded(c, rep)'
    BY <1>b, <1>c, Shape DEF Good, PassesRecorded, Recorded
  <2>2. ASSUME rep.accepted, NEW i \in DOMAIN plan[c]
        PROVE  workflow[c] /\ Proven(c, i)'
    <3>1. workflow[c] /\ Proven(c, i) /\ i \in Position
      BY <1>c, <1>d, <2>2 DEF Good
    <3> QED
      BY <1>0, <3>1, RecordsStay
  <2> QED
    BY <1>c, <2>1, <2>2 DEF Good, Untouched, Proven, Recorded
<1>1. InMemory(c)' /\ NotBegun(c)'
  BY <1>0 DEF BatchInv, InMemory, NotBegun, Untouched
<1>2. StillOpen(c)'
  <2> SUFFICES ASSUME pc[c] \in InCases \cup {"finish"} \cup Closing
               PROVE  PassesRecorded(c, report[c])'
    BY <1>0 DEF BatchInv, StillOpen, Untouched
  <2>1. report[c] \in Report /\ Len(report[c].cases) <= MaxCases
    BY <1>0, Shape DEF BatchInv, StillOpen
  <2> QED
    BY <1>0, <1>b, <2>1 DEF BatchInv, StillOpen, Untouched, PassesRecorded, Recorded
<1>3. InOrder(c)' /\ Exported(c)'
  BY <1>0 DEF BatchInv, InOrder, Exported, Untouched
<1>4. ItemRecorded(c)'
  <2>1. pc[c] \in InCases => <<c, at[c]>> \in CaseRun
    BY <1>d DEF CaseRun
  <2>2. ASSUME pc[c] = "index" PROVE caseRun'[<<c, at[c]>>] = item[c]
    BY <1>0, <2>1, <2>2 DEF BatchInv, ItemRecorded, Grows, InCases, TypeOK, Current
  <2>3. ASSUME pc[c] \in {"collect", "update"}, item[c] = "passed"
        PROVE  Recorded(c, at[c])'
    BY <1>0, <1>d, <2>3, RecordsStay DEF BatchInv, ItemRecorded, InCases, Untouched, Recorded
  <2> QED
    BY <2>2, <2>3 DEF ItemRecorded, Untouched, Current, Recorded
<1>5. Deciding(c)'
  <2>1. ASSUME NEW i \in DOMAIN plan[c], Proven(c, i)
        PROVE  Proven(c, i)'
    BY <1>0, <1>d, <2>1, RecordsStay
  <2> QED
    BY <1>0, <2>1 DEF BatchInv, Deciding, Untouched, IsFinal, Proven, Recorded
<1>6. Kept(c)'
  <2>1. pc[c] = "done" => report[c] \in Report /\ Good(c, report[c])
    BY <1>0 DEF BatchInv, Kept, InMemory, TypeOK
  <2>2. pc[c] = "lost" /\ stored[c] # Unborn => stored[c] \in Report /\ Good(c, stored[c])
    BY <1>0 DEF BatchInv, Kept, TypeOK
  <2> QED
    BY <1>0, <1>c, <2>1, <2>2 DEF BatchInv, Kept, Untouched
<1> QED
  BY <1>1, <1>2, <1>3, <1>4, <1>5, <1>6 DEF BatchInv

\* A step of one batch keeps the invariant if it keeps the part of that batch.
LEMMA StepOfOne ==
  ASSUME Inv, Grows, TypeOK', (topology \subseteq everComplete)',
         NEW b \in Batch, BatchInv(b)', \A c \in Batch \ {b} : Untouched(c)
  PROVE  Inv'
<1>1. \A c \in Batch : BatchInv(c)'
  <2> TAKE c \in Batch
  <2>1. CASE c = b
    BY <2>1
  <2>2. CASE c # b
    BY <2>2, Frame
  <2> QED
    BY <2>1, <2>2
<1> QED
  BY <1>1 DEF Inv

LEMMA InitInv == Init => Inv
<1> SUFFICES ASSUME Init PROVE Inv
  OBVIOUS
<1>1. TypeOK
  BY CaseBatchAssumption DEF Init, TypeOK, Phase, CaseRun
<1>2. ASSUME NEW b \in Batch PROVE BatchInv(b)
  BY DEF Init, BatchInv, InMemory, NotBegun, StillOpen, InOrder, ItemRecorded,
         Exported, Deciding, Kept, InCases, Closing
<1> QED
  BY <1>1, <1>2 DEF Init, Inv

LEMMA ExecuteInv ==
  ASSUME Inv, NEW b \in Batch, Execute(b)
  PROVE  Inv'
<1>0. TypeOK /\ BatchInv(b)
  BY DEF Inv
<1>1. /\ TypeOK' /\ Grows /\ \A c \in Batch \ {b} : Untouched(c)
      /\ (topology \subseteq everComplete)'
  BY <1>0 DEF Inv, TypeOK, Execute, Goto, Phase, Grows, Untouched, store
<1>2. /\ pc[b] = "execute" /\ pc'[b] \in {"update", "record"}
      /\ item'[b] \in {"passed", "failed"}
      /\ pc'[b] = "update" => item'[b] = "failed"
  BY <1>0 DEF Execute, Goto, TypeOK
<1>3. /\ UNCHANGED <<plan, workflow, exports, report, mu, at, draft, store>>
  BY DEF Execute
<1>4. InMemory(b)' /\ NotBegun(b)' /\ StillOpen(b)' /\ InOrder(b)' /\ Exported(b)'
  BY <1>0, <1>2, <1>3 DEF BatchInv, InMemory, NotBegun, StillOpen, InOrder, Exported,
     InCases, Closing, PassesRecorded, Recorded, store
<1>5. ItemRecorded(b)' /\ Deciding(b)' /\ Kept(b)'
  BY <1>0, <1>2, <1>3 DEF BatchInv, ItemRecorded, Deciding, Kept, Closing, store
<1> QED
  BY <1>1, <1>4, <1>5, StepOfOne DEF BatchInv

LEMMA RecordCaseRunInv ==
  ASSUME Inv, NEW b \in Batch, RecordCaseRun(b)
  PROVE  Inv'
<1>0. TypeOK /\ BatchInv(b)
  BY DEF Inv
<1>1. pc[b] = "record" /\ Current(b) \in CaseRun
  BY Shape DEF RecordCaseRun, Current, CaseRun, InCases
<1>2. /\ TypeOK' /\ Grows /\ \A c \in Batch \ {b} : Untouched(c)
      /\ (topology \subseteq everComplete)'
  <2>1. TypeOK'
    BY <1>0, <1>1 DEF TypeOK, RecordCaseRun, Goto, Phase
  <2>2. Grows
    BY <1>0, <1>1 DEF TypeOK, RecordCaseRun, Grows
  <2> QED
    BY <1>0, <2>1, <2>2 DEF Inv, TypeOK, RecordCaseRun, Goto, Untouched
<1>3. /\ pc'[b] \in {"update", "index"} /\ item'[b] \in {"passed", "failed"}
      /\ pc'[b] = "update" => item'[b] = "failed"
      /\ pc'[b] = "index" => item'[b] = item[b] /\ caseRun'[Current(b)] = item[b]
  BY <1>0, <1>1 DEF RecordCaseRun, Goto, TypeOK
<1>4. UNCHANGED <<plan, workflow, exports, report, mu, at, draft, evidence,
                  topology, everComplete, stored>>
  BY DEF RecordCaseRun
<1>5. PassesRecorded(b, report[b])'
  BY <1>0, <1>1, <1>2, <1>4, Shape, PassesStay
     DEF BatchInv, StillOpen, InCases, PassesRecorded, Recorded
<1>6. InMemory(b)' /\ NotBegun(b)' /\ StillOpen(b)' /\ InOrder(b)' /\ Exported(b)'
  BY <1>0, <1>1, <1>3, <1>4, <1>5 DEF BatchInv, InMemory, NotBegun, StillOpen, InOrder,
     Exported, InCases, Closing
<1>7. ItemRecorded(b)' /\ Deciding(b)' /\ Kept(b)'
  BY <1>0, <1>1, <1>3, <1>4 DEF BatchInv, ItemRecorded, Deciding, Kept, Closing, Current
<1> QED
  BY <1>2, <1>6, <1>7, StepOfOne DEF BatchInv

LEMMA IndexCaseRunInv ==
  ASSUME Inv, NEW b \in Batch, IndexCaseRun(b)
  PROVE  Inv'
<1>0. TypeOK /\ BatchInv(b)
  BY DEF Inv
<1>1. pc[b] = "index" /\ Current(b) \in CaseRun
  BY Shape DEF IndexCaseRun, Current, CaseRun, InCases
<1>2. AfterIndex(b) \in {"collect", "update"}
  BY DEF AfterIndex
<1>3. /\ TypeOK' /\ Grows /\ \A c \in Batch \ {b} : Untouched(c)
      /\ (topology \subseteq everComplete)'
  BY <1>0, <1>1, <1>2 DEF Inv, TypeOK, IndexCaseRun, Goto, Phase, Grows, Untouched
<1>4. /\ pc'[b] \in {"update", "collect"} /\ item'[b] \in {"passed", "failed"}
      /\ item'[b] = "passed" => item[b] = "passed" /\ Current(b) \in evidence'
  BY <1>0, <1>1, <1>2 DEF IndexCaseRun, Goto, TypeOK
<1>5. UNCHANGED <<plan, workflow, exports, report, mu, at, draft, caseRun,
                  topology, everComplete, stored>>
  BY DEF IndexCaseRun
<1>6. PassesRecorded(b, report[b])'
  BY <1>0, <1>1, <1>3, <1>5, Shape, PassesStay
     DEF BatchInv, StillOpen, InCases, PassesRecorded, Recorded
<1>7. InMemory(b)' /\ NotBegun(b)' /\ StillOpen(b)' /\ InOrder(b)' /\ Exported(b)'
  BY <1>0, <1>1, <1>4, <1>5, <1>6 DEF BatchInv, InMemory, NotBegun, StillOpen, InOrder,
     Exported, InCases, Closing
<1>8. ItemRecorded(b)' /\ Deciding(b)' /\ Kept(b)'
  BY <1>0, <1>1, <1>4, <1>5
     DEF BatchInv, ItemRecorded, Deciding, Kept, Closing, Current, Recorded
<1> QED
  BY <1>3, <1>7, <1>8, StepOfOne DEF BatchInv

LEMMA CollectTraceInv ==
  ASSUME Inv, NEW b \in Batch, CollectTrace(b)
  PROVE  Inv'
<1>0. TypeOK /\ BatchInv(b)
  BY DEF Inv
<1>1. pc[b] = "collect" /\ Current(b) \in CaseRun
  BY Shape DEF CollectTrace, Current, CaseRun, InCases
<1>2. /\ topology' \subseteq CaseRun /\ everComplete' \subseteq CaseRun
      /\ topology' \subseteq everComplete' /\ everComplete \subseteq everComplete'
  BY <1>0, <1>1 DEF Inv, TypeOK, CollectTrace, SaveTopology
<1>3. /\ UNCHANGED <<local, report, mu, at, draft, caseRun, evidence, stored>>
      /\ pc' = [pc EXCEPT ![b] = "update"]
  BY DEF CollectTrace, Goto
<1>4. /\ TypeOK' /\ Grows /\ \A c \in Batch \ {b} : Untouched(c)
  BY <1>0, <1>2, <1>3 DEF TypeOK, Phase, Grows, Untouched, local
<1>5. PassesRecorded(b, report[b])'
  BY <1>0, <1>1, <1>3 DEF BatchInv, StillOpen, InCases, PassesRecorded, Recorded, local
<1>6. InMemory(b)' /\ NotBegun(b)' /\ StillOpen(b)' /\ InOrder(b)' /\ Exported(b)'
  BY <1>0, <1>1, <1>3, <1>5 DEF TypeOK, BatchInv, InMemory, NotBegun, StillOpen, InOrder,
     Exported, InCases, Closing, local
<1>7. ItemRecorded(b)' /\ Deciding(b)' /\ Kept(b)'
  BY <1>0, <1>1, <1>3
     DEF TypeOK, BatchInv, ItemRecorded, Deciding, Kept, Closing, Recorded, local
<1> QED
  BY <1>2, <1>4, <1>6, <1>7, StepOfOne DEF BatchInv

LEMMA UpdateCaseInv ==
  ASSUME Inv, NEW b \in Batch, UpdateCase(b)
  PROVE  Inv'
<1> DEFINE i == at[b]
           new == WithCase(report[b], i, item[b])
<1>0. TypeOK /\ BatchInv(b)
  BY DEF Inv
<1>1. /\ pc[b] = "update" /\ i \in Position /\ i \in DOMAIN report[b].cases
      /\ report[b] \in Report /\ item[b] \in {"passed", "failed"}
      /\ i \in 1..Len(plan[b]) /\ Len(plan[b]) \in 1..MaxCases
      /\ DOMAIN report[b].cases = 1..Len(plan[b])
  BY <1>0, Shape DEF UpdateCase, InCases, BatchInv, InOrder, StillOpen, TypeOK, Position
<1>2. /\ new \in Report /\ new.status = "running" /\ ~ new.accepted
      /\ Len(new.cases) = Len(plan[b]) /\ DOMAIN new.cases = 1..Len(plan[b])
      /\ new.cases[i] = item[b]
      /\ \A j \in 1..Len(plan[b]) : j # i => new.cases[j] = report[b].cases[j]
  BY <1>0, <1>1, WithCaseIsReport DEF BatchInv, StillOpen, InCases
<1>3. /\ report' = [report EXCEPT ![b] = new] /\ at' = [at EXCEPT ![b] = i + 1]
      /\ pc' = [pc EXCEPT ![b] = NextCase(b)]
      /\ exports' = [exports EXCEPT ![b] = IF item[b] = "passed" THEN @ \cup {i} ELSE @]
      /\ UNCHANGED <<plan, workflow, item, mu, draft, store>>
  BY DEF UpdateCase, Goto
<1>4. /\ NextCase(b) \in {"execute", "finish"}
      /\ NextCase(b) = "execute" <=> i < Len(plan[b])
  BY DEF NextCase
<1>5. /\ report'[b] = new /\ at'[b] = i + 1 /\ pc'[b] = NextCase(b)
      /\ exports'[b] = IF item[b] = "passed" THEN exports[b] \cup {i} ELSE exports[b]
  BY <1>0, <1>3 DEF TypeOK
<1>6. TypeOK'
  <2>1. i + 1 \in 1..MaxCases + 1
    BY <1>1, CaseBatchAssumption
  <2>2. NextCase(b) \in Phase
    BY <1>4 DEF Phase
  <2>3. (IF item[b] = "passed" THEN exports[b] \cup {i} ELSE exports[b]) \in SUBSET Position
    BY <1>0, <1>1 DEF TypeOK
  <2> QED
    BY <1>0, <1>2, <1>3, <2>1, <2>2, <2>3 DEF TypeOK, store
<1>7. Grows /\ (topology \subseteq everComplete)' /\ \A c \in Batch \ {b} : Untouched(c)
  BY <1>0, <1>3 DEF Inv, TypeOK, Grows, Untouched, store
<1>8. ASSUME NEW j \in 1..Len(plan[b])
      PROVE  /\ j < i + 1 <=> IsSettled(new.cases[j])
             /\ new.cases[j] = "passed" => Recorded(b, j)
  <2>1. CASE j = i
    BY <1>0, <1>1, <1>2, <2>1 DEF BatchInv, ItemRecorded, IsSettled, Position
  <2>2. CASE j # i
    BY <1>0, <1>1, <1>2, <2>2
       DEF BatchInv, InOrder, InCases, StillOpen, PassesRecorded, IsSettled, Position
  <2> QED
    BY <2>1, <2>2
<1>9. InMemory(b)' /\ NotBegun(b)' /\ InOrder(b)'
  <2>1. InMemory(b)' /\ NotBegun(b)'
    BY <1>2, <1>4, <1>5, CaseBatchAssumption DEF InMemory, NotBegun
  <2>2. ASSUME NextCase(b) \in InCases
        PROVE  i + 1 <= Len(plan[b])
    BY <1>1, <1>4, <2>2 DEF InCases
  <2> QED
    BY <1>2, <1>3, <1>5, <1>8, <2>1, <2>2 DEF InOrder
<1>10. StillOpen(b)'
  <2>1. PassesRecorded(b, report[b])'
    BY <1>2, <1>3, <1>5, <1>8 DEF PassesRecorded, Recorded, store
  <2> QED
    BY <1>1, <1>2, <1>3, <1>5, <2>1 DEF StillOpen
<1>11. Exported(b)'
  <2>1. exports[b] = {j \in 1..(i - 1) : report[b].cases[j] = "passed"}
    BY <1>0, <1>1 DEF BatchInv, Exported, InCases
  <2>2. {j \in 1..((i + 1) - 1) : new.cases[j] = "passed"}
          = IF item[b] = "passed" THEN exports[b] \cup {i} ELSE exports[b]
    BY <1>1, <1>2, <2>1 DEF Position
  <2> QED
    BY <1>5, <2>2 DEF Exported
<1>12. ItemRecorded(b)' /\ Kept(b)'
  BY <1>0, <1>1, <1>3, <1>4, <1>5 DEF BatchInv, ItemRecorded, Kept, store
<1>13. Deciding(b)'
  BY <1>1, <1>2, <1>4, <1>5, <1>8 DEF Deciding, Closing, IsSettled, Position
<1> QED
  BY <1>6, <1>7, <1>9, <1>10, <1>11, <1>12, <1>13, StepOfOne DEF BatchInv

LEMMA FinishInv ==
  ASSUME Inv, NEW b \in Batch, Finish(b)
  PROVE  Inv'
<1> DEFINE new == Counted(report[b], workflow[b])
<1>0. TypeOK /\ BatchInv(b)
  BY DEF Inv
<1>1. /\ pc[b] = "finish" /\ report[b] \in Report /\ workflow[b] \in BOOLEAN
      /\ Len(plan[b]) \in 1..MaxCases
  BY <1>0, Shape DEF Finish, TypeOK, BatchInv, StillOpen
<1>2. /\ new \in Report /\ new.cases = report[b].cases
      /\ new.status = IF SomeFailed(report[b].cases) THEN "failed" ELSE "passed"
      /\ new.accepted <=> workflow[b] /\ AllPassed(report[b].cases)
  BY <1>1, CountedIsReport DEF Counted
<1>3. /\ draft' = [draft EXCEPT ![b] = new] /\ at' = [at EXCEPT ![b] = 1] /\ mu' = b
      /\ pc' = [pc EXCEPT ![b] = IF workflow[b] THEN "accept" ELSE "store"]
      /\ UNCHANGED <<local, report, store>>
  BY DEF Finish, Goto
<1>4. /\ draft'[b] = new /\ at'[b] = 1 /\ pc'[b] = IF workflow[b] THEN "accept" ELSE "store"
  BY <1>0, <1>3 DEF TypeOK
<1>5. TypeOK'
  BY <1>0, <1>2, <1>3, CaseBatchAssumption DEF TypeOK, Phase, local, store
<1>6. Grows /\ (topology \subseteq everComplete)' /\ \A c \in Batch \ {b} : Untouched(c)
  BY <1>0, <1>3 DEF Inv, TypeOK, Grows, Untouched, local, store
<1>7. InMemory(b)' /\ NotBegun(b)' /\ InOrder(b)' /\ Exported(b)' /\ ItemRecorded(b)'
  BY <1>0, <1>1, <1>3, <1>4
     DEF BatchInv, InMemory, NotBegun, InOrder, Exported, ItemRecorded, InCases, local
<1>8. StillOpen(b)'
  <2>1. PassesRecorded(b, report[b])'
    BY <1>0, <1>1, <1>3 DEF BatchInv, StillOpen, PassesRecorded, Recorded, local, store
  <2> QED
    BY <1>0, <1>1, <1>3, <2>1 DEF BatchInv, StillOpen, local
<1>9. Deciding(b)'
  <2>1. IsFinal(b, new)'
    BY <1>2, <1>3 DEF IsFinal, SomeFailed, AllPassed, local
  <2>2. \A i \in DOMAIN report[b].cases : IsSettled(report[b].cases[i])
    BY <1>0, <1>1 DEF BatchInv, Deciding
  <2>3. new.accepted => workflow[b]
    BY <1>2
  <2>4. new # Unborn
    BY <1>2, CaseBatchAssumption
  <2>5. UNCHANGED <<plan, workflow, report>> /\ 1 <= Len(plan[b])
    BY <1>1, <1>3 DEF local
  <2>6. \A i \in DOMAIN plan[b] : ~ i < 1
    BY <1>0, Shape
  <2> QED
    BY <1>4, <2>1, <2>2, <2>3, <2>4, <2>5, <2>6 DEF Deciding, Closing
<1>10. Kept(b)'
  BY <1>0, <1>1, <1>3, <1>4 DEF BatchInv, Kept, store
<1> QED
  BY <1>5, <1>6, <1>7, <1>8, <1>9, <1>10, StepOfOne DEF BatchInv

\* What AcceptCase and CheckHealth leave alone.
LEMMA DecideInv ==
  ASSUME Inv, NEW b \in Batch, NEW ok \in BOOLEAN, NEW p \in {"accept", "health", "store"},
         pc[b] \in {"accept", "health"}, at'[b] \in 1..MaxCases + 1,
         pc' = [pc EXCEPT ![b] = p], at' = [at EXCEPT ![b] = at'[b]],
         draft' = [draft EXCEPT ![b] = Require(@, ok)],
         UNCHANGED <<local, report, mu, store>>,
         p = "accept" => at'[b] <= Len(plan[b]) /\ workflow[b],
         draft[b].accepted /\ ok =>
           \A i \in DOMAIN plan[b] : (p = "accept" => i < at'[b]) => Proven(b, i)
  PROVE  Inv'
<1>0. TypeOK /\ BatchInv(b)
  BY DEF Inv
<1>1. draft[b] \in Report /\ IsFinal(b, draft[b])
  BY <1>0 DEF TypeOK, BatchInv, Deciding, Closing
<1>2. /\ Require(draft[b], ok) \in Report
      /\ Require(draft[b], ok).cases = draft[b].cases
      /\ Require(draft[b], ok).status = draft[b].status
      /\ Require(draft[b], ok).accepted => draft[b].accepted /\ ok
  BY <1>1, CountedIsReport DEF Require
<1>3. draft'[b] = Require(draft[b], ok) /\ pc'[b] = p
  BY <1>0 DEF TypeOK
<1>4. TypeOK'
  BY <1>0, <1>2 DEF TypeOK, Phase, local, store
<1>5. Grows /\ (topology \subseteq everComplete)' /\ \A c \in Batch \ {b} : Untouched(c)
  BY <1>0 DEF Inv, TypeOK, Grows, Untouched, local, store
<1>6. InMemory(b)' /\ NotBegun(b)' /\ InOrder(b)' /\ Exported(b)' /\ ItemRecorded(b)'
  BY <1>0, <1>3
     DEF BatchInv, InMemory, NotBegun, InOrder, Exported, ItemRecorded, InCases, local
<1>7. StillOpen(b)'
  <2>1. PassesRecorded(b, report[b])'
    BY <1>0 DEF BatchInv, StillOpen, Closing, PassesRecorded, Recorded, local, store
  <2> QED
    BY <1>0, <2>1 DEF BatchInv, StillOpen, Closing, local
<1>8. Deciding(b)'
  <2>1. IsFinal(b, draft[b])'
    BY <1>1, <1>2, <1>3 DEF IsFinal, SomeFailed, AllPassed, local
  <2>2. \A i \in DOMAIN report[b].cases : IsSettled(report[b].cases[i])
    BY <1>0 DEF BatchInv, Deciding, Closing
  <2>3. draft'[b] # Unborn
    BY <1>2, <1>3, CaseBatchAssumption
  <2>4. UNCHANGED <<plan, workflow, report, caseRun, evidence, everComplete>>
    BY DEF local, store
  <2>5. ASSUME draft'[b].accepted, NEW i \in DOMAIN plan[b], p = "accept" => i < at'[b]
        PROVE  Proven(b, i)'
    <3>1. Proven(b, i)
      BY <1>2, <1>3, <2>5
    <3> QED
      BY <3>1, <2>4 DEF Proven, Recorded
  <2> QED
    BY <1>3, <2>1, <2>2, <2>3, <2>4, <2>5 DEF Deciding
<1>9. Kept(b)'
  BY <1>0, <1>3 DEF BatchInv, Kept, store
<1> QED
  BY <1>4, <1>5, <1>6, <1>7, <1>8, <1>9, StepOfOne DEF BatchInv

LEMMA AcceptCaseInv ==
  ASSUME Inv, NEW b \in Batch, AcceptCase(b)
  PROVE  Inv'
<1> DEFINE i == at[b]
           ok == Current(b) \in evidence /\ Current(b) \in topology
           p == IF i < Len(plan[b]) THEN "accept" ELSE "health"
<1>0. TypeOK /\ BatchInv(b) /\ pc[b] = "accept" /\ ok \in BOOLEAN
  BY DEF Inv, AcceptCase
<1>1. /\ i \in 1..Len(plan[b]) /\ Len(plan[b]) \in 1..MaxCases
      /\ DOMAIN plan[b] = 1..Len(plan[b]) /\ workflow[b]
      /\ DOMAIN report[b].cases = DOMAIN plan[b]
  BY <1>0, Shape DEF BatchInv, Deciding, StillOpen, Closing
<1>2. /\ pc' = [pc EXCEPT ![b] = p] /\ at' = [at EXCEPT ![b] = i + 1]
      /\ draft' = [draft EXCEPT ![b] = Require(@, ok)]
      /\ UNCHANGED <<local, report, mu, store>>
  BY DEF AcceptCase, Goto
<1>3. at'[b] = i + 1 /\ at'[b] \in 1..MaxCases + 1
  BY <1>0, <1>1, <1>2, CaseBatchAssumption DEF TypeOK
<1>4. ASSUME draft[b].accepted, ok
      PROVE  Proven(b, i)
  <2>1. draft[b].cases = report[b].cases /\ AllPassed(draft[b].cases)
    BY <1>0, <1>4 DEF BatchInv, Deciding, Closing, IsFinal
  <2>2. report[b].cases[i] = "passed"
    BY <1>1, <2>1 DEF AllPassed
  <2>3. Recorded(b, i)
    BY <1>0, <1>1, <2>2 DEF BatchInv, StillOpen, Closing, PassesRecorded
  <2> QED
    BY <1>4, <2>3 DEF Proven, Inv, Current
<1>5. ASSUME draft[b].accepted, ok, NEW j \in DOMAIN plan[b], p = "accept" => j < i + 1
      PROVE  Proven(b, j)
  <2>1. CASE j = i
    BY <1>4, <1>5, <2>1
  <2>2. CASE j < i
    BY <1>0, <1>5, <2>2 DEF BatchInv, Deciding, Closing
  <2>3. CASE j > i
    BY <1>1, <1>5, <2>3
  <2> QED
    BY <1>1, <2>1, <2>2, <2>3
<1>6. p \in {"accept", "health", "store"} /\ (p = "accept" => at'[b] <= Len(plan[b]))
  BY <1>1, <1>3
<1> QED
  <2> HIDE DEF i, ok, p
  <2> QED
    BY <1>0, <1>1, <1>2, <1>3, <1>5, <1>6, DecideInv

LEMMA CheckHealthInv ==
  ASSUME Inv, NEW b \in Batch, CheckHealth(b)
  PROVE  Inv'
<1>0. TypeOK /\ BatchInv(b) /\ pc[b] = "health"
  BY DEF Inv, CheckHealth
<1>1. PICK ok \in BOOLEAN : draft' = [draft EXCEPT ![b] = Require(@, ok)]
  BY DEF CheckHealth
<1>2. /\ pc' = [pc EXCEPT ![b] = "store"] /\ at' = [at EXCEPT ![b] = at'[b]]
      /\ at'[b] \in 1..MaxCases + 1 /\ UNCHANGED <<local, report, mu, store>>
  BY <1>0 DEF CheckHealth, Goto, TypeOK
<1>3. draft[b].accepted => \A i \in DOMAIN plan[b] : Proven(b, i)
  BY <1>0 DEF BatchInv, Deciding, Closing
<1> QED
  BY <1>0, <1>1, <1>2, <1>3, DecideInv

LEMMA DraftGood ==
  ASSUME Inv, NEW b \in Batch, pc[b] \in {"store", "publish"}
  PROVE  draft[b] \in Report /\ Good(b, draft[b])
<1>0. TypeOK /\ BatchInv(b)
  BY DEF Inv
<1>1. /\ draft[b] \in Report /\ IsFinal(b, draft[b])
      /\ draft[b].accepted => \A i \in DOMAIN plan[b] : Proven(b, i)
  BY <1>0 DEF TypeOK, BatchInv, Deciding, Closing
<1>2. Len(report[b].cases) = Len(plan[b]) /\ PassesRecorded(b, report[b])
  BY <1>0 DEF BatchInv, StillOpen, Closing
<1> QED
  BY <1>1, <1>2 DEF Good, IsFinal, PassesRecorded

LEMMA StoreReportInv ==
  ASSUME Inv, NEW b \in Batch, StoreReport(b)
  PROVE  Inv'
<1>0. TypeOK /\ BatchInv(b) /\ pc[b] = "store"
  BY DEF Inv, StoreReport
<1>1. /\ pc' = [pc EXCEPT ![b] = "publish"]
      /\ UNCHANGED <<local, report, mu, at, draft, caseRun, evidence, topology,
                     everComplete>>
      /\ stored[b] = Unborn
      /\ stored' \in {stored, [stored EXCEPT ![b] = draft[b]]}
  BY <1>0 DEF StoreReport, Goto, BatchInv, Kept
<1>2. stored'[b] \in {Unborn, draft[b]} /\ pc'[b] = "publish"
  BY <1>0, <1>1 DEF TypeOK
<1>3. TypeOK'
  <2>1. draft[b] \in Report \cup {Unborn}
    BY <1>0 DEF TypeOK
  <2> QED
    BY <1>0, <1>1, <2>1 DEF TypeOK, Phase, local
<1>4. Grows /\ (topology \subseteq everComplete)' /\ \A c \in Batch \ {b} : Untouched(c)
  BY <1>0, <1>1 DEF Inv, TypeOK, Grows, Untouched, local
<1>5. InMemory(b)' /\ NotBegun(b)' /\ InOrder(b)' /\ Exported(b)' /\ ItemRecorded(b)'
  BY <1>0, <1>1, <1>2
     DEF BatchInv, InMemory, NotBegun, InOrder, Exported, ItemRecorded, InCases, local
<1>6. StillOpen(b)'
  <2>1. PassesRecorded(b, report[b])'
    BY <1>0, <1>1 DEF BatchInv, StillOpen, Closing, PassesRecorded, Recorded, local
  <2> QED
    BY <1>0, <1>1, <2>1 DEF BatchInv, StillOpen, Closing, local
<1>7. Deciding(b)'
  <2>1. ASSUME NEW i \in DOMAIN plan[b], Proven(b, i)
        PROVE  Proven(b, i)'
    BY <1>1, <2>1 DEF Proven, Recorded, local
  <2> QED
    BY <1>0, <1>1, <1>2, <2>1
       DEF BatchInv, Deciding, Closing, IsFinal, Proven, Recorded, local
<1>8. Kept(b)'
  BY <1>1, <1>2 DEF Kept
<1> QED
  BY <1>3, <1>4, <1>5, <1>6, <1>7, <1>8, StepOfOne DEF BatchInv

LEMMA PublishInv ==
  ASSUME Inv, NEW b \in Batch, Publish(b)
  PROVE  Inv'
<1>0. TypeOK /\ BatchInv(b) /\ pc[b] = "publish"
  BY DEF Inv, Publish
<1>1. /\ pc' = [pc EXCEPT ![b] = "done"] /\ report' = [report EXCEPT ![b] = draft[b]]
      /\ mu' = NoBatch /\ UNCHANGED <<local, at, draft, store>>
  BY DEF Publish, Goto
<1>2. report'[b] = draft[b] /\ pc'[b] = "done"
  BY <1>0, <1>1 DEF TypeOK
<1>3. draft[b] \in Report /\ draft[b] # Unborn /\ Good(b, draft[b])
  BY <1>0, DraftGood, CaseBatchAssumption
<1>4. TypeOK'
  BY <1>0, <1>1, <1>3 DEF TypeOK, Phase, local, store
<1>5. Grows /\ (topology \subseteq everComplete)' /\ \A c \in Batch \ {b} : Untouched(c)
  BY <1>0, <1>1 DEF Inv, TypeOK, Grows, Untouched, local, store
<1>6. /\ InMemory(b)' /\ NotBegun(b)' /\ InOrder(b)' /\ Exported(b)' /\ ItemRecorded(b)'
      /\ StillOpen(b)' /\ Deciding(b)'
  BY <1>2, <1>3
     DEF InMemory, NotBegun, InOrder, Exported, ItemRecorded, StillOpen, Deciding,
         InCases, Closing
<1>7. Kept(b)'
  <2>1. Good(b, draft[b])'
    BY <1>1, <1>3 DEF Good, PassesRecorded, Proven, Recorded, local, store
  <2> QED
    BY <1>0, <1>1, <1>2, <2>1 DEF BatchInv, Kept, store
<1> QED
  BY <1>4, <1>5, <1>6, <1>7, StepOfOne DEF BatchInv

LEMMA StartInv ==
  ASSUME Inv, NEW b \in Batch, NEW runnable \in SUBSET Case, NEW ofWorkflow \in BOOLEAN,
         Start(b, runnable, ofWorkflow)
  PROVE  Inv'
<1>0. TypeOK /\ BatchInv(b) /\ pc[b] = "none"
  BY DEF Inv, Start
<1>1. PICK p \in Plans(runnable, ofWorkflow) :
        /\ p # <<>> /\ plan' = [plan EXCEPT ![b] = p]
        /\ report' = [report EXCEPT ![b] = Begun(p)]
  BY DEF Start
<1>2. /\ pc' = [pc EXCEPT ![b] = "execute"]
      /\ workflow' = [workflow EXCEPT ![b] = ofWorkflow]
      /\ UNCHANGED <<mu, at, item, exports, draft, store>>
  BY DEF Start, Goto
<1>3. /\ plan'[b] = p /\ report'[b] = Begun(p) /\ pc'[b] = "execute"
      /\ at'[b] = 1 /\ exports'[b] = {} /\ stored'[b] = Unborn
  BY <1>0, <1>1, <1>2 DEF TypeOK, BatchInv, NotBegun, store
<1>4. p \in Seq(Planned) /\ Len(p) \in 1..MaxCases
  <2>1. p \in Seq(Planned) /\ Len(p) <= MaxCases
    BY PlansTyped
  <2> QED
    BY <1>1, <2>1, CaseBatchAssumption
<1>5. /\ Begun(p) \in Report /\ Begun(p).status = "running" /\ ~ Begun(p).accepted
      /\ Len(Begun(p).cases) = Len(p)
      /\ DOMAIN Begun(p).cases = 1..Len(p)
      /\ \A i \in 1..Len(p) : Begun(p).cases[i] = "running"
  <2>1. /\ Begun(p) \in Report /\ Begun(p).status = "running" /\ ~ Begun(p).accepted
        /\ Len(Begun(p).cases) = Len(p)
        /\ \A i \in DOMAIN Begun(p).cases : Begun(p).cases[i] = "running"
    BY <1>4, BegunIsReport
  <2>2. Begun(p).cases \in Seq(Status)
    BY <2>1 DEF Report, Status
  <2>3. DOMAIN Begun(p).cases = 1..Len(p)
    BY <2>1, <2>2
  <2> QED
    BY <2>1, <2>3
<1>6. TypeOK'
  <2>1. \A c \in Batch : Len(plan'[c]) <= MaxCases
    BY <1>0, <1>1, <1>3, <1>4, CaseBatchAssumption DEF TypeOK
  <2> QED
    BY <1>0, <1>1, <1>2, <1>4, <1>5, <2>1 DEF TypeOK, Phase, store
<1>7. Grows /\ (topology \subseteq everComplete)' /\ \A c \in Batch \ {b} : Untouched(c)
  BY <1>0, <1>1, <1>2 DEF Inv, TypeOK, Grows, Untouched, store
<1>8. InMemory(b)' /\ NotBegun(b)' /\ ItemRecorded(b)' /\ Deciding(b)' /\ Kept(b)'
  BY <1>3, <1>5, CaseBatchAssumption
     DEF InMemory, NotBegun, ItemRecorded, Deciding, Kept, Closing
<1>9. StillOpen(b)' /\ InOrder(b)'
  BY <1>3, <1>4, <1>5 DEF StillOpen, InOrder, PassesRecorded, IsSettled
<1>10. Exported(b)'
  BY <1>3 DEF Exported
<1> QED
  BY <1>6, <1>7, <1>8, <1>9, <1>10, StepOfOne DEF BatchInv

LEMMA CollectAgainInv ==
  ASSUME Inv, NEW c \in CaseRun, NEW d \in CaseRun, NEW v \in {"partial", "complete"},
         CollectAgain(c, d, v)
  PROVE  Inv'
<1>1. TypeOK /\ topology \subseteq everComplete
  BY DEF Inv
<1>2. /\ topology' \subseteq everComplete' /\ everComplete' \subseteq CaseRun
      /\ everComplete \subseteq everComplete'
      /\ UNCHANGED <<local, report, mu, pc, at, draft, caseRun, evidence, stored>>
  BY <1>1 DEF CollectAgain, SaveTopology, TypeOK
<1>3. TypeOK' /\ Grows /\ \A b \in Batch : Untouched(b)
  BY <1>1, <1>2 DEF TypeOK, Grows, Untouched, local
<1>4. \A b \in Batch : BatchInv(b)'
  BY <1>3, Frame
<1> QED
  BY <1>2, <1>3, <1>4 DEF Inv

LEMMA CrashInv ==
  ASSUME Inv, Crash
  PROVE  Inv'
<1>0. TypeOK
  BY DEF Inv
<1>1. TypeOK' /\ (topology \subseteq everComplete)'
  BY <1>0 DEF Inv, Crash, TypeOK, Phase, local, store
<1>2. ASSUME NEW b \in Batch
      PROVE  BatchInv(b)'
  <2>0. BatchInv(b) /\ report'[b] = Unborn
        /\ pc'[b] = (IF pc[b] = "none" THEN "none" ELSE "lost")
        /\ UNCHANGED <<local, at, draft, store>>
    BY DEF Inv, Crash
  <2>1. /\ InMemory(b)' /\ InOrder(b)' /\ Exported(b)' /\ ItemRecorded(b)'
        /\ StillOpen(b)' /\ Deciding(b)'
    BY <2>0
       DEF InMemory, InOrder, Exported, ItemRecorded, StillOpen, Deciding, InCases, Closing
  <2>2. NotBegun(b)'
    BY <2>0 DEF BatchInv, NotBegun, local, store
  <2>3. ASSUME stored[b] # Unborn
        PROVE  pc[b] \in {"publish", "done", "lost"} /\ Good(b, stored[b])
    BY <2>0, <2>3, DraftGood DEF BatchInv, Kept
  <2>4. ASSUME stored[b] # Unborn
        PROVE  pc'[b] = "lost" /\ Good(b, stored[b])'
    BY <2>0, <2>3, <2>4 DEF Good, PassesRecorded, Proven, Recorded, local, store
  <2>5. Kept(b)'
    BY <2>0, <2>4 DEF Kept, store
  <2> QED
    BY <2>1, <2>2, <2>5 DEF BatchInv
<1> QED
  BY <1>1, <1>2 DEF Inv

\* Every step of the runner keeps the inductive invariant.
LEMMA NextInv == Inv /\ [Next]_vars => Inv'
<1> SUFFICES ASSUME Inv, [Next]_vars PROVE Inv'
  OBVIOUS
<1>1. CASE UNCHANGED vars
  BY <1>1
     DEF vars, store, Inv, TypeOK, BatchInv, InMemory, NotBegun, StillOpen, InOrder,
         ItemRecorded, Exported, Deciding, Kept, IsFinal, Good, PassesRecorded, Proven,
         Recorded, Current
<1>2. ASSUME NEW b \in Batch, NEW runnable \in SUBSET Case, NEW ofWorkflow \in BOOLEAN,
             Start(b, runnable, ofWorkflow)
      PROVE  Inv'
  BY <1>2, StartInv
<1>3. ASSUME NEW b \in Batch, Execute(b) \/ CaseStep(b) \/ FinishStep(b)
      PROVE  Inv'
  BY <1>3, ExecuteInv, RecordCaseRunInv, IndexCaseRunInv, CollectTraceInv, UpdateCaseInv,
     FinishInv, AcceptCaseInv, CheckHealthInv, StoreReportInv, PublishInv
     DEF CaseStep, FinishStep
<1>4. ASSUME NEW c \in CaseRun, NEW d \in CaseRun, NEW v \in {"partial", "complete"},
             CollectAgain(c, d, v)
      PROVE  Inv'
  BY <1>4, CollectAgainInv
<1>5. CASE Crash
  BY <1>5, CrashInv
<1> QED
  BY <1>1, <1>2, <1>3, <1>4, <1>5 DEF Next

-----------------------------------------------------------------------------
(* Theorems.                                                               *)

\* The inductive invariant holds in every reachable state.
THEOREM Invariance == Spec => []Inv
<1> QED
  BY InitInv, NextInv, PTL DEF Spec

\* Every variable has its type, for any workflow, selections and batches.
THEOREM TypeCorrect == Spec => []TypeOK
<1>1. Inv => TypeOK
  BY DEF Inv
<1> QED
  BY <1>1, Invariance, PTL

\* What a client is shown is an open report in memory or a kept one.
LEMMA ViewIsKnown ==
  ASSUME Inv, NEW b \in Batch, Visible(b)
  PROVE  /\ PassesRecorded(b, View(b)) /\ Len(View(b).cases) = Len(plan[b])
         /\ View(b).accepted => Good(b, View(b))
<1>0. BatchInv(b) /\ pc[b] \in Phase
  BY DEF Inv, TypeOK
<1>1. CASE report[b] # Unborn
  <2>1. View(b) = report[b] /\ pc[b] \notin {"none", "lost"}
    BY <1>0, <1>1 DEF View, BatchInv, InMemory
  <2>2. CASE pc[b] = "done"
    BY <1>0, <2>1, <2>2 DEF BatchInv, Kept, Good
  <2>3. CASE pc[b] # "done"
    BY <1>0, <2>1, <2>3 DEF BatchInv, StillOpen, Phase, InCases, Closing
  <2> QED
    BY <2>2, <2>3
<1>2. CASE report[b] = Unborn
  <2>1. View(b) = stored[b] /\ stored[b] # Unborn
    BY <1>2 DEF Visible, View
  <2>2. Good(b, stored[b])
    BY <1>0, <1>2, <2>1 DEF BatchInv, InMemory, Kept
  <2> QED
    BY <2>1, <2>2 DEF Good
<1> QED
  BY <1>1, <1>2

\* A case shown as passed is a passed case run with its evidence in the Store,
\* whatever Store calls fail and whenever the control plane stops.
THEOREM PassedCasesAreRecorded == Spec => []PassedIsRecorded
<1>1. Inv => PassedIsRecorded
  BY ViewIsKnown DEF PassedIsRecorded, PassesRecorded, Recorded
<1> QED
  BY <1>1, Invariance, PTL

\* An accepted report is about the workflow, and each of its cases passed, has
\* its evidence and has had a complete topology row.
THEOREM AcceptedReportsAreProven == Spec => []AcceptedIsProven
<1>1. Inv => AcceptedIsProven
  BY ViewIsKnown DEF AcceptedIsProven, Good, Proven, Recorded
<1> QED
  BY <1>1, Invariance, PTL

\* A case is sent with the exports of the earlier passed cases and no others.
THEOREM ExportsOfPassedCases == Spec => []ExportsArePassed
<1>1. Inv => ExportsArePassed
  BY DEF Inv, BatchInv, Exported, InCases, ExportsArePassed
<1> QED
  BY <1>1, Invariance, PTL

-----------------------------------------------------------------------------
(* The batch runner implements BatchReport: what clients are shown changes *)
(* only as they may expect.                                                *)


\* The views change for b only, and from old to new.
Turns(b, old, new) ==
  /\ View(b) = old /\ View(b)' = new
  /\ \A c \in Batch \ {b} : View(c)' = View(c)

LEMMA ViewInit == Init => Client!Init
<1> SUFFICES ASSUME Init PROVE Client!Init
  OBVIOUS
<1>1. \A b \in Batch : View(b) = Unborn
  BY DEF Init, View
<1> QED
  BY <1>1 DEF Client!Init, Shown

\* A view depends on two variables and on whether the batch was lost.
LEMMA ViewStays ==
  ASSUME NEW b \in Batch, report'[b] = report[b],
         report[b] = Unborn => stored'[b] = stored[b] /\ pc'[b] = pc[b]
  PROVE  View(b)' = View(b)
BY DEF View

LEMMA TurnOnly ==
  ASSUME NEW b \in Batch, NEW old, NEW new, Turns(b, old, new)
  PROVE  /\ Client!Only(b) /\ Shown[b] = old /\ Shown'[b] = new
         /\ Shown' = [Shown EXCEPT ![b] = new]
<1>1. /\ Shown = [c \in Batch |-> View(c)] /\ Shown' = [c \in Batch |-> View(c)']
      /\ View(b) = old /\ View(b)' = new
      /\ \A c \in Batch \ {b} : View(c)' = View(c)
  BY DEF Turns, Shown
<1>2. Shown' = [Shown EXCEPT ![b] = new]
  BY <1>1
<1> QED
  BY <1>1, <1>2 DEF Client!Only

LEMMA StartAppears ==
  ASSUME Inv, Inv', NEW b \in Batch, NEW runnable \in SUBSET Case,
         NEW ofWorkflow \in BOOLEAN, Start(b, runnable, ofWorkflow)
  PROVE  Client!Appear(b)
<1>0. TypeOK /\ BatchInv(b) /\ pc[b] = "none"
  BY DEF Inv, Start
<1>1. PICK p \in Plans(runnable, ofWorkflow) :
        /\ p # <<>> /\ report' = [report EXCEPT ![b] = Begun(p)]
  BY DEF Start
<1>2. p \in Seq(Planned) /\ Len(p) > 0
  BY <1>1, PlansTyped
<1>3. /\ Begun(p) \in Report /\ Begun(p).status = "running" /\ ~ Begun(p).accepted
      /\ Len(Begun(p).cases) > 0
      /\ \A i \in DOMAIN Begun(p).cases : Begun(p).cases[i] = "running"
  BY <1>2, BegunIsReport
<1>4. Begun(p) \notin {Unborn, Gone}
  BY <1>3, CaseBatchAssumption
<1>5. Turns(b, Unborn, Begun(p))
  <2>1. report[b] = Unborn /\ stored[b] = Unborn /\ report'[b] = Begun(p)
    BY <1>0, <1>1 DEF BatchInv, InMemory, NotBegun, TypeOK
  <2>2. View(b) = Unborn /\ View(b)' = Begun(p)
    BY <1>0, <1>4, <2>1 DEF View
  <2>3. ASSUME NEW c \in Batch \ {b} PROVE View(c)' = View(c)
    BY <1>0, <1>1, ViewStays DEF Start, Goto, TypeOK, store
  <2> QED
    BY <2>2, <2>3 DEF Turns
<1>6. Client!Only(b) /\ Shown[b] = Unborn /\ Shown'[b] = Begun(p)
  BY <1>5, TurnOnly
<1> QED
  BY <1>3, <1>4, <1>6 DEF Client!Appear, Client!Open

LEMMA UpdateSettles ==
  ASSUME Inv, NEW b \in Batch, UpdateCase(b)
  PROVE  Client!Settle(b)
<1> DEFINE i == at[b]
           new == WithCase(report[b], i, item[b])
<1>0. TypeOK /\ BatchInv(b) /\ pc[b] = "update"
  BY DEF Inv, UpdateCase
<1>1. /\ report[b] \in Report /\ report[b].status = "running"
      /\ i \in DOMAIN report[b].cases /\ item[b] \in {"passed", "failed"}
      /\ \A j \in DOMAIN report[b].cases :
           j < i <=> report[b].cases[j] \in {"passed", "failed"}
  BY <1>0, Shape DEF BatchInv, InCases, StillOpen, InOrder, IsSettled, TypeOK
<1>2. new \in Report
  BY <1>1, WithCaseIsReport
<1>3. report[b] \notin {Unborn, Gone} /\ new \notin {Unborn, Gone}
  BY <1>1, <1>2, CaseBatchAssumption
<1>4. new = [report[b] EXCEPT !.cases = [report[b].cases EXCEPT ![i] = item[b]]]
  BY <1>1 DEF WithCase, Report
<1>5. Turns(b, report[b], new)
  <2>1. report' = [report EXCEPT ![b] = new]
    BY DEF UpdateCase
  <2>2. View(b) = report[b] /\ View(b)' = new
    BY <1>0, <1>3, <2>1 DEF View, TypeOK
  <2>3. ASSUME NEW c \in Batch \ {b} PROVE View(c)' = View(c)
    BY <1>0, <2>1, ViewStays DEF UpdateCase, Goto, TypeOK, store
  <2> QED
    BY <2>2, <2>3 DEF Turns
<1>6. Shown[b] = report[b] /\ Shown' = [Shown EXCEPT ![b] = new]
  BY <1>5, TurnOnly
<1>7. Shown' = [Shown EXCEPT ![b].cases[i] = item[b]]
  BY <1>4, <1>6
<1> QED
  BY <1>1, <1>3, <1>6, <1>7 DEF Client!Settle, Client!Open, Client!Settled

\* What finish() publishes or stores is a final form of the open report.
LEMMA DraftIsFinal ==
  ASSUME Inv, NEW b \in Batch, pc[b] = "publish"
  PROVE  /\ Client!FinalForm(report[b], draft[b])
         /\ report[b] \notin {Unborn, Gone} /\ draft[b] \notin {Unborn, Gone}
<1>0. BatchInv(b) /\ TypeOK
  BY DEF Inv
<1>1. /\ draft[b] \in Report /\ draft[b].status # "running" /\ IsFinal(b, draft[b])
      /\ report[b] \in Report /\ report[b].status = "running"
      /\ \A i \in DOMAIN report[b].cases : IsSettled(report[b].cases[i])
  BY <1>0, DraftGood, Shape DEF Good, BatchInv, Deciding, StillOpen, Closing
<1>2. report[b] \notin {Unborn, Gone} /\ draft[b] \notin {Unborn, Gone}
  BY <1>1, CaseBatchAssumption
<1>3. draft[b].accepted => draft[b].status = "passed"
  BY <1>1 DEF IsFinal, AllPassed, SomeFailed
<1>4. draft[b].status = IF \E i \in DOMAIN report[b].cases : report[b].cases[i] = "failed"
                        THEN "failed" ELSE "passed"
  BY <1>1 DEF IsFinal, SomeFailed
<1> QED
  BY <1>1, <1>2, <1>3, <1>4
     DEF Client!FinalForm, Client!Open, Client!Settled, IsFinal, IsSettled

LEMMA PublishCloses ==
  ASSUME Inv, NEW b \in Batch, Publish(b)
  PROVE  Client!Close(b)
<1>0. TypeOK /\ pc[b] = "publish"
  BY DEF Inv, Publish
<1>1. /\ Client!FinalForm(report[b], draft[b])
      /\ report[b] \notin {Unborn, Gone} /\ draft[b] \notin {Unborn, Gone}
  BY <1>0, DraftIsFinal
<1>2. Turns(b, report[b], draft[b])
  <2>1. report' = [report EXCEPT ![b] = draft[b]]
    BY DEF Publish
  <2>2. View(b) = report[b] /\ View(b)' = draft[b]
    BY <1>0, <1>1, <2>1 DEF View, TypeOK
  <2>3. ASSUME NEW c \in Batch \ {b} PROVE View(c)' = View(c)
    BY <1>0, <2>1, ViewStays DEF Publish, Goto, TypeOK, store
  <2> QED
    BY <2>2, <2>3 DEF Turns
<1>3. Client!Only(b) /\ Shown[b] = report[b] /\ Shown'[b] = draft[b]
  BY <1>2, TurnOnly
<1> QED
  BY <1>1, <1>3 DEF Client!Close

LEMMA CrashRestarts ==
  ASSUME Inv, Crash
  PROVE  Client!Restart
<1>1. ASSUME NEW b \in Batch
      PROVE  \/ View(b) \notin {Unborn, Gone} /\ View(b)' = Gone
             \/ ~ Client!Open(View(b)) /\ View(b)' = View(b)
             \/ Client!FinalForm(View(b), View(b)')
  <2>0. /\ BatchInv(b) /\ TypeOK /\ stored' = stored /\ report'[b] = Unborn
        /\ pc'[b] = IF pc[b] = "none" THEN "none" ELSE "lost"
    BY DEF Inv, Crash, store
  <2>1. CASE pc[b] = "none"
    <3>1. View(b) = Unborn /\ View(b)' = Unborn
      BY <2>0, <2>1 DEF View, BatchInv, InMemory, NotBegun
    <3> QED
      BY <3>1 DEF Client!Open
  <2>2. CASE pc[b] = "lost"
    <3>1. View(b)' = View(b)
      BY <2>0, <2>2 DEF View, BatchInv, InMemory
    <3>2. ~ Client!Open(View(b))
      BY <2>0, <2>2 DEF View, BatchInv, InMemory, Kept, Good, Client!Open
    <3> QED
      BY <3>1, <3>2
  <2>3. CASE pc[b] \notin {"none", "lost"}
    <3>1. report[b] # Unborn /\ report[b] # Gone /\ View(b) = report[b]
      BY <2>0, <2>3, CaseBatchAssumption DEF View, BatchInv, InMemory, TypeOK
    <3>2. CASE stored[b] = Unborn
      BY <2>0, <2>3, <3>1, <3>2 DEF View
    <3>3. CASE stored[b] # Unborn
      <4>1. View(b)' = stored[b]
        BY <2>0, <3>3 DEF View
      <4>2. CASE pc[b] = "publish"
        BY <2>0, <3>1, <3>3, <4>1, <4>2, DraftIsFinal DEF BatchInv, Kept
      <4>3. CASE pc[b] = "done"
        BY <2>0, <3>1, <3>3, <4>1, <4>3 DEF BatchInv, Kept, Good, Client!Open
      <4> QED
        BY <2>0, <2>3, <3>3, <4>2, <4>3 DEF BatchInv, Kept
    <3> QED
      BY <3>2, <3>3
  <2> QED
    BY <2>1, <2>2, <2>3
<1>2. Shown = [b \in Batch |-> View(b)] /\ Shown' = [b \in Batch |-> View(b)']
  BY DEF Shown
<1> QED
  BY <1>1, <1>2 DEF Client!Restart

\* The other steps change no view.
LEMMA OthersHide ==
  ASSUME Inv, NEW b \in Batch,
         Execute(b) \/ RecordCaseRun(b) \/ IndexCaseRun(b) \/ CollectTrace(b)
           \/ Finish(b) \/ AcceptCase(b) \/ CheckHealth(b) \/ StoreReport(b)
  PROVE  Shown' = Shown
<1>1. TypeOK /\ report' = report /\ report[b] # Unborn
  BY DEF Inv, TypeOK, BatchInv, InMemory, Execute, RecordCaseRun, IndexCaseRun,
         CollectTrace, Finish, AcceptCase, CheckHealth, StoreReport
<1>2. ASSUME NEW c \in Batch \ {b} PROVE stored'[c] = stored[c] /\ pc'[c] = pc[c]
  BY <1>1 DEF TypeOK, Execute, RecordCaseRun, IndexCaseRun, CollectTrace, Finish,
              AcceptCase, CheckHealth, StoreReport, Goto, store
<1>3. \A c \in Batch : View(c)' = View(c)
  BY <1>1, <1>2, ViewStays
<1> QED
  BY <1>3 DEF Shown

LEMMA ClientNext ==
  ASSUME Inv, Inv', [Next]_vars
  PROVE  [Client!Next]_Shown
<1>1. CASE UNCHANGED vars
  BY <1>1 DEF vars, store, Shown, View
<1>2. ASSUME NEW b \in Batch, NEW runnable \in SUBSET Case, NEW ofWorkflow \in BOOLEAN,
             Start(b, runnable, ofWorkflow)
      PROVE  [Client!Next]_Shown
  BY <1>2, StartAppears DEF Client!Next
<1>3. ASSUME NEW b \in Batch, UpdateCase(b)
      PROVE  [Client!Next]_Shown
  BY <1>3, UpdateSettles DEF Client!Next
<1>4. ASSUME NEW b \in Batch, Publish(b)
      PROVE  [Client!Next]_Shown
  BY <1>4, PublishCloses DEF Client!Next
<1>5. CASE Crash
  BY <1>5, CrashRestarts DEF Client!Next
<1>6. ASSUME NEW c \in CaseRun, NEW d \in CaseRun, NEW v \in {"partial", "complete"},
             CollectAgain(c, d, v)
      PROVE  [Client!Next]_Shown
  BY <1>6 DEF CollectAgain, Shown, View
<1> QED
  BY <1>1, <1>2, <1>3, <1>4, <1>5, <1>6, OthersHide DEF Next, CaseStep, FinishStep

\* Clients that poll see cases settle in order and then one verdict that stays,
\* whatever goroutines, Store errors and restarts do underneath.
THEOREM BatchesImplementReport == Spec => ClientSpec
<1>1. Inv /\ Inv' /\ [Next]_vars => [Client!Next]_Shown
  BY ClientNext
<1> QED
  BY ViewInit, Invariance, <1>1, PTL DEF Spec, ClientSpec, Client!Spec
=============================================================================
