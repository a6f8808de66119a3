---------------------------- MODULE BatchReport ----------------------------
(***************************************************************************)
(* What a client sees that polls the report of a batch run, with no        *)
(* goroutine, mutex, Store or evidence: the cases settle one by one in     *)
(* their order, then the verdict comes, and it stays.  A restart of the    *)
(* control plane may take a report away for good, or leave its final form. *)
(***************************************************************************)
EXTENDS Naturals, Sequences

CONSTANTS Batch, Unborn, Gone

VARIABLE shown   \* what the client gets for each batch run

Settled == {"passed", "failed"}

Init == shown = [b \in Batch |-> Unborn]

Open(rep) == rep \notin {Unborn, Gone} /\ rep.status = "running"

\* Only what is shown for b may change.
Only(b) == DOMAIN shown' = Batch /\ \A c \in Batch \ {b} : shown'[c] = shown[c]

Appear(b) ==
  /\ shown[b] = Unborn /\ Only(b)
  /\ Open(shown'[b]) /\ ~ shown'[b].accepted
  /\ Len(shown'[b].cases) > 0
  /\ \A i \in DOMAIN shown'[b].cases : shown'[b].cases[i] = "running"

\* The next case in order gets its status.
Settle(b) ==
  /\ Open(shown[b])
  /\ \E i \in DOMAIN shown[b].cases, s \in Settled :
       /\ \A j \in DOMAIN shown[b].cases :
            (j < i) <=> (shown[b].cases[j] \in Settled)
       /\ shown' = [shown EXCEPT ![b].cases[i] = s]

\* new is a final form of rep: failed iff a case failed, and accepted only
\* when every case passed.
FinalForm(rep, new) ==
  /\ Open(rep) /\ ~ Open(new) /\ new \notin {Unborn, Gone}
  /\ new.cases = rep.cases
  /\ \A i \in DOMAIN rep.cases : rep.cases[i] \in Settled
  /\ new.status = IF \E i \in DOMAIN rep.cases : rep.cases[i] = "failed"
                  THEN "failed" ELSE "passed"
  /\ new.accepted => new.status = "passed"

Close(b) == Only(b) /\ FinalForm(shown[b], shown'[b])

Restart ==
  /\ DOMAIN shown' = Batch
  /\ \A b \in Batch :
       \/ shown[b] \notin {Unborn, Gone} /\ shown'[b] = Gone
       \/ ~ Open(shown[b]) /\ shown'[b] = shown[b]
       \/ FinalForm(shown[b], shown'[b])

Next ==
  \/ \E b \in Batch : Appear(b) \/ Settle(b) \/ Close(b)
  \/ Restart

Spec == Init /\ [][Next]_shown
=============================================================================
