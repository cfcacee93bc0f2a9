--------------------------- MODULE DeliveryLedger ---------------------------
(* What a batch processor owes its records: each is accepted at most once and *)
(* only while the processor is open, waits, is sent at most once in a batch   *)
(* that is the only one under way, and ends answered or lost, for good.       *)
CONSTANT Records     \* the records that may be submitted

VARIABLES fate,      \* per record: future, queued, sending, answered or lost
          open       \* does the processor accept records?

ledger == <<fate, open>>

With(f) == {r \in Records : fate[r] = f}
Move(S, f) == fate' = [r \in Records |-> IF r \in S THEN f ELSE fate[r]]

Init == /\ fate = [r \in Records |-> "future"]
        /\ open = TRUE

\* New records are queued; to make room, waiting or new ones are lost.
Accept(new, evicted) ==
  /\ open
  /\ new # {}
  /\ fate' = [r \in Records |-> IF r \in evicted THEN "lost"
                               ELSE IF r \in new THEN "queued" ELSE fate[r]]
  /\ UNCHANGED open

\* A batch of waiting records is sent, when no other one is.
Send(S) == /\ S # {}
           /\ With("sending") = {}
           /\ Move(S, "sending")
           /\ UNCHANGED open

\* The whole batch under way is answered, or is lost; it is never requeued.
Settle == /\ With("sending") # {}
          /\ \E f \in {"answered", "lost"} : Move(With("sending"), f)
          /\ UNCHANGED open

\* No record is accepted any more; those accepted are still owed an end.
Close == /\ open' = FALSE
         /\ UNCHANGED fate

Next == \/ \E new \in SUBSET With("future") :
             \E evicted \in SUBSET (With("queued") \union new) : Accept(new, evicted)
        \/ \E S \in SUBSET With("queued") : Send(S)
        \/ Settle
        \/ Close

Spec == Init /\ [][Next]_ledger
=============================================================================
