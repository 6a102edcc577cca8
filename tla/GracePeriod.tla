---------------------------- MODULE GracePeriod ----------------------------
(***************************************************************************)
(* What `Cslab` asks of whoever calls finalize_remove(), and what RcuCslab *)
(* promises: the slot of a removed item is recycled only when no reader    *)
(* that may still see its flag set is left.  How readers are told of a     *)
(* removal, and how their departure is noticed, is left open.              *)
(***************************************************************************)
CONSTANTS
  Slots,        \* indexes of the slab
  Readers       \* read handles

VARIABLES
  life,         \* life[i]: "free", "present" or "marked" (removal not finalized)
  active,       \* the readers that exist
  blocks        \* blocks[r]: removed slots that r may still see as present

gpVars == <<life, active, blocks>>

GPInit ==
  /\ life = [i \in Slots |-> "free"]
  /\ active = {}
  /\ blocks = [r \in Readers |-> {}]

\* A slot can be filled only when it was recycled.
Fill(i) ==
  /\ life[i] = "free"
  /\ life' = [life EXCEPT ![i] = "present"]
  /\ UNCHANGED <<active, blocks>>

\* Removal: every reader there is may go on seeing the item.
Mark(i) ==
  /\ life[i] = "present"
  /\ life' = [life EXCEPT ![i] = "marked"]
  /\ blocks' = [r \in Readers |-> IF r \in active THEN blocks[r] \cup {i} ELSE {}]
  /\ UNCHANGED active

\* A reader that synchronizes with the writer has seen every removal so far.
Enter(r) ==
  /\ r \notin active
  /\ active' = active \cup {r}
  /\ UNCHANGED <<life, blocks>>

\* A reader made from another one has seen what that one has.
Clone(r, s) ==
  /\ r \in active
  /\ s \notin active
  /\ active' = active \cup {s}
  /\ blocks' = [blocks EXCEPT ![s] = blocks[r]]
  /\ UNCHANGED life

Exit(r) ==
  /\ r \in active
  /\ active' = active \ {r}
  /\ blocks' = [blocks EXCEPT ![r] = {}]
  /\ UNCHANGED life

\* "It must be known that there will be no further reads of this index."
Recycle(i) ==
  /\ life[i] = "marked"
  /\ \A r \in active : i \notin blocks[r]
  /\ life' = [life EXCEPT ![i] = "free"]
  /\ UNCHANGED <<active, blocks>>

GPNext ==
  \/ \E i \in Slots : Fill(i) \/ Mark(i) \/ Recycle(i)
  \/ \E r \in Readers : Enter(r) \/ Exit(r) \/ \E s \in Readers : Clone(r, s)

GPSpec == GPInit /\ [][GPNext]_gpVars
============================================================================
