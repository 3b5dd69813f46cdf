------------------------- MODULE CheckPointAbstract -------------------------
(***************************************************************************)
(* What the epoch barrier of checkpoint.hpp promises its users, with every *)
(* step atomic and no RCU, no compare-exchange and no thread identities:  *)
(*   - I/O enters an epoch that is still accepting entries and later      *)
(*     leaves it;                                                           *)
(*   - one checkpoint at a time closes the current epoch, publishes a     *)
(*     fresh one, and seals the closed one against late entries;          *)
(*   - a sealed epoch is handed to the flush, once, only when nobody is   *)
(*     inside it, and is deleted after the flush, again with nobody in it.*)
(* Epoch states keep the names of cp_status_t.                            *)
(***************************************************************************)
EXTENDS Naturals

CONSTANTS
  CpIds,
  Fresh     \* entries a new epoch is created with (its own reference)

VARIABLES
  epoch,    \* the state of each epoch object ("free": not allocated)
  holders,  \* how many entries of each epoch have not left it yet
  current,  \* the epoch new I/O enters
  handed    \* how many times each epoch was handed to the flush

avars == <<epoch, holders, current, handed>>

\* An epoch owned by a checkpoint: between its close and its deletion.
InCheckpoint(i) == epoch[i] \in {"trigger", "prepare", "start"}

AInit ==
  \E c0 \in CpIds :
    /\ epoch = [i \in CpIds |-> IF i = c0 THEN "io_ready" ELSE "free"]
    /\ holders = [i \in CpIds |-> IF i = c0 THEN Fresh ELSE 0]
    /\ current = c0
    /\ handed = [i \in CpIds |-> 0]

\* An entry into an epoch that is still open, or closed but not sealed.
Enter(i) ==
  /\ epoch[i] \in {"io_ready", "trigger"}
  /\ holders' = [holders EXCEPT ![i] = @ + 1]
  /\ UNCHANGED <<epoch, current, handed>>

\* Handing a sealed epoch to the flush (its callers see that it is left
\* empty).
Hand(i) ==
  /\ epoch[i] = "prepare" /\ handed[i] = 0
  /\ epoch' = [epoch EXCEPT ![i] = "start"]
  /\ handed' = [handed EXCEPT ![i] = 1]

\* Leaving an epoch; the last one out of a sealed epoch may hand it over
\* in the same step.
Leave(i) ==
  /\ holders[i] > 0
  /\ holders' = [holders EXCEPT ![i] = @ - 1]
  /\ \/ UNCHANGED <<epoch, handed>>
     \/ holders[i] = 1 /\ Hand(i)
  /\ UNCHANGED current

Flush(i) ==
  /\ holders[i] = 0
  /\ Hand(i)
  /\ UNCHANGED <<holders, current>>

\* Closing the current epoch; no other checkpoint is under way.
Close ==
  /\ epoch[current] = "io_ready"
  /\ \A i \in CpIds : ~InCheckpoint(i)
  /\ epoch' = [epoch EXCEPT ![current] = "trigger"]
  /\ UNCHANGED <<holders, current, handed>>

\* Publishing a fresh epoch in place of the closed one.
Publish ==
  /\ epoch[current] = "trigger"
  /\ \E n \in CpIds :
       /\ epoch[n] = "free"
       /\ epoch' = [epoch EXCEPT ![n] = "io_ready"]
       /\ holders' = [holders EXCEPT ![n] = Fresh]
       /\ current' = n
  /\ UNCHANGED handed

\* Sealing a closed epoch that is no longer current: no entry after this.
Seal(i) ==
  /\ epoch[i] = "trigger" /\ current # i
  /\ epoch' = [epoch EXCEPT ![i] = "prepare"]
  /\ UNCHANGED <<holders, current, handed>>

\* Deleting a flushed epoch that nobody is inside.
Delete(i) ==
  /\ epoch[i] = "start" /\ handed[i] = 1 /\ holders[i] = 0
  /\ epoch' = [epoch EXCEPT ![i] = "free"]
  /\ handed' = [handed EXCEPT ![i] = 0]
  /\ UNCHANGED <<holders, current>>

ANext ==
  \/ Close \/ Publish
  \/ \E i \in CpIds : Enter(i) \/ Leave(i) \/ Flush(i) \/ Seal(i) \/ Delete(i)

\* Once closed, an epoch is sealed, flushed and deleted: every entry of
\* a closed epoch leaves it, and the checkpoint machinery does not stall.
AFairness ==
  /\ WF_avars(Publish)
  /\ \A i \in CpIds : /\ WF_avars(InCheckpoint(i) /\ Leave(i)) /\ WF_avars(Seal(i))
                      /\ WF_avars(Flush(i)) /\ WF_avars(Delete(i))

ASpec == AInit /\ [][ANext]_avars /\ AFairness

=============================================================================
