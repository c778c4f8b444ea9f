------------------------ MODULE ConsumerGroupProofs ------------------------
(***************************************************************************)
(* For any number of readers, messages, rebalances and failures: only      *)
(* messages whose handler failed are ever skipped, and messages are tried  *)
(* in order.                                                               *)
(***************************************************************************)
EXTENDS ConsumerGroup, TLAPS

(* What a reader knows.  While it fetches as the owner of the partition,   *)
(* everything below its next offset was tried.  With a message in hand,    *)
(* everything below that one was; its next offset is then the one after,   *)
(* or a committed offset that a rebalance gave it meanwhile.               *)
ReaderInv(r) ==
  /\ pc[r] = "fetch" /\ owner = r => TriedBelow(next[r])
  /\ pc[r] = "handle" => /\ current[r] \in Offsets \ Skipped
                         /\ TriedBelow(current[r])
                         /\ TriedBelow(next[r]) \/ next[r] = current[r] + 1
  /\ pc[r] = "commit" => /\ current[r] \in Offsets
                         /\ TriedBelow(current[r] + 1)
                         /\ TriedBelow(next[r])

IInv == /\ TypeOK
        /\ OnlyFailuresSkipped
        /\ TriedInOrder
        /\ \A r \in Readers : ReaderInv(r)

(***************************************************************************)
(* TriedBelow is monotone in the messages tried and antitone in the bound. *)
(***************************************************************************)
LEMMA TriedGrows ==
  ASSUME NEW n \in Int, TriedBelow(n),
         handled \subseteq handled', failed \subseteq failed'
  PROVE  TriedBelow(n)'
BY DEF TriedBelow, Offsets

LEMMA TriedShrinks ==
  ASSUME NEW n \in Int, NEW m \in Int, m <= n, TriedBelow(n)
  PROVE  TriedBelow(m)
BY DEF TriedBelow, Offsets

LEMMA TriedStep ==
  ASSUME NEW i \in Offsets, TriedBelow(i), i \in handled \cup failed \cup Skipped
  PROVE  TriedBelow(i + 1)
BY DEF TriedBelow, Offsets

LEMMA InitOk == Init => IInv
BY PartitionAssumption, ReadersAssumption
   DEF Init, IInv, TypeOK, OnlyFailuresSkipped, TriedInOrder, ReaderInv, TriedBelow,
       Offsets

(* Types, step by step.                                                    *)
LEMMA TypeStep ==
  ASSUME IInv, [Next]_vars
  PROVE  TypeOK'
<1> USE PartitionAssumption, ReadersAssumption DEF TypeOK, Offsets
<1>1. ASSUME NEW r \in Readers, Rebalance(r) PROVE TypeOK'
  BY <1>1 DEF IInv, Rebalance, Fault
<1>2. ASSUME NEW r \in Readers, FetchMessage(r) PROVE TypeOK'
  BY <1>2 DEF IInv, FetchMessage, Goto
<1>3. ASSUME NEW r \in Readers, Handle(r) PROVE TypeOK'
  BY <1>3 DEF IInv, ReaderInv, Handle, Goto
<1>4. ASSUME NEW r \in Readers, HandleFails(r) PROVE TypeOK'
  <2>1. current[r] \in Offsets \ Skipped
    BY <1>4 DEF IInv, ReaderInv, HandleFails
  <2>2. handled' \subseteq Offsets \ Skipped /\ failed' \subseteq Offsets \ Skipped
    BY <1>4, <2>1 DEF IInv, HandleFails
  <2> QED
    BY <1>4, <2>2 DEF IInv, HandleFails, Goto, Fault
<1>5. ASSUME NEW r \in Readers, CommitMessages(r) PROVE TypeOK'
  BY <1>5 DEF IInv, ReaderInv, CommitMessages, Goto
<1>6. ASSUME NEW r \in Readers, CommitFails(r) PROVE TypeOK'
  BY <1>6 DEF IInv, ReaderInv, CommitFails, Goto, Fault
<1>7. ASSUME NEW r \in Readers, Crash(r) PROVE TypeOK'
  BY <1>7 DEF IInv, Crash, Goto, Fault
<1>8. CASE UNCHANGED vars
  BY <1>8 DEF IInv, vars
<1> QED
  BY <1>1, <1>2, <1>3, <1>4, <1>5, <1>6, <1>7, <1>8 DEF Next, Run

(* The messages tried only grow, so what was known of them stays known.    *)
LEMMA Grow ==
  ASSUME TypeOK, [Next]_vars
  PROVE  handled \subseteq handled' /\ failed \subseteq failed'
BY DEF Next, Run, vars, Rebalance, FetchMessage, Handle, HandleFails, CommitMessages,
       CommitFails, Crash

LEMMA CommittedStep ==
  ASSUME IInv, [Next]_vars
  PROVE  OnlyFailuresSkipped'
<1>0. committed \in Int /\ handled \subseteq handled' /\ failed \subseteq failed'
  BY Grow, PartitionAssumption DEF IInv, TypeOK
<1>1. ASSUME committed' = committed PROVE OnlyFailuresSkipped'
  BY <1>0, <1>1, TriedGrows DEF IInv, OnlyFailuresSkipped
<1>2. ASSUME NEW r \in Readers, pc[r] = "commit", committed' = current[r] + 1
      PROVE  OnlyFailuresSkipped'
  <2>1. current[r] + 1 \in Int /\ TriedBelow(current[r] + 1)
    BY <1>2, PartitionAssumption DEF IInv, ReaderInv, Offsets
  <2>2. \A i \in Offsets : i < current[r] + 1 => i \in (handled \cup failed \cup Skipped)'
    BY <2>1, <1>0 DEF TriedBelow, Offsets
  <2> QED
    BY <1>2, <2>2 DEF OnlyFailuresSkipped, TriedBelow, Offsets
<1> QED
  BY <1>1, <1>2
  DEF Next, Run, vars, Rebalance, FetchMessage, Handle, HandleFails, CommitMessages,
      CommitFails, Crash

LEMMA OrderStep ==
  ASSUME IInv, [Next]_vars
  PROVE  TriedInOrder'
<1>0. handled \subseteq handled' /\ failed \subseteq failed'
  BY Grow DEF IInv
<1>1. ASSUME NEW i \in Offsets, TriedBelow(i) PROVE TriedBelow(i)'
  BY <1>0, <1>1, TriedGrows DEF Offsets
<1>2. handled \cup failed \subseteq Offsets
  BY DEF IInv, TypeOK
<1>3. ASSUME handled' = handled, failed' = failed PROVE TriedInOrder'
  BY <1>1, <1>2, <1>3 DEF IInv, TriedInOrder
<1>4. ASSUME NEW r \in Readers, pc[r] = "handle",
             (handled \cup failed)' = handled \cup failed \cup {current[r]}
      PROVE  TriedInOrder'
  BY <1>1, <1>2, <1>4 DEF IInv, ReaderInv, TriedInOrder
<1> QED
  BY <1>3, <1>4
  DEF Next, Run, vars, Rebalance, FetchMessage, Handle, HandleFails, CommitMessages,
      CommitFails, Crash
(* What each reader knows, step by step.                                   *)
LEMMA ReaderStep ==
  ASSUME IInv, [Next]_vars, NEW q \in Readers
  PROVE  ReaderInv(q)'
<1>0. /\ committed \in Int
      /\ \A r \in Readers : next[r] \in Int /\ current[r] \in Int
      /\ pc \in [Readers -> {"fetch", "handle", "commit"}]
      /\ next \in [Readers -> 0..Length] /\ current \in [Readers -> 0..Length]
  BY PartitionAssumption DEF IInv, TypeOK
<1>1. \A n \in Int : TriedBelow(n) => TriedBelow(n)'
  BY Grow, TriedGrows DEF IInv
<1>2. ASSUME UNCHANGED <<next[q], current[q], pc[q]>>, owner' = q => owner = q
      PROVE  ReaderInv(q)'
  BY <1>0, <1>1, <1>2 DEF IInv, ReaderInv
<1>3. ASSUME NEW r \in Readers, Rebalance(r) PROVE ReaderInv(q)'
  <2>1. CASE q = r
    <3>1. next'[q] = committed /\ current'[q] = current[q] /\ pc'[q] = pc[q]
      BY <1>0, <1>3, <2>1 DEF Rebalance
    <3> QED
      BY <1>0, <1>1, <3>1 DEF IInv, ReaderInv, OnlyFailuresSkipped
  <2>2. CASE q # r
    BY <1>0, <1>2, <1>3, <2>2 DEF Rebalance
  <2> QED
    BY <2>1, <2>2
<1>4. ASSUME NEW r \in Readers, FetchMessage(r) PROVE ReaderInv(q)'
  <2>1. CASE q = r
    <3>1. /\ next[q] \in Offsets /\ TriedBelow(next[q])
          /\ current'[q] = next[q] /\ next'[q] = next[q] + 1
          /\ pc'[q] = IF next[q] \in Skipped THEN "commit" ELSE "handle"
      BY <1>0, <1>4, <2>1 DEF FetchMessage, Goto, IInv, ReaderInv
    <3>2. next[q] \in Skipped => TriedBelow(next[q] + 1)
      BY <3>1, TriedStep
    <3> QED
      BY <1>0, <1>1, <3>1, <3>2 DEF ReaderInv
  <2>2. CASE q # r
    BY <1>0, <1>2, <1>4, <2>2 DEF FetchMessage, Goto
  <2> QED
    BY <2>1, <2>2
<1>5. ASSUME NEW r \in Readers, Handle(r) PROVE ReaderInv(q)'
  <2>1. CASE q = r
    <3>1. /\ current[q] \in Offsets /\ TriedBelow(current[q])
          /\ TriedBelow(next[q]) \/ next[q] = current[q] + 1
          /\ current'[q] = current[q] /\ next'[q] = next[q] /\ pc'[q] = "commit"
          /\ current[q] \in handled'
      BY <1>0, <1>5, <2>1 DEF Handle, Goto, IInv, ReaderInv
    <3>2. TriedBelow(current[q])'
      BY <1>0, <1>1, <3>1
    <3>3. TriedBelow(current[q] + 1)'
      BY <3>1, <3>2 DEF TriedBelow, Offsets
    <3>4. TriedBelow(next[q])'
      BY <1>0, <1>1, <3>1, <3>3
    <3> QED
      BY <3>1, <3>3, <3>4 DEF ReaderInv
  <2>2. CASE q # r
    BY <1>0, <1>2, <1>5, <2>2 DEF Handle, Goto
  <2> QED
    BY <2>1, <2>2
<1>6. ASSUME NEW r \in Readers, HandleFails(r) PROVE ReaderInv(q)'
  <2>1. CASE q = r
    <3>1. /\ current[q] \in Offsets /\ TriedBelow(current[q])
          /\ TriedBelow(next[q]) \/ next[q] = current[q] + 1
          /\ current'[q] = current[q] /\ next'[q] = next[q] /\ pc'[q] = "fetch"
          /\ current[q] \in failed'
      BY <1>0, <1>6, <2>1 DEF HandleFails, Goto, IInv, ReaderInv
    <3>2. TriedBelow(current[q])'
      BY <1>0, <1>1, <3>1
    <3>3. TriedBelow(current[q] + 1)'
      BY <3>1, <3>2 DEF TriedBelow, Offsets
    <3>4. TriedBelow(next[q])'
      BY <1>0, <1>1, <3>1, <3>3
    <3> QED
      BY <3>1, <3>4 DEF ReaderInv
  <2>2. CASE q # r
    BY <1>0, <1>2, <1>6, <2>2 DEF HandleFails, Goto
  <2> QED
    BY <2>1, <2>2
<1>7. ASSUME NEW r \in Readers, CommitMessages(r) \/ CommitFails(r)
      PROVE  ReaderInv(q)'
  <2>1. CASE q = r
    <3>1. TriedBelow(next[q]) /\ next'[q] = next[q] /\ pc'[q] = "fetch"
      BY <1>0, <1>7, <2>1 DEF CommitMessages, CommitFails, Goto, IInv, ReaderInv
    <3> QED
      BY <1>0, <1>1, <3>1 DEF ReaderInv
  <2>2. CASE q # r
    BY <1>0, <1>2, <1>7, <2>2 DEF CommitMessages, CommitFails, Goto
  <2> QED
    BY <2>1, <2>2
<1>8. ASSUME NEW r \in Readers, Crash(r) PROVE ReaderInv(q)'
  <2>0. NoReader # q
    BY ReadersAssumption
  <2>1. CASE q = r
    <3>1. pc'[q] = "fetch" /\ owner' # q
      BY <1>0, <1>8, <2>0, <2>1 DEF Crash, Goto
    <3> QED
      BY <3>1 DEF ReaderInv
  <2>2. CASE q # r
    BY <1>0, <1>2, <1>8, <2>0, <2>2 DEF Crash, Goto
  <2> QED
    BY <2>1, <2>2
<1>9. CASE UNCHANGED vars
  BY <1>2, <1>9 DEF vars
<1> QED
  BY <1>3, <1>4, <1>5, <1>6, <1>7, <1>8, <1>9 DEF Next, Run

(* The invariant holds of every reachable state.                           *)
THEOREM Invariance == Spec => []IInv
<1>1. IInv /\ [Next]_vars => IInv'
  BY TypeStep, CommittedStep, OrderStep, ReaderStep DEF IInv
<1> QED
  BY InitOk, <1>1, PTL DEF Spec

(* The offsets and the readers' state keep their types.                    *)
THEOREM TypeCorrect == Spec => []TypeOK
<1>1. IInv => TypeOK
  BY DEF IInv
<1> QED
  BY Invariance, <1>1, PTL

(* Rebalances, crashes, lost and stale commits never make the group pass   *)
(* over a message: only an error returned by its handler does.             *)
THEOREM NoMessageLost == Spec => []OnlyFailuresSkipped
<1>1. IInv => OnlyFailuresSkipped
  BY DEF IInv
<1> QED
  BY Invariance, <1>1, PTL

(* A message takes effect only after every earlier one was tried, although *)
(* two replicas may work on the partition at once.                         *)
THEOREM InOrder == Spec => []TriedInOrder
<1>1. IInv => TriedInOrder
  BY DEF IInv
<1> QED
  BY Invariance, <1>1, PTL

(* A reader commits only what was handled, or was not for this service.    *)
CommitsWhatIsDone ==
  \A r \in Readers : pc[r] = "commit" => current[r] \in handled \cup Skipped

LEMMA DoneStep ==
  ASSUME IInv, CommitsWhatIsDone, [Next]_vars
  PROVE  CommitsWhatIsDone'
<1> USE DEF IInv, TypeOK, CommitsWhatIsDone
<1>1. ASSUME NEW r \in Readers, Rebalance(r) \/ Run(r) PROVE CommitsWhatIsDone'
  BY <1>1 DEF Rebalance, Run, FetchMessage, Handle, CommitMessages, Goto
<1>2. ASSUME NEW r \in Readers, HandleFails(r) \/ CommitFails(r) \/ Crash(r)
      PROVE  CommitsWhatIsDone'
  BY <1>2 DEF HandleFails, CommitFails, Crash, Goto
<1>3. CASE UNCHANGED vars
  BY <1>3 DEF vars
<1> QED
  BY <1>1, <1>2, <1>3 DEF Next

LEMMA PassingStep ==
  ASSUME IInv, CommitsWhatIsDone, [Next]_vars,
         NEW i \in failed \ handled, committed <= i, committed' > i
  PROVE  committed' > i + 1
<1> USE DEF IInv, TypeOK, Offsets
<1>1. PICK r \in Readers : /\ pc[r] = "commit"
                           /\ committed' = current[r] + 1
  BY DEF Next, Run, Rebalance, FetchMessage, Handle, HandleFails, CommitMessages,
         CommitFails, Crash, vars
<1>2. current[r] \in handled \cup Skipped /\ i \notin handled \cup Skipped
  BY <1>1 DEF CommitsWhatIsDone
<1>3. current[r] # i /\ current[r] + 1 > i /\ current[r] \in Nat /\ i \in Nat
  BY <1>1, <1>2, PartitionAssumption
<1> QED
  BY <1>1, <1>3

(* A failed message is passed over only by committing a later one.         *)
THEOREM PassedBySuccessor == Spec => PassedOnlyBySuccessor
<1>1. Init => CommitsWhatIsDone
  BY DEF Init, CommitsWhatIsDone
<1>2. IInv /\ CommitsWhatIsDone /\ [Next]_vars => CommitsWhatIsDone'
  BY DoneStep
<1>3. IInv /\ CommitsWhatIsDone /\ [Next]_vars
        => [\A i \in failed \ handled :
              committed <= i /\ committed' > i => committed' > i + 1]_vars
  BY PassingStep
<1> QED
  BY Invariance, <1>1, <1>2, <1>3, PTL DEF Spec, PassedOnlyBySuccessor
=============================================================================
