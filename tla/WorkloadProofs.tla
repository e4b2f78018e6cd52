--------------------------- MODULE WorkloadProofs ---------------------------
(***************************************************************************)
(* Proofs about WorkloadCleanup, for any number of services, volumes and   *)
(* failed calls: a call that reports nothing pending has left nothing, and *)
(* disks are only given up on request.                                     *)
(***************************************************************************)
EXTENDS WorkloadCleanup, TLAPS

-----------------------------------------------------------------------------
(* Kinds and resources *)

LEMMA KindsInOrder ==
    /\ Kinds[1] = "lb" /\ Kinds[2] = "route" /\ Kinds[3] = "svc" /\ Kinds[4] = "pool"
    /\ Kinds[5] = "ip" /\ Kinds[6] = "attachment" /\ Kinds[7] = "disk" /\ Len(Kinds) = 7
BY DEF Kinds

\* The position tells the kind.
LEMMA Position ==
    ASSUME NEW i \in 1 .. 7
    PROVE  (Kinds[i] = "attachment" <=> i = 6) /\ (Kinds[i] = "disk" <=> i = 7)
<1>1. i \in {1, 2, 3, 4, 5, 6, 7}
  OBVIOUS
<1> QED BY <1>1, KindsInOrder

LEMMA EveryKind ==
    ASSUME NEW n \in Item
    PROVE  \E i \in 1 .. 7 : n[1] = Kinds[i]
BY KindsInOrder DEF Item

\* What is gone stays gone.
LEMMA GoneForGood ==
    ASSUME TypeOK, Next, NEW n \in Item, res[n] = "absent"
    PROVE  res'[n] = "absent"
<1>1. CASE UNCHANGED res
  BY <1>1
<1>2. ASSUME NEW d \in Item, DeleteOwned(d)
      PROVE  res'[n] = "absent"
  BY <1>2 DEF TypeOK, DeleteOwned
<1>3. CASE CloudProgress
  BY <1>3 DEF TypeOK, CloudProgress
<1> QED BY <1>1, <1>2, <1>3 DEF Next, Pass, Begin, ListKind, KindDone, UserAnnotates

-----------------------------------------------------------------------------
(* The invariant *)

LEMMA InitIsTyped == Init => TypeOK
<1> SUFFICES ASSUME Init PROVE TypeOK
  OBVIOUS
<1>1. res \in [Item -> {"absent", "present", "deleting"}]
  BY DEF Init
<1>2. at \in 0 .. Len(Kinds) /\ todo \subseteq (IF at = 0 THEN {} ELSE OfKind(Kinds[at]))
  BY KindsInOrder DEF Init
<1>3. report \in {"none", "pending", "failed", "done"} /\ faults \in 0 .. MaxFaults
  BY WorkloadAssumption DEF Init
<1>4. /\ vms \in BOOLEAN /\ annotated \in BOOLEAN /\ listed \in BOOLEAN
      /\ pending \in BOOLEAN /\ attached \in BOOLEAN /\ asked \in BOOLEAN
  BY Zenon DEF Init
<1> QED BY <1>1, <1>2, <1>3, <1>4 DEF TypeOK

LEMMA InitIsKept == Init => IInv
<1> SUFFICES ASSUME Init PROVE IInv
  OBVIOUS
<1>1. TypeOK
  BY InitIsTyped
<1>2. \A n \in Item : ~Visited(n)
  BY DEF Init, Visited
<1> QED BY <1>1, <1>2 DEF Init, IInv, DoneMeansGone

-----------------------------------------------------------------------------
(* Types *)

\* Where the call is, and what it has still to delete.
TodoTyped == at \in 0 .. 7 /\ todo \subseteq (IF at = 0 THEN {} ELSE OfKind(Kinds[at]))

LEMMA ReturnIsTyped ==
    ASSUME TypeOK, NEW r \in {"pending", "failed", "done"}, Return(r)
    PROVE  /\ TodoTyped' /\ report' \in {"none", "pending", "failed", "done"}
           /\ listed' \in BOOLEAN /\ pending' \in BOOLEAN /\ attached' \in BOOLEAN /\ asked' \in BOOLEAN
<1>1. TodoTyped'
  BY DEF Return, TodoTyped
<1>2. report' \in {"none", "pending", "failed", "done"}
  BY DEF Return
<1> QED BY <1>1, <1>2, Zenon DEF Return, TypeOK

LEMMA StepIsTyped ==
    ASSUME TypeOK, [Next]_vars
    PROVE  TypeOK'
<1>0. TodoTyped /\ faults \in Nat /\ (Fault => faults' \in 0 .. MaxFaults)
  BY KindsInOrder, WorkloadAssumption DEF TypeOK, TodoTyped, Fault
<1>1. TodoTyped'
  <2>1. CASE Begin
    <3>1. at' = 0 \/ at' = 1
      BY <2>1, <1>0 DEF Begin, TodoTyped
    <3> QED BY <2>1, <3>1, <1>0 DEF Begin, TodoTyped
  <2>2. CASE ListKind
    BY <2>2, <1>0, ReturnIsTyped DEF ListKind, TodoTyped, OfKind
  <2>3. CASE KindDone
    <3>1. CASE UNCHANGED todo /\ at' = at + 1 /\ Kinds[at] # "disk"
      BY <2>3, <3>1, <1>0, KindsInOrder DEF KindDone, TodoTyped
    <3> QED BY <2>3, <3>1, <1>0, ReturnIsTyped DEF KindDone
  <2>4. ASSUME NEW n \in Item, DeleteOwned(n)
        PROVE  TodoTyped'
    BY <2>4, <1>0, ReturnIsTyped DEF DeleteOwned, TodoTyped
  <2> QED BY <2>1, <2>2, <2>3, <2>4, <1>0 DEF Next, Pass, CloudProgress, UserAnnotates, TodoTyped, vars, call
<1>2. res' \in [Item -> {"absent", "present", "deleting"}]
  <2>1. ASSUME NEW n \in Item, DeleteOwned(n)
        PROVE  res' \in [Item -> {"absent", "present", "deleting"}]
    BY <2>1 DEF TypeOK, DeleteOwned
  <2>2. CASE CloudProgress
    BY <2>2 DEF TypeOK, CloudProgress
  <2> QED BY <2>1, <2>2 DEF TypeOK, Next, Pass, Begin, ListKind, KindDone, UserAnnotates, vars
<1>3. /\ vms' \in BOOLEAN /\ annotated' \in BOOLEAN
      /\ listed' \in BOOLEAN /\ pending' \in BOOLEAN /\ attached' \in BOOLEAN /\ asked' \in BOOLEAN
  <2>1. CASE Begin
    BY <2>1, Zenon DEF TypeOK, Begin
  <2>2. CASE ListKind
    BY <2>2, ReturnIsTyped, Zenon DEF TypeOK, ListKind
  <2>3. CASE KindDone
    BY <2>3, ReturnIsTyped, Zenon DEF TypeOK, KindDone
  <2>4. ASSUME NEW n \in Item, DeleteOwned(n)
        PROVE  /\ vms' \in BOOLEAN /\ annotated' \in BOOLEAN
               /\ listed' \in BOOLEAN /\ pending' \in BOOLEAN /\ attached' \in BOOLEAN /\ asked' \in BOOLEAN
    BY <2>4, ReturnIsTyped, Zenon DEF TypeOK, DeleteOwned
  <2>5. CASE CloudProgress \/ UserAnnotates \/ UNCHANGED vars
    BY <2>5, Zenon DEF TypeOK, CloudProgress, UserAnnotates, vars, call
  <2> QED BY <2>1, <2>2, <2>3, <2>4, <2>5 DEF Next, Pass
<1>4. report' \in {"none", "pending", "failed", "done"} /\ faults' \in 0 .. MaxFaults
  <2>1. ASSUME NEW n \in Item, DeleteOwned(n)
        PROVE  report' \in {"none", "pending", "failed", "done"} /\ faults' \in 0 .. MaxFaults
    BY <2>1, <1>0, ReturnIsTyped DEF TypeOK, DeleteOwned
  <2> QED BY <2>1, <1>0, ReturnIsTyped
          DEF TypeOK, Next, Pass, Begin, ListKind, KindDone, CloudProgress, UserAnnotates, vars, call
<1> QED BY <1>1, <1>2, <1>3, <1>4, KindsInOrder DEF TypeOK, TodoTyped

-----------------------------------------------------------------------------
(* What a call knows *)

\* The parts of IInv.
Running == IF at = 0 THEN ~listed ELSE report = "none"
FoundNothing == ~pending => ~attached /\ \A n \in Item : Visited(n) => res[n] = "absent"
Detached == \A n \in OfKind("attachment") : res[n] = "absent"
NoAttachment == at = 6 /\ listed /\ ~attached => Detached
AtDisks == at = 7 => asked /\ Detached

LEMMA Parts == IInv <=> TypeOK /\ Running /\ FoundNothing /\ NoAttachment /\ AtDisks /\ DoneMeansGone
BY DEF IInv, Running, FoundNothing, NoAttachment, AtDisks, Detached

\* A call that has ended knows nothing, and all that can be wrong is its report.
LEMMA Ended ==
    ASSUME NEW r \in {"pending", "failed", "done"}, Return(r), r = "done" => DoneMeansGone'
    PROVE  Running' /\ FoundNothing' /\ NoAttachment' /\ AtDisks' /\ DoneMeansGone'
<1>1. at' = 0 /\ listed' = FALSE /\ pending' = FALSE /\ attached' = FALSE /\ report' = r
  BY DEF Return
<1>2. \A n \in Item : ~Visited(n)'
  BY <1>1 DEF Visited
<1> QED BY <1>1, <1>2 DEF Running, FoundNothing, NoAttachment, AtDisks, DoneMeansGone

LEMMA DetachedForGood == TypeOK /\ Next /\ Detached => Detached'
BY GoneForGood DEF Detached, OfKind

\* Steps that leave the call alone.
LEMMA OthersKeep ==
    ASSUME IInv, Next, UNCHANGED call
    PROVE  Running' /\ FoundNothing' /\ NoAttachment' /\ AtDisks' /\ DoneMeansGone'
<1>1. \A n \in Item : Visited(n)' <=> Visited(n)
  BY DEF Visited, call
<1> QED BY <1>1, Parts, GoneForGood, DetachedForGood
        DEF call, Running, FoundNothing, NoAttachment, AtDisks, DoneMeansGone

LEMMA BeginKeeps ==
    ASSUME IInv, Begin
    PROVE  Running' /\ FoundNothing' /\ NoAttachment' /\ AtDisks' /\ DoneMeansGone'
<1>1. at = 0 /\ ~listed /\ (~pending => ~attached)
  BY Parts DEF Begin, Running, FoundNothing
<1>2. /\ at' = 0 \/ (at' = 1 /\ report' = "none")
      /\ report' # "done"
      /\ UNCHANGED <<listed, pending, attached>>
  BY <1>1 DEF Begin
<1>3. \A n \in Item : ~Visited(n)'
  BY <1>1, <1>2 DEF Visited
<1> QED BY <1>1, <1>2, <1>3 DEF Running, FoundNothing, NoAttachment, AtDisks, DoneMeansGone

LEMMA ListKindKeeps ==
    ASSUME IInv, ListKind
    PROVE  Running' /\ FoundNothing' /\ NoAttachment' /\ AtDisks' /\ DoneMeansGone'
<1>1. CASE Return("failed")
  BY <1>1, Ended
<1>2. ASSUME todo' = {n \in OfKind(Kinds[at]) : res[n] # "absent"}, listed' = TRUE,
             pending' = (pending \/ todo' # {}), attached' = (Kinds[at] = "attachment" /\ todo' # {}),
             UNCHANGED <<at, asked, report, faults>>
      PROVE  Running' /\ FoundNothing' /\ NoAttachment' /\ AtDisks' /\ DoneMeansGone'
  <2>1. at # 0 /\ at \in 1 .. 7 /\ report = "none" /\ UNCHANGED res
    BY Parts, KindsInOrder DEF ListKind, Running, TypeOK
  <2>2. Running' /\ AtDisks' /\ DoneMeansGone'
    BY <1>2, <2>1, Parts DEF Running, AtDisks, Detached, DoneMeansGone
  <2>3. ASSUME todo' = {}, NEW n \in OfKind(Kinds[at])
        PROVE  res[n] = "absent"
    BY <1>2, <2>3
  <2>4. NoAttachment'
    BY <1>2, <2>1, <2>3, Position DEF NoAttachment, Detached
  <2>5. ASSUME ~pending'
        PROVE  ~attached' /\ \A n \in Item : Visited(n)' => res'[n] = "absent"
    <3>1. ~pending /\ todo' = {} /\ ~attached'
      BY <1>2, <2>5
    <3>2. ASSUME NEW n \in Item, Visited(n)'
          PROVE  n \in OfKind(Kinds[at]) \/ Visited(n)
      BY <1>2, <3>2 DEF Visited, OfKind
    <3> QED BY <2>1, <2>3, <3>1, <3>2, Parts DEF FoundNothing
  <2> QED BY <2>2, <2>4, <2>5 DEF FoundNothing
<1> QED BY <1>1, <1>2 DEF ListKind

LEMMA DeleteOwnedKeeps ==
    ASSUME IInv, NEW d \in Item, DeleteOwned(d)
    PROVE  Running' /\ FoundNothing' /\ NoAttachment' /\ AtDisks' /\ DoneMeansGone'
<1>1. CASE Return("failed")
  BY <1>1, Ended
<1>2. CASE UNCHANGED <<at, listed, pending, attached, asked, report, faults>>
  <2>1. \A n \in Item : Visited(n)' <=> Visited(n)
    BY <1>2 DEF Visited
  <2>2. Next
    BY DEF Next, Pass
  <2> QED BY <1>2, <2>1, <2>2, Parts, GoneForGood, DetachedForGood
          DEF Running, FoundNothing, NoAttachment, AtDisks, DoneMeansGone
<1> QED BY <1>1, <1>2 DEF DeleteOwned

\* The call ends after the disks, or before them if it has found an attachment
\* or is to keep them.
LEMMA KindDoneKeeps ==
    ASSUME IInv, KindDone
    PROVE  Running' /\ FoundNothing' /\ NoAttachment' /\ AtDisks' /\ DoneMeansGone'
<1>1. at \in 1 .. 7 /\ listed /\ UNCHANGED res
  BY Parts, KindsInOrder DEF KindDone, TypeOK
<1>2. CASE Kinds[at] = "disk" \/ (Kinds[at] = "attachment" /\ (attached \/ ~asked))
  <2>1. CASE pending
    BY <1>2, <2>1, Ended DEF KindDone
  <2>2. CASE ~pending
    <3>1. Return("done") /\ UNCHANGED asked
      BY <1>2, <2>2 DEF KindDone, Return
    <3>2. ~attached /\ \A n \in Item : Visited(n) => res[n] = "absent"
      BY <2>2, Parts DEF FoundNothing
    <3>3. ASSUME NEW n \in Item, n[1] # "disk" \/ asked
          PROVE  Visited(n)
      <4>1. PICK i \in 1 .. 7 : n[1] = Kinds[i]
        BY EveryKind
      <4>2. i <= at
        BY <1>1, <1>2, <3>2, <3>3, <4>1, Position
      <4> QED BY <1>1, <4>1, <4>2 DEF Visited
    <3>4. DoneMeansGone'
      BY <1>1, <3>1, <3>2, <3>3 DEF DoneMeansGone
    <3> QED BY <3>1, <3>4, Ended
  <2> QED BY <2>1, <2>2
<1>3. CASE ~(Kinds[at] = "disk" \/ (Kinds[at] = "attachment" /\ (attached \/ ~asked)))
  <2>1. at' = at + 1 /\ ~listed' /\ UNCHANGED <<pending, attached, asked, report>>
    BY <1>3 DEF KindDone
  <2>2. at \in 1 .. 6 /\ (at = 6 => ~attached /\ asked)
    BY <1>1, <1>3, Position
  <2>3. Running' /\ NoAttachment' /\ DoneMeansGone'
    BY <1>1, <2>1, Parts DEF Running, NoAttachment, DoneMeansGone
  <2>4. AtDisks'
    BY <1>1, <2>1, <2>2, Parts DEF AtDisks, NoAttachment, Detached
  <2>5. ASSUME NEW n \in Item, Visited(n)'
        PROVE  Visited(n)
    BY <1>1, <2>1, <2>5 DEF Visited
  <2> QED BY <1>1, <2>1, <2>3, <2>4, <2>5, Parts DEF FoundNothing
<1> QED BY <1>2, <1>3

-----------------------------------------------------------------------------
(* The theorems *)

LEMMA StepIsKept == IInv /\ [Next]_vars => IInv'
<1> SUFFICES ASSUME IInv, [Next]_vars PROVE IInv'
  OBVIOUS
<1>1. TypeOK'
  BY StepIsTyped, Parts
<1>2. Running' /\ FoundNothing' /\ NoAttachment' /\ AtDisks' /\ DoneMeansGone'
  <2>1. CASE UNCHANGED vars
    BY <2>1, Parts DEF vars, call, Running, FoundNothing, NoAttachment, AtDisks, Detached, Visited, DoneMeansGone
  <2>2. CASE CloudProgress \/ UserAnnotates
    <3>1. Next /\ UNCHANGED call
      BY <2>2 DEF Next, CloudProgress, UserAnnotates
    <3> QED BY <3>1, OthersKeep
  <2> QED BY <2>1, <2>2, BeginKeeps, ListKindKeeps, DeleteOwnedKeeps, KindDoneKeeps DEF Next, Pass
<1>3. IInv' <=> TypeOK' /\ Running' /\ FoundNothing' /\ NoAttachment' /\ AtDisks' /\ DoneMeansGone'
  BY DEF IInv, Running, FoundNothing, NoAttachment, AtDisks, Detached
<1> QED BY <1>1, <1>2, <1>3

\* What a running call has found out holds in every state (Cleanup).
THEOREM Inductive == Spec => []IInv
<1> QED BY InitIsKept, StepIsKept, PTL DEF Spec

\* A call that reports nothing pending has left no stack and no attachment, and
\* no disk if it was to delete them (Cleanup).
THEOREM NothingIsLeft == Spec => []DoneMeansGone
<1>1. IInv => DoneMeansGone
  BY DEF IInv
<1> QED BY <1>1, Inductive, PTL

\* A volume's disk is deleted only on request and after its attachment
\* (Cleanup, deleteOwned).
THEOREM DisksKept == Spec => DisksAreKept
<1>1. ASSUME IInv, [Next]_vars, NEW v \in Volumes,
             res[<<"disk", v>>] = "present", res'[<<"disk", v>>] # "present"
      PROVE  asked /\ res[<<"attachment", v>>] = "absent"
  <2>1. <<"disk", v>> \in Item /\ <<"attachment", v>> \in Item
    BY DEF Item
  <2>2. PICK d \in Item : DeleteOwned(d)
    BY <1>1, <2>1 DEF Next, Pass, Begin, ListKind, KindDone, CloudProgress, UserAnnotates, vars, IInv, TypeOK
  <2>3. d = <<"disk", v>>
    BY <1>1, <2>1, <2>2 DEF DeleteOwned, IInv, TypeOK
  <2>4. at \in 1 .. 7 /\ d[1] = Kinds[at]
    BY <1>1, <2>2, KindsInOrder DEF DeleteOwned, IInv, TypeOK, OfKind
  <2>5. at = 7
    BY <2>3, <2>4, Position
  <2> QED BY <1>1, <2>1, <2>5, Parts DEF AtDisks, Detached, OfKind
<1>2. IInv /\ [Next]_vars =>
        [\A v \in Volumes :
            res[<<"disk", v>>] = "present" /\ res'[<<"disk", v>>] # "present" =>
                asked /\ res[<<"attachment", v>>] = "absent"]_vars
  BY <1>1
<1> QED BY <1>2, Inductive, PTL DEF Spec, DisksAreKept

=============================================================================
