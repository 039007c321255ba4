------------------------ MODULE VolumeControlProofs ------------------------
(***************************************************************************)
(* Every control state a volume's log produces is valid, and no two        *)
(* authorities share a fence, for every set of nodes, sessions and ids.    *)
(* One lemma per command shows that what it applies keeps the state valid  *)
(* and separated from the one before.                                      *)
(***************************************************************************)
EXTENDS VolumeControl, TLAPS

Sound(s) == s \in ControlStates /\ Valid(s)

Keeps(s, t) == Sound(t) /\ Separated(s, t)

\* The field updates the commands are built from stay within the state's type.
LEMMA StepType ==
  ASSUME NEW s \in ControlStates
  PROVE  /\ Step(s) \in ControlStates
         /\ Step(s) = [s EXCEPT !.revision = s.revision + 1]
  BY DEF Step, ControlStates

LEMMA FencedType ==
  ASSUME NEW s \in ControlStates
  PROVE  /\ Fenced(s) \in ControlStates
         /\ Fenced(s).revision = s.revision + 1 /\ Fenced(s).fence = s.fence + 1
         /\ Fenced(s).capacity = s.capacity /\ Fenced(s).live = s.live
         /\ Fenced(s).copies = s.copies /\ Fenced(s).writer = s.writer
         /\ Fenced(s).recovery = s.recovery /\ Fenced(s).replacement = s.replacement
<1>1. Step(s) \in ControlStates
  BY StepType
<1>2. Fenced(s) \in ControlStates
  BY <1>1 DEF Fenced, ControlStates
<1>3. Step(s) = [s EXCEPT !.revision = s.revision + 1]
  BY StepType
<1> QED  BY <1>1, <1>2, <1>3 DEF Fenced, ControlStates

\* Initialize names three copies and leaves no authority.
LEMMA InitializeKeeps ==
  ASSUME NEW s, Sound(s), NEW c \in Initializations, Initialize(s, c).outcome = "applied"
  PROVE  Keeps(s, Initialize(s, c).state)
<1>1. s.revision = 0 /\ Cardinality(c.copies) = 3 /\ Initialize(s, c).state = Initialized(c)
  BY DEF Initialize, Sound, ControlStates
<1>2. c.copies \in SUBSET Nodes /\ c.capacity \in Nat
  BY NoneAssumption DEF Initializations
<1>3. Initialized(c) \in ControlStates
  BY Zenon, <1>2 DEF Initialized, Uninitialized, ControlStates
<1>4. Valid(Initialized(c))
  BY <1>1 DEF Valid, Initialized, Uninitialized, CopyCount
<1>5. s.fence = 0
  BY <1>1 DEF Sound, Valid, Uninitialized
<1>6. Separated(s, Initialized(c))
  BY <1>5 DEF Separated, Initialized, Uninitialized
<1> QED  BY <1>1, <1>3, <1>4, <1>6 DEF Keeps, Sound

\* Expand changes the capacity alone.
LEMMA ExpandKeeps ==
  ASSUME NEW s, Sound(s), NEW c \in Expansions(Nat), Expand(s, c).outcome = "applied"
  PROVE  Keeps(s, Expand(s, c).state)
<1> DEFINE next == [Step(s) EXCEPT !.capacity = c.capacity]
<1>1. Expand(s, c).state = next /\ s.live /\ s.revision > 0
  BY DEF Expand, Plan, Sound, ControlStates
<1>2. c.capacity \in Nat
  BY NoneAssumption DEF Expansions
<1>3. next \in ControlStates
  BY <1>2, StepType DEF Sound, ControlStates
<1>4. Valid(next)
  BY <1>1 DEF Sound, ControlStates, Step, Valid, Uninitialized, StoredRecoveryOk, ReplacementOk
<1>5. Separated(s, next)
  BY DEF Sound, ControlStates, Step, Separated, Holder
<1> QED  BY <1>1, <1>3, <1>4, <1>5 DEF Keeps, Sound

\* Deleting a volume revokes every authority under a new fence; restoring it grants none.
LEMMA DispositionKeeps ==
  ASSUME NEW s, Sound(s), NEW c \in Dispositions(Nat), SetDisposition(s, c).outcome = "applied"
  PROVE  Keeps(s, SetDisposition(s, c).state)
<1> DEFINE restored == [Step(s) EXCEPT !.live = TRUE]
           deleted == [Fenced(s) EXCEPT !.live = FALSE, !.writer = None, !.recovery = None,
                                        !.replacement = None]
<1>1. /\ SetDisposition(s, c).state = IF c.live THEN restored ELSE deleted
      /\ s.revision > 0 /\ s.live # c.live
  BY DEF SetDisposition, Disposed, Plan, Sound, ControlStates
<1>2. CASE c.live
  <2>1. restored \in ControlStates
    BY Zenon, StepType DEF Sound, ControlStates
  <2>a. s.live \in BOOLEAN /\ c.live \in BOOLEAN
    BY DEF Sound, ControlStates, Dispositions
  <2>b. ~s.live
    BY <1>1, <1>2, <2>a, Zenon
  <2>2. s.writer = None /\ s.recovery = None /\ s.replacement = None /\ CopyCount(s.copies)
    BY <1>1, <2>b DEF Sound, Valid, Uninitialized
  <2>3. Valid(restored)
    BY <1>1, <2>2 DEF Sound, ControlStates, Step, Valid
  <2>4. Separated(s, restored)
    BY DEF Sound, ControlStates, Step, Separated, Holder
  <2> QED  BY <1>1, <1>2, <2>1, <2>3, <2>4 DEF Keeps, Sound
<1>3. CASE ~c.live
  <2>1. deleted \in ControlStates
    BY Zenon, FencedType DEF Sound, ControlStates
  <2>2. CopyCount(s.copies)
    BY <1>1 DEF Sound, Valid, Uninitialized
  <2>3. Valid(deleted)
    BY <1>1, <2>2, FencedType DEF Sound, ControlStates, Valid
  <2>4. Separated(s, deleted)
    BY FencedType DEF Sound, ControlStates, Separated
  <2> QED  BY <1>1, <1>3, <2>1, <2>3, <2>4 DEF Keeps, Sound
<1> QED  BY <1>2, <1>3

\* A granted writer is on a current copy of a live volume that nothing else moves.
LEMMA GrantKeeps ==
  ASSUME NEW s, Sound(s), NEW c \in Grants(Nat), GrantWriter(s, c).outcome = "applied"
  PROVE  Keeps(s, GrantWriter(s, c).state)
<1> DEFINE next == [Fenced(s) EXCEPT !.writer = c.writer, !.recovery = None]
<1>1. /\ GrantWriter(s, c).state = next
      /\ s.revision > 0 /\ s.live /\ s.replacement = None /\ c.writer.node \in s.copies
  BY DEF GrantWriter, Plan, Sound, ControlStates
<1>2. c.writer \in Writers /\ CopyCount(s.copies)
  BY <1>1 DEF Grants, Sound, Valid, Uninitialized
<1>3. next \in ControlStates
  BY Zenon, <1>2, FencedType DEF Sound, ControlStates
<1>4. Valid(next)
  BY <1>1, <1>2, FencedType DEF Sound, ControlStates, Valid
<1>5. Separated(s, next)
  BY FencedType DEF Sound, ControlStates, Separated
<1> QED  BY <1>1, <1>3, <1>4, <1>5 DEF Keeps, Sound

\* Fencing the writer leaves no authority but a running replacement.
LEMMA FenceKeeps ==
  ASSUME NEW s, Sound(s), NEW c \in Fences(Nat), FenceWriter(s, c).outcome = "applied"
  PROVE  Keeps(s, FenceWriter(s, c).state)
<1> DEFINE next == [Fenced(s) EXCEPT !.writer = None]
<1>1. FenceWriter(s, c).state = next /\ s.revision > 0 /\ s.writer # None
  BY DEF FenceWriter, Plan, Sound, ControlStates
<1>2. next \in ControlStates
  BY FencedType DEF Sound, ControlStates
<1>3. /\ CopyCount(s.copies) /\ s.recovery = None /\ s.live
      /\ s.replacement # None => ReplacementOk(s, s.replacement)
  BY <1>1 DEF Sound, Valid, Uninitialized, StoredRecoveryOk, ControlStates
<1>4. Valid(next)
  BY <1>1, <1>3, FencedType DEF Sound, ControlStates, Valid, ReplacementOk
<1>5. Separated(s, next)
  BY FencedType DEF Sound, ControlStates, Separated
<1> QED  BY <1>1, <1>2, <1>4, <1>5 DEF Keeps, Sound

\* A recovery runs over its own targets, without a writer, from a copy among them.
LEMMA RecoverKeeps ==
  ASSUME NEW s, Sound(s), NEW c \in BeginRecoveries(Nat), BeginRecovery(s, c).outcome = "applied"
  PROVE  Keeps(s, BeginRecovery(s, c).state)
<1> DEFINE next == [Fenced(s) EXCEPT !.copies = c.recovery.targets, !.writer = None,
                                     !.recovery = c.recovery, !.replacement = None]
<1>1. /\ BeginRecovery(s, c).state = next
      /\ s.revision > 0 /\ s.live /\ RequestedRecoveryOk(s, c.recovery)
  BY DEF BeginRecovery, Plan, Sound, ControlStates
<1>2. c.recovery \in Recoveries /\ c.recovery.targets \in SUBSET Nodes
  BY DEF BeginRecoveries, Recoveries
<1>3. next \in ControlStates
  BY Zenon, <1>2, FencedType DEF Sound, ControlStates
<1>4. /\ next.copies = c.recovery.targets /\ next.writer = None /\ next.live
      /\ next.recovery = c.recovery /\ next.replacement = None /\ next.revision > 0
  BY <1>1, FencedType DEF Sound, ControlStates
<1>5. CopyCount(next.copies) /\ RecoverySourceOk(next.copies, next.recovery)
  BY <1>1, <1>4 DEF RequestedRecoveryOk, RecoverySourceOk
<1>6. Valid(next)
  BY <1>4, <1>5 DEF Valid, StoredRecoveryOk
<1>7. Separated(s, next)
  BY FencedType DEF Sound, ControlStates, Separated
<1> QED  BY <1>1, <1>3, <1>6, <1>7 DEF Keeps, Sound

\* Revoking the recovery leaves no authority: a stored recovery excludes a writer.
LEMMA RevokeKeeps ==
  ASSUME NEW s, Sound(s), NEW c \in Revocations(Nat), RevokeRecovery(s, c).outcome = "applied"
  PROVE  Keeps(s, RevokeRecovery(s, c).state)
<1> DEFINE next == [Step(s) EXCEPT !.recovery = None]
<1>1. RevokeRecovery(s, c).state = next /\ s.revision > 0 /\ s.live /\ s.recovery # None
  BY DEF RevokeRecovery, Plan, Sound, ControlStates
<1>2. s.writer = None /\ s.replacement = None /\ CopyCount(s.copies)
  BY <1>1 DEF Sound, Valid, Uninitialized, StoredRecoveryOk
<1>3. next \in ControlStates
  BY StepType DEF Sound, ControlStates
<1>4. Valid(next)
  BY <1>1, <1>2 DEF Sound, ControlStates, Step, Valid
<1>5. Separated(s, next)
  BY <1>2 DEF Sound, ControlStates, Step, Separated, Holder
<1> QED  BY <1>1, <1>3, <1>4, <1>5 DEF Keeps, Sound

\* A replacement starts beside the writer it copies from and grants no one else.
LEMMA ReplaceKeeps ==
  ASSUME NEW s, Sound(s), NEW c \in BeginReplacements(Nat), BeginReplacement(s, c).outcome = "applied"
  PROVE  Keeps(s, BeginReplacement(s, c).state)
<1> DEFINE next == [Step(s) EXCEPT !.replacement = c.replacement]
<1>1. /\ BeginReplacement(s, c).state = next
      /\ s.revision > 0 /\ s.live /\ s.recovery = None /\ ReplacementOk(s, c.replacement)
  BY DEF BeginReplacement, Plan, Sound, ControlStates
<1>2. c.replacement \in Replacements
  BY DEF BeginReplacements
<1>3. /\ CopyCount(s.copies)
      /\ s.writer # None => s.writer.node \in s.copies
  BY <1>1 DEF Sound, Valid, Uninitialized
<1>4. next \in ControlStates
  BY <1>2, StepType DEF Sound, ControlStates
<1>5. Valid(next)
  BY <1>1, <1>3 DEF Sound, ControlStates, Step, Valid, ReplacementOk
<1>6. Separated(s, next)
  BY DEF Sound, ControlStates, Step, Separated, Holder
<1> QED  BY <1>1, <1>4, <1>5, <1>6 DEF Keeps, Sound

\* Cancelling a replacement changes nothing else.
LEMMA CancelKeeps ==
  ASSUME NEW s, Sound(s), NEW c \in Cancellations(Nat), CancelReplacement(s, c).outcome = "applied"
  PROVE  Keeps(s, CancelReplacement(s, c).state)
<1> DEFINE next == [Step(s) EXCEPT !.replacement = None]
<1>1. CancelReplacement(s, c).state = next /\ s.revision > 0 /\ s.replacement # None
  BY DEF CancelReplacement, Plan, Sound, ControlStates
<1>2. /\ CopyCount(s.copies) /\ s.recovery = None
      /\ s.writer # None => s.writer.node \in s.copies
      /\ s.live
  BY <1>1 DEF Sound, Valid, Uninitialized, StoredRecoveryOk
<1>3. next \in ControlStates
  BY StepType DEF Sound, ControlStates
<1>4. Valid(next)
  BY <1>1, <1>2 DEF Sound, ControlStates, Step, Valid
<1>5. Separated(s, next)
  BY DEF Sound, ControlStates, Step, Separated, Holder
<1> QED  BY <1>1, <1>3, <1>4, <1>5 DEF Keeps, Sound

\* Adoption names three copies, the writer's among them, under a new fence.
LEMMA AdoptKeeps ==
  ASSUME NEW s, Sound(s), NEW c \in Adoptions(Nat), AdoptReplacement(s, c).outcome = "applied"
  PROVE  Keeps(s, AdoptReplacement(s, c).state)
<1> DEFINE next == [Fenced(s) EXCEPT !.copies = c.copies, !.replacement = None]
<1>1. /\ AdoptReplacement(s, c).state = next
      /\ s.revision > 0 /\ s.live /\ s.replacement # None
      /\ s.writer = c.writer /\ Cardinality(c.copies) = 3
      /\ c.writer # None => c.writer.node \in c.copies
  BY DEF AdoptReplacement, Plan, Sound, ControlStates
<1>2. s.recovery = None
  BY <1>1 DEF Sound, Valid, Uninitialized, StoredRecoveryOk
<1>3. CopyCount(c.copies) /\ c.copies \in SUBSET Nodes
  BY <1>1 DEF Adoptions, CopyCount
<1>4. next \in ControlStates
  BY Zenon, <1>3, FencedType DEF Sound, ControlStates
<1>5. Valid(next)
  BY <1>1, <1>2, <1>3, FencedType DEF Sound, ControlStates, Valid
<1>6. Separated(s, next)
  BY FencedType DEF Sound, ControlStates, Separated
<1> QED  BY <1>1, <1>4, <1>5, <1>6 DEF Keeps, Sound

\* One applied log entry, whatever command it carries.
LEMMA ApplyKeeps ==
  ASSUME Sound(control), Next
  PROVE  Keeps(control, control')
<1> Read \subseteq Nat
  BY DEF Read, Sound, ControlStates
<1>1. CASE Apply(Initializations)
  <2>1. PICK c \in Initializations : Evaluate(control, c).outcome = "applied" /\ control' = Evaluate(control, c).state
    BY <1>1 DEF Apply
  <2> QED  BY <2>1, InitializeKeeps DEF Evaluate, Initializations
<1>2. CASE Apply(Expansions(Read))
  <2>1. PICK c \in Expansions(Nat) : Evaluate(control, c).outcome = "applied" /\ control' = Evaluate(control, c).state
    BY Zenon, <1>2 DEF Apply, Expansions
  <2> QED  BY <2>1, ExpandKeeps DEF Evaluate, Expansions
<1>3. CASE Apply(Dispositions(Read))
  <2>1. PICK c \in Dispositions(Nat) : Evaluate(control, c).outcome = "applied" /\ control' = Evaluate(control, c).state
    BY Zenon, <1>3 DEF Apply, Dispositions
  <2> QED  BY <2>1, DispositionKeeps DEF Evaluate, Dispositions
<1>4. CASE Apply(Grants(Read))
  <2>1. PICK c \in Grants(Nat) : Evaluate(control, c).outcome = "applied" /\ control' = Evaluate(control, c).state
    BY Zenon, <1>4 DEF Apply, Grants
  <2> QED  BY <2>1, GrantKeeps DEF Evaluate, Grants
<1>5. CASE Apply(Fences(Read))
  <2>1. PICK c \in Fences(Nat) : Evaluate(control, c).outcome = "applied" /\ control' = Evaluate(control, c).state
    BY Zenon, <1>5 DEF Apply, Fences
  <2> QED  BY <2>1, FenceKeeps DEF Evaluate, Fences
<1>6. CASE Apply(BeginRecoveries(Read))
  <2>1. PICK c \in BeginRecoveries(Nat) : Evaluate(control, c).outcome = "applied" /\ control' = Evaluate(control, c).state
    BY Zenon, <1>6 DEF Apply, BeginRecoveries
  <2> QED  BY <2>1, RecoverKeeps DEF Evaluate, BeginRecoveries
<1>7. CASE Apply(Revocations(Read))
  <2>1. PICK c \in Revocations(Nat) : Evaluate(control, c).outcome = "applied" /\ control' = Evaluate(control, c).state
    BY Zenon, <1>7 DEF Apply, Revocations
  <2> QED  BY <2>1, RevokeKeeps DEF Evaluate, Revocations
<1>8. CASE Apply(BeginReplacements(Read))
  <2>1. PICK c \in BeginReplacements(Nat) : Evaluate(control, c).outcome = "applied" /\ control' = Evaluate(control, c).state
    BY Zenon, <1>8 DEF Apply, BeginReplacements
  <2> QED  BY <2>1, ReplaceKeeps DEF Evaluate, BeginReplacements
<1>9. CASE Apply(Cancellations(Read))
  <2>1. PICK c \in Cancellations(Nat) : Evaluate(control, c).outcome = "applied" /\ control' = Evaluate(control, c).state
    BY Zenon, <1>9 DEF Apply, Cancellations
  <2> QED  BY <2>1, CancelKeeps DEF Evaluate, Cancellations
<1>10. CASE Apply(Adoptions(Read))
  <2>1. PICK c \in Adoptions(Nat) : Evaluate(control, c).outcome = "applied" /\ control' = Evaluate(control, c).state
    BY Zenon, <1>10 DEF Apply, Adoptions
  <2> QED  BY <2>1, AdoptKeeps DEF Evaluate, Adoptions
<1> QED  BY <1>1, <1>2, <1>3, <1>4, <1>5, <1>6, <1>7, <1>8, <1>9, <1>10 DEF Next

-----------------------------------------------------------------------------

LEMMA InitSound ==
  ASSUME Init
  PROVE  Sound(control)
  BY DEF Init, Sound, Uninitialized, ControlStates, Valid

\* Whatever commands are committed, in whatever order and against whatever
\* revision their proposers read, the state VolumeStateMachine::apply keeps is
\* well typed and passes VolumeControlState::validate.
THEOREM ControlStaysValid == Spec => [](TypeOK /\ ControlValid)
<1>1. Init => Sound(control)
  BY InitSound
<1>2. Sound(control) /\ [Next]_vars => Sound(control)'
  BY ApplyKeeps DEF Keeps, vars
<1>3. Sound(control) => TypeOK /\ ControlValid
  BY DEF Sound, TypeOK, ControlValid
<1> QED  BY <1>1, <1>2, <1>3, PTL DEF Spec

\* No fence ever covers two authorities or two sets of copies, so a copy that
\* compares fences never mixes their requests.
THEOREM FencesSeparateAuthorities == Spec => FenceSeparates
<1>1. Init => Sound(control)
  BY InitSound
<1>2. Sound(control) /\ [Next]_vars => Sound(control)'
  BY ApplyKeeps DEF Keeps, vars
<1>3. Sound(control) /\ [Next]_vars => [Separated(control, control')]_vars
  BY ApplyKeeps DEF Keeps, vars
<1> QED  BY <1>1, <1>2, <1>3, PTL DEF Spec, FenceSeparates

-----------------------------------------------------------------------------
(* Retries: each evaluator recognises its own postcondition *)

LEMMA PlanCurrent ==
  ASSUME NEW s, NEW e, NEW holds, NEW allowed, NEW next, s.revision > 0, holds
  PROVE  Plan(s, e, holds, allowed, next).outcome = "current"
  BY DEF Plan

LEMMA InitializeRetry ==
  ASSUME NEW s \in ControlStates, NEW c \in Initializations, Initialize(s, c).outcome = "applied"
  PROVE  Initialize(Initialize(s, c).state, c).outcome = "current"
<1>1. Initialize(s, c).state = Initialized(c)
  BY DEF Initialize, ControlStates
<1>2. Initialize(Initialized(c), c).outcome = "current"
  BY DEF Initialize
<1> QED  BY <1>1, <1>2

LEMMA ExpandRetry ==
  ASSUME NEW s \in ControlStates, NEW c \in Expansions(Nat), Expand(s, c).outcome = "applied"
  PROVE  Expand(Expand(s, c).state, c).outcome = "current"
<1> DEFINE next == [Step(s) EXCEPT !.capacity = c.capacity]
<1>1. Expand(s, c).state = next /\ s.revision > 0
  BY DEF Expand, Plan, ControlStates
<1>2. /\ next.revision > 0
      /\ next.capacity = c.capacity
  BY <1>1, StepType, FencedType DEF ControlStates
<1> HIDE DEF next
<1>3. Expand(next, c).outcome = "current"
  BY <1>2 DEF Expand, Plan
<1> QED  BY <1>1, <1>3

LEMMA DispositionRetry ==
  ASSUME NEW s \in ControlStates, NEW c \in Dispositions(Nat), SetDisposition(s, c).outcome = "applied"
  PROVE  SetDisposition(SetDisposition(s, c).state, c).outcome = "current"
<1> DEFINE restored == [Step(s) EXCEPT !.live = TRUE]
           deleted == [Fenced(s) EXCEPT !.live = FALSE, !.writer = None, !.recovery = None,
                                        !.replacement = None]
<1>1. SetDisposition(s, c).state = IF c.live THEN restored ELSE deleted
  BY DEF SetDisposition, Disposed, Plan, ControlStates
<1>2. restored.live = TRUE /\ restored.revision > 0
  BY StepType DEF ControlStates
<1>3. deleted.live = FALSE /\ deleted.revision > 0
  BY FencedType DEF ControlStates
<1>4. c.live \in BOOLEAN
  BY DEF Dispositions
<1> HIDE DEF restored, deleted
<1>5. CASE c.live = TRUE
  <2>1. SetDisposition(s, c).state = restored
    BY <1>1, <1>5
  <2>2. SetDisposition(restored, c).outcome = "current"
    <3>1. restored.live = c.live
      BY Zenon, <1>2, <1>5
    <3>2. \A e, x : Plan(restored, e, restored.live = c.live, TRUE, x).outcome = "current"
      BY <1>2, <3>1, PlanCurrent, Zenon
    <3> QED  BY <3>2, Zenon DEF SetDisposition
  <2> QED  BY <2>1, <2>2
<1>6. CASE c.live = FALSE
  <2>1. SetDisposition(s, c).state = deleted
    BY <1>1, <1>6
  <2>2. SetDisposition(deleted, c).outcome = "current"
    <3>1. deleted.live = c.live
      BY Zenon, <1>3, <1>6
    <3>2. \A e, x : Plan(deleted, e, deleted.live = c.live, TRUE, x).outcome = "current"
      BY <1>3, <3>1, PlanCurrent, Zenon
    <3> QED  BY <3>2, Zenon DEF SetDisposition
  <2> QED  BY <2>1, <2>2
<1> QED  BY Zenon, <1>4, <1>5, <1>6

LEMMA GrantRetry ==
  ASSUME NEW s \in ControlStates, NEW c \in Grants(Nat), GrantWriter(s, c).outcome = "applied"
  PROVE  GrantWriter(GrantWriter(s, c).state, c).outcome = "current"
<1> DEFINE next == [Fenced(s) EXCEPT !.writer = c.writer, !.recovery = None]
<1>1. GrantWriter(s, c).state = next /\ s.live
  BY DEF GrantWriter, Plan, ControlStates
<1>2. /\ next.revision > 0
      /\ next.writer = c.writer /\ next.recovery = None /\ next.live
  BY <1>1, StepType, FencedType DEF ControlStates
<1> HIDE DEF next
<1>3. GrantWriter(next, c).outcome = "current"
  BY <1>2 DEF GrantWriter, Plan
<1> QED  BY <1>1, <1>3

LEMMA FenceRetry ==
  ASSUME NEW s \in ControlStates, NEW c \in Fences(Nat), FenceWriter(s, c).outcome = "applied"
  PROVE  FenceWriter(FenceWriter(s, c).state, c).outcome = "current"
<1> DEFINE next == [Fenced(s) EXCEPT !.writer = None]
<1>1. FenceWriter(s, c).state = next /\ s.revision > 0
  BY DEF FenceWriter, Plan, ControlStates
<1>2. /\ next.revision > 0
      /\ next.writer = None
  BY <1>1, StepType, FencedType DEF ControlStates
<1> HIDE DEF next
<1>3. FenceWriter(next, c).outcome = "current"
  BY <1>2 DEF FenceWriter, Plan
<1> QED  BY <1>1, <1>3

LEMMA RecoverRetry ==
  ASSUME NEW s \in ControlStates, NEW c \in BeginRecoveries(Nat), BeginRecovery(s, c).outcome = "applied"
  PROVE  BeginRecovery(BeginRecovery(s, c).state, c).outcome = "current"
<1> DEFINE next == [Fenced(s) EXCEPT !.copies = c.recovery.targets, !.writer = None,
                                     !.recovery = c.recovery, !.replacement = None]
<1>1. BeginRecovery(s, c).state = next /\ s.revision > 0
  BY DEF BeginRecovery, Plan, ControlStates
<1>2. /\ next.revision > 0
      /\ next.writer = None /\ next.recovery = c.recovery
      /\ next.copies = c.recovery.targets /\ next.replacement = None
  BY <1>1, StepType, FencedType DEF ControlStates
<1> HIDE DEF next
<1>3. BeginRecovery(next, c).outcome = "current"
  BY <1>2 DEF BeginRecovery, Plan
<1> QED  BY <1>1, <1>3

LEMMA RevokeRetry ==
  ASSUME NEW s \in ControlStates, NEW c \in Revocations(Nat), RevokeRecovery(s, c).outcome = "applied"
  PROVE  RevokeRecovery(RevokeRecovery(s, c).state, c).outcome = "current"
<1> DEFINE next == [Step(s) EXCEPT !.recovery = None]
<1>1. RevokeRecovery(s, c).state = next /\ s.revision > 0
  BY DEF RevokeRecovery, Plan, ControlStates
<1>2. /\ next.revision > 0
      /\ next.recovery = None
  BY <1>1, StepType, FencedType DEF ControlStates
<1> HIDE DEF next
<1>3. RevokeRecovery(next, c).outcome = "current"
  BY <1>2 DEF RevokeRecovery, Plan
<1> QED  BY <1>1, <1>3

LEMMA ReplaceRetry ==
  ASSUME NEW s \in ControlStates, NEW c \in BeginReplacements(Nat), BeginReplacement(s, c).outcome = "applied"
  PROVE  BeginReplacement(BeginReplacement(s, c).state, c).outcome = "current"
<1> DEFINE next == [Step(s) EXCEPT !.replacement = c.replacement]
<1>1. BeginReplacement(s, c).state = next /\ s.revision > 0
  BY DEF BeginReplacement, Plan, ControlStates
<1>2. /\ next.revision > 0
      /\ next.replacement = c.replacement
  BY <1>1, StepType, FencedType DEF ControlStates
<1> HIDE DEF next
<1>3. BeginReplacement(next, c).outcome = "current"
  BY <1>2 DEF BeginReplacement, Plan
<1> QED  BY <1>1, <1>3

LEMMA CancelRetry ==
  ASSUME NEW s \in ControlStates, NEW c \in Cancellations(Nat), CancelReplacement(s, c).outcome = "applied"
  PROVE  CancelReplacement(CancelReplacement(s, c).state, c).outcome = "current"
<1> DEFINE next == [Step(s) EXCEPT !.replacement = None]
<1>1. CancelReplacement(s, c).state = next /\ s.revision > 0
  BY DEF CancelReplacement, Plan, ControlStates
<1>2. /\ next.revision > 0
      /\ next.replacement = None
  BY <1>1, StepType, FencedType DEF ControlStates
<1> HIDE DEF next
<1>3. CancelReplacement(next, c).outcome = "current"
  BY <1>2 DEF CancelReplacement, Plan
<1> QED  BY <1>1, <1>3

LEMMA AdoptRetry ==
  ASSUME NEW s \in ControlStates, NEW c \in Adoptions(Nat), AdoptReplacement(s, c).outcome = "applied"
  PROVE  AdoptReplacement(AdoptReplacement(s, c).state, c).outcome = "current"
<1> DEFINE next == [Fenced(s) EXCEPT !.copies = c.copies, !.replacement = None]
<1>1. AdoptReplacement(s, c).state = next /\ s.live /\ s.writer = c.writer
  BY DEF AdoptReplacement, Plan, ControlStates
<1>2. /\ next.revision > 0
      /\ next.live /\ next.replacement = None
      /\ next.copies = c.copies /\ next.writer = c.writer
  BY <1>1, StepType, FencedType DEF ControlStates
<1> HIDE DEF next
<1>3. AdoptReplacement(next, c).outcome = "current"
  BY <1>2 DEF AdoptReplacement, Plan
<1> QED  BY <1>1, <1>3

\* Submitting an applied command once more always reports it as current, so a
\* proposer whose answer was lost never applies it twice (evaluate).
THEOREM RetriesReportCurrent == Spec => []RetryReportsCurrent
<1>1. Init => Sound(control)
  BY InitSound
<1>2. Sound(control) /\ [Next]_vars => Sound(control)'
  BY ApplyKeeps DEF Keeps, vars
<1>3. Sound(control) => RetryReportsCurrent
  <2> SUFFICES ASSUME Sound(control), NEW c \in Commands(Read), Evaluate(control, c).outcome = "applied"
               PROVE  Evaluate(Evaluate(control, c).state, c).outcome = "current"
    BY DEF RetryReportsCurrent
  <2>0. control \in ControlStates /\ Read \subseteq Nat
    BY DEF Sound, Read, ControlStates
  <2>1. CASE c \in Initializations
    <3>1. c \in Initializations /\ Evaluate(control, c) = Initialize(control, c)
          /\ \A t : Evaluate(t, c) = Initialize(t, c)
      BY <2>0, <2>1 DEF Initializations, Evaluate
    <3> QED  BY <2>0, <3>1, InitializeRetry
  <2>2. CASE c \in Expansions(Read)
    <3>1. c \in Expansions(Nat) /\ Evaluate(control, c) = Expand(control, c)
          /\ \A t : Evaluate(t, c) = Expand(t, c)
      BY <2>0, <2>2 DEF Expansions, Evaluate
    <3> QED  BY <2>0, <3>1, ExpandRetry
  <2>3. CASE c \in Dispositions(Read)
    <3>1. c \in Dispositions(Nat) /\ Evaluate(control, c) = SetDisposition(control, c)
          /\ \A t : Evaluate(t, c) = SetDisposition(t, c)
      BY <2>0, <2>3 DEF Dispositions, Evaluate
    <3> QED  BY <2>0, <3>1, DispositionRetry
  <2>4. CASE c \in Grants(Read)
    <3>1. c \in Grants(Nat) /\ Evaluate(control, c) = GrantWriter(control, c)
          /\ \A t : Evaluate(t, c) = GrantWriter(t, c)
      BY <2>0, <2>4 DEF Grants, Evaluate
    <3> QED  BY <2>0, <3>1, GrantRetry
  <2>5. CASE c \in Fences(Read)
    <3>1. c \in Fences(Nat) /\ Evaluate(control, c) = FenceWriter(control, c)
          /\ \A t : Evaluate(t, c) = FenceWriter(t, c)
      BY <2>0, <2>5 DEF Fences, Evaluate
    <3> QED  BY <2>0, <3>1, FenceRetry
  <2>6. CASE c \in BeginRecoveries(Read)
    <3>1. c \in BeginRecoveries(Nat) /\ Evaluate(control, c) = BeginRecovery(control, c)
          /\ \A t : Evaluate(t, c) = BeginRecovery(t, c)
      BY <2>0, <2>6 DEF BeginRecoveries, Evaluate
    <3> QED  BY <2>0, <3>1, RecoverRetry
  <2>7. CASE c \in Revocations(Read)
    <3>1. c \in Revocations(Nat) /\ Evaluate(control, c) = RevokeRecovery(control, c)
          /\ \A t : Evaluate(t, c) = RevokeRecovery(t, c)
      BY <2>0, <2>7 DEF Revocations, Evaluate
    <3> QED  BY <2>0, <3>1, RevokeRetry
  <2>8. CASE c \in BeginReplacements(Read)
    <3>1. c \in BeginReplacements(Nat) /\ Evaluate(control, c) = BeginReplacement(control, c)
          /\ \A t : Evaluate(t, c) = BeginReplacement(t, c)
      BY <2>0, <2>8 DEF BeginReplacements, Evaluate
    <3> QED  BY <2>0, <3>1, ReplaceRetry
  <2>9. CASE c \in Cancellations(Read)
    <3>1. c \in Cancellations(Nat) /\ Evaluate(control, c) = CancelReplacement(control, c)
          /\ \A t : Evaluate(t, c) = CancelReplacement(t, c)
      BY <2>0, <2>9 DEF Cancellations, Evaluate
    <3> QED  BY <2>0, <3>1, CancelRetry
  <2>10. CASE c \in Adoptions(Read)
    <3>1. c \in Adoptions(Nat) /\ Evaluate(control, c) = AdoptReplacement(control, c)
          /\ \A t : Evaluate(t, c) = AdoptReplacement(t, c)
      BY <2>0, <2>10 DEF Adoptions, Evaluate
    <3> QED  BY <2>0, <3>1, AdoptRetry
  <2> QED  BY <2>1, <2>2, <2>3, <2>4, <2>5, <2>6, <2>7, <2>8, <2>9, <2>10 DEF Commands
<1> QED  BY <1>1, <1>2, <1>3, PTL DEF Spec
=============================================================================
