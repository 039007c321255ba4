---------------------------- MODULE VolumeControl ----------------------------
(***************************************************************************)
(* The Raft-applied control state of one replicated volume: committed      *)
(* commands are evaluated in log order, whatever their proposers read.     *)
(***************************************************************************)
EXTENDS VolumeCommands

CONSTANT MaxRevision   \* bounds the explored history

VARIABLE control       \* VolumeControlState after the last applied entry

vars == <<control>>

Init == control = Uninitialized

\* VolumeStateMachine::apply; a plan that changes nothing is a stuttering step.
Apply(cmds) ==
  /\ control.revision < MaxRevision
  /\ \E c \in cmds :
       LET plan == Evaluate(control, c) IN
       /\ plan.outcome = "applied"
       /\ control' = plan.state

Read == {control.revision}

Next ==
  \/ Apply(Initializations)
  \/ Apply(Expansions(Read))
  \/ Apply(Dispositions(Read))
  \/ Apply(Grants(Read))
  \/ Apply(Fences(Read))
  \/ Apply(BeginRecoveries(Read))
  \/ Apply(Revocations(Read))
  \/ Apply(BeginReplacements(Read))
  \/ Apply(Cancellations(Read))
  \/ Apply(Adoptions(Read))

Spec == Init /\ [][Next]_vars

TypeOK == control \in ControlStates

-----------------------------------------------------------------------------
(* Properties *)

\* Every control state the log can produce satisfies VolumeControlState::validate,
\* so the debug assertion of a plan never fires: a recovery excludes a writer and
\* a replacement, and every authority names current copies.
ControlValid == Valid(control)

Holder(s) == IF s.writer # None THEN s.writer ELSE s.recovery

Separated(s, t) ==
  \/ t.fence > s.fence
  \/ /\ t.fence = s.fence
     /\ t.copies = s.copies
     /\ Holder(t) \in {Holder(s), None}

\* Under one fence the copies never change and only one authority, a writer or a
\* recovery, is ever granted: whoever else is given data access, or whatever set
\* of copies it must reach, comes with a newer fence that the copies can tell
\* from the old one (every plan that grants or adopts advances the fence).
FenceSeparates == [][Separated(control, control')]_vars

\* A proposer that lost the answer may submit the same command again: whatever
\* it applied the first time, the second evaluation reports it as current
\* instead of applying it again or reporting a conflict (each evaluator compares
\* the postcondition before the expected revision).
RetryReportsCurrent ==
  \A c \in Commands(Read) :
    LET plan == Evaluate(control, c) IN
    plan.outcome = "applied" => Evaluate(plan.state, c).outcome = "current"
=============================================================================
