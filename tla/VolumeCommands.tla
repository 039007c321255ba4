---------------------------- MODULE VolumeCommands ----------------------------
(***************************************************************************)
(* The commands of one replicated volume's Raft group, as functions from   *)
(* the applied control state to the next one                               *)
(* (crates/mantissa-volume/src/control_state.rs).                          *)
(*                                                                         *)
(* A control state names the copies every durable write must reach, the    *)
(* one foreground writer, and the one recovery or replacement that may     *)
(* move data; `fence' rejects data operations of an older authority.       *)
(* `revision' is the compare-and-set token: a command carries the revision *)
(* its proposer read.  The generation is fixed for a group, and a command  *)
(* naming another one is rejected without effect, so it is left out.       *)
(***************************************************************************)
EXTENDS Integers, FiniteSets

CONSTANTS Nodes, Sessions, RecoveryIds, ReplacementIds, Capacities, None

ASSUME NoneAssumption == 
  /\ None \notin Nodes \cup RecoveryIds
  /\ None \notin [node : Nodes, session : Sessions]
  /\ Capacities \subseteq Nat

-----------------------------------------------------------------------------
(* The state and what it must satisfy *)

Writers == [node : Nodes, session : Sessions]

Recoveries ==
  [id : RecoveryIds, coordinator : Nodes, source : Nodes, targets : SUBSET Nodes]

Replacements ==
  [id : ReplacementIds, coordinator : Nodes, old : Nodes \cup {None},
   new : Nodes, source : Nodes]

ControlStates ==
  [revision : Nat, fence : Nat, capacity : Nat, live : BOOLEAN,
   copies : SUBSET Nodes, writer : Writers \cup {None},
   recovery : Recoveries \cup {None}, replacement : Replacements \cup {None}]

\* VolumeControlState::default: nothing is there before Initialize applies.
Uninitialized ==
  [revision |-> 0, fence |-> 0, capacity |-> 0, live |-> TRUE, copies |-> {},
   writer |-> None, recovery |-> None, replacement |-> None]

CopyCount(copies) == Cardinality(copies) \in 2 .. 3

\* The node whose data is copied runs the recovery, is a current copy, and stays one.
RecoverySourceOk(copies, r) ==
  /\ r.coordinator = r.source
  /\ r.source \in copies
  /\ r.source \in r.targets

StoredRecoveryOk(s) ==
  /\ s.writer = None
  /\ s.replacement = None
  /\ RecoverySourceOk(s.copies, s.recovery)
  /\ s.recovery.targets = s.copies

RequestedRecoveryOk(s, r) ==
  /\ CopyCount(r.targets)
  /\ RecoverySourceOk(s.copies, r)
  /\ r.targets \subseteq s.copies

CopiesAfter(copies, p) == (copies \ {p.old}) \cup {p.new}

ReplacementOk(s, p) ==
  /\ p.coordinator = p.source
  /\ p.source \in s.copies
  /\ s.writer # None => s.writer.node = p.source
  /\ p.new \notin s.copies
  /\ p.new # p.source
  /\ p.old \notin {p.new, p.source}
  /\ Cardinality(CopiesAfter(s.copies, p)) = 3

\* VolumeControlState::validate.
Valid(s) ==
  \/ s = Uninitialized
  \/ /\ s.revision > 0
     /\ CopyCount(s.copies)
     /\ s.writer # None => s.writer.node \in s.copies
     /\ s.recovery # None => StoredRecoveryOk(s)
     /\ s.replacement # None => ReplacementOk(s, s.replacement)
     /\ ~s.live => s.writer = None /\ s.recovery = None /\ s.replacement = None

-----------------------------------------------------------------------------
(* Evaluating a command: its postcondition is recognised first, then the   *)
(* revision it expects is compared, then its own conditions are checked.   *)

\* Mutant: the expected revision is compared before the postcondition.
PlanRevisionFirst(s, expected, holds, allowed, next) ==
  CASE s.revision = 0 \/ (s.revision = expected /\ ~holds /\ ~allowed)
                                          -> [outcome |-> "rejected", state |-> s]
    [] s.revision > 0 /\ s.revision # expected
                                          -> [outcome |-> "conflict", state |-> s]
    [] s.revision > 0 /\ s.revision = expected /\ holds
                                          -> [outcome |-> "current", state |-> s]
    [] s.revision > 0 /\ s.revision = expected /\ ~holds /\ allowed
                                          -> [outcome |-> "applied", state |-> next]

Plan(s, expected, holds, allowed, next) ==
  CASE s.revision > 0 /\ holds            -> [outcome |-> "current", state |-> s]
    [] s.revision = 0                     -> [outcome |-> "rejected", state |-> s]
    [] s.revision > 0 /\ ~holds /\ s.revision # expected
                                          -> [outcome |-> "conflict", state |-> s]
    [] s.revision > 0 /\ ~holds /\ s.revision = expected /\ ~allowed
                                          -> [outcome |-> "rejected", state |-> s]
    [] s.revision > 0 /\ ~holds /\ s.revision = expected /\ allowed
                                          -> [outcome |-> "applied", state |-> next]

Step(s) == [s EXCEPT !.revision = @ + 1]

Fenced(s) == [Step(s) EXCEPT !.fence = @ + 1]

Initialized(c) ==
  [Uninitialized EXCEPT !.revision = 1, !.fence = 1, !.capacity = c.capacity,
                        !.copies = c.copies]

Initialize(s, c) ==
  CASE s = Initialized(c)          -> [outcome |-> "current", state |-> s]
    [] s # Initialized(c) /\ (s.revision > 0 \/ Cardinality(c.copies) # 3)
                                   -> [outcome |-> "rejected", state |-> s]
    [] s # Initialized(c) /\ s.revision = 0 /\ Cardinality(c.copies) = 3
                                   -> [outcome |-> "applied", state |-> Initialized(c)]

Expand(s, c) ==
  Plan(s, c.expected,
       s.capacity = c.capacity,
       s.live /\ s.replacement = None /\ s.recovery = None /\ c.capacity >= s.capacity,
       [Step(s) EXCEPT !.capacity = c.capacity])

Disposed(s, live) ==
  IF live THEN [Step(s) EXCEPT !.live = TRUE]
  ELSE [Fenced(s) EXCEPT !.live = FALSE, !.writer = None, !.recovery = None,
                         !.replacement = None]

SetDisposition(s, c) == Plan(s, c.expected, s.live = c.live, TRUE, Disposed(s, c.live))

GrantWriter(s, c) ==
  Plan(s, c.expected,
       s.writer = c.writer /\ s.recovery = None /\ s.live,
       s.live /\ s.replacement = None /\ c.writer.node \in s.copies /\ s.recovery = None,
       [Fenced(s) EXCEPT !.writer = c.writer, !.recovery = None])

FenceWriter(s, c) ==
  Plan(s, c.expected,
       s.writer = None,
       s.writer = c.writer,
       [Fenced(s) EXCEPT !.writer = None])

\* A recovery may only replace the one it names, and never under the same id.
Replaces(s, c) ==
  IF s.recovery = None THEN c.replaced = None
  ELSE s.recovery.id = c.replaced /\ s.recovery.id # c.recovery.id

\* Mutant: the writer keeps its grant while the copies are realigned.
BeginRecoveryUnderWriter(s, c) ==
  Plan(s, c.expected,
       s.recovery = c.recovery /\ s.copies = c.recovery.targets /\ s.replacement = None,
       /\ s.live /\ s.replacement = None /\ s.writer = c.writer
       /\ Replaces(s, c) /\ RequestedRecoveryOk(s, c.recovery),
       [Fenced(s) EXCEPT !.copies = c.recovery.targets, !.recovery = c.recovery])

BeginRecovery(s, c) ==
  Plan(s, c.expected,
       /\ s.writer = None /\ s.recovery = c.recovery
       /\ s.copies = c.recovery.targets /\ s.replacement = None,
       /\ s.live /\ s.replacement = None /\ s.writer = c.writer
       /\ Replaces(s, c) /\ RequestedRecoveryOk(s, c.recovery),
       [Fenced(s) EXCEPT !.copies = c.recovery.targets, !.writer = None,
                         !.recovery = c.recovery, !.replacement = None])

RevokeRecovery(s, c) ==
  Plan(s, c.expected,
       s.recovery = None,
       s.live /\ s.recovery # None /\ s.recovery.id = c.id,
       [Step(s) EXCEPT !.recovery = None])

BeginReplacement(s, c) ==
  Plan(s, c.expected,
       s.replacement = c.replacement,
       /\ s.live /\ s.recovery = None /\ s.replacement = None
       /\ ReplacementOk(s, c.replacement),
       [Step(s) EXCEPT !.replacement = c.replacement])

CancelReplacement(s, c) ==
  Plan(s, c.expected,
       s.replacement = None,
       s.replacement # None /\ s.replacement.id = c.id,
       [Step(s) EXCEPT !.replacement = None])

\* Mutant: the new copies are adopted under the fence of the old ones.
AdoptUnfenced(s, c) ==
  Plan(s, c.expected,
       s.live /\ s.replacement = None /\ s.copies = c.copies /\ s.writer = c.writer,
       /\ s.live /\ s.replacement # None /\ s.replacement.id = c.id
       /\ s.writer = c.writer
       /\ Cardinality(c.copies) = 3 /\ s.replacement.new \in c.copies
       /\ CopiesAfter(s.copies, s.replacement) = c.copies
       /\ c.writer # None => c.writer.node \in c.copies,
       [Step(s) EXCEPT !.copies = c.copies, !.replacement = None])

AdoptReplacement(s, c) ==
  Plan(s, c.expected,
       s.live /\ s.replacement = None /\ s.copies = c.copies /\ s.writer = c.writer,
       /\ s.live /\ s.replacement # None /\ s.replacement.id = c.id
       /\ s.writer = c.writer
       /\ Cardinality(c.copies) = 3 /\ s.replacement.new \in c.copies
       /\ CopiesAfter(s.copies, s.replacement) = c.copies
       /\ c.writer # None => c.writer.node \in c.copies,
       [Fenced(s) EXCEPT !.copies = c.copies, !.replacement = None])

-----------------------------------------------------------------------------
(* Every command a proposer that read one of the revisions R can submit *)

Initializations == [op : {"initialize"}, copies : SUBSET Nodes, capacity : Capacities]

Expansions(R) == [op : {"expand"}, expected : R, capacity : Capacities]

Dispositions(R) == [op : {"dispose"}, expected : R, live : BOOLEAN]

Grants(R) == [op : {"grant"}, expected : R, writer : Writers]

Fences(R) == [op : {"fence"}, expected : R, writer : Writers]

BeginRecoveries(R) ==
  [op : {"recover"}, expected : R, writer : Writers \cup {None},
   replaced : RecoveryIds \cup {None}, recovery : Recoveries]

Revocations(R) == [op : {"revoke"}, expected : R, id : RecoveryIds]

BeginReplacements(R) == [op : {"replace"}, expected : R, replacement : Replacements]

Cancellations(R) == [op : {"cancel"}, expected : R, id : ReplacementIds]

Adoptions(R) ==
  [op : {"adopt"}, expected : R, id : ReplacementIds, copies : SUBSET Nodes,
   writer : Writers \cup {None}]

Commands(R) ==
  UNION {Initializations, Expansions(R), Dispositions(R), Grants(R), Fences(R),
         BeginRecoveries(R), Revocations(R), BeginReplacements(R), Cancellations(R),
         Adoptions(R)}

Evaluate(s, c) ==
  CASE c.op = "initialize" -> Initialize(s, c)
    [] c.op = "expand"     -> Expand(s, c)
    [] c.op = "dispose"    -> SetDisposition(s, c)
    [] c.op = "grant"      -> GrantWriter(s, c)
    [] c.op = "fence"      -> FenceWriter(s, c)
    [] c.op = "recover"    -> BeginRecovery(s, c)
    [] c.op = "revoke"     -> RevokeRecovery(s, c)
    [] c.op = "replace"    -> BeginReplacement(s, c)
    [] c.op = "cancel"     -> CancelReplacement(s, c)
    [] c.op = "adopt"      -> AdoptReplacement(s, c)

=============================================================================
