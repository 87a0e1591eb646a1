-------------------------- MODULE DirectGeneration --------------------------
(***************************************************************************)
(* The direct-generation baseline: the model is asked for the schedule     *)
(* itself, a bounded number of times, and each item's attempts become one  *)
(* record of a ledger without a lock.  A run that resumes a ledger drops   *)
(* the records the validator never saw, by writing the file again in       *)
(* place, and goes on behind the rest.                                     *)
(***************************************************************************)
EXTENDS Iteration, SequencesExt, FiniteSetsExt

CONSTANTS
  Item,          \* EXECUTE requests with a topology, in the order of the harness
  Selections,    \* what --only or --limit may name, in that order
  MaxRetries,    \* of one item
  MaxWaits,      \* how often a rate limit is waited out
  MaxInvocations, MaxInterrupts    \* bounds on runs, and on interrupted ones

ASSUME SelectionAssumption ==
  /\ Item \in Seq(ToSet(Item))
  /\ \A s \in Selections :
       s \in Seq(ToSet(s)) /\ \A i, j \in 1 .. Len(s) : s[i] = s[j] => i = j
ASSUME AttemptAssumption == MaxRetries \in Nat /\ MaxWaits \in Nat

Absent == [exists |-> FALSE, lines |-> <<>>, torn |-> FALSE]

VARIABLES
  baseline,     \* the ledger: records, and whether its last line is cut
  at,           \* where the run is
  kept,         \* the records a resuming run keeps
  todo,         \* the items it still runs
  selection,    \* its items
  invocations, interrupts,
  everMeasured, \* the items some run has measured and written
  cutRewrite    \* a run was interrupted while it wrote the ledger again

bvars == <<baseline, at, kept, todo, selection, invocations, interrupts,
           everMeasured, cutRewrite>>

BInit ==
  /\ baseline = Absent
  /\ at = "off"
  /\ kept = <<>> /\ todo = <<>> /\ selection = <<>>
  /\ invocations = 0 /\ interrupts = 0
  /\ everMeasured = {} /\ cutRewrite = FALSE

-----------------------------------------------------------------------------
(* What one request to the provider comes back as after 'waits' rate       *)
(* limits: each is waited out, until there have been too many.             *)
generate_with_backoff(waits, answer) ==
  IF waits > MaxWaits THEN "RATE_LIMITED" ELSE answer

Answered == {"unparsed", "invalid", "valid"}
Replies ==
  {generate_with_backoff(w, a) : w \in 0 .. MaxWaits + 1,
                                 a \in Answered \cup {"provider", "transport"}}

(* The attempts of an item: another one after every failure, none after a  *)
(* valid schedule.                                                         *)
run_item ==
  {s \in UNION {[1 .. n -> Replies] : n \in 1 .. MaxRetries + 1} :
     /\ \A i \in 1 .. Len(s) - 1 : s[i] # "valid"
     /\ Len(s) = MaxRetries + 1 \/ s[Len(s)] = "valid"}

(* An item is measured when the validator saw one of its attempts, and     *)
(* valid when it accepted the last.                                        *)
Outcome(attempts) ==
  [measured |-> \E i \in DOMAIN attempts : attempts[i] \in {"valid", "invalid"},
   valid |-> attempts[Len(attempts)] = "valid"]

Outcomes == {Outcome(attempts) : attempts \in run_item}

-----------------------------------------------------------------------------

MeasuredLines == {l \in ToSet(baseline.lines) : l.outcome.measured}
Done == {l.item : l \in MeasuredLines}

(* A run that is not to resume refuses a ledger; a cut line cannot be read. *)
CanStart == ~baseline.exists \/ ~baseline.torn

Remaining(s) == Filter(s, ToSet(s) \ Done)

(* Where a run goes on with its selection.                                 *)
Selected(s, remaining) ==
  CASE ~(ToSet(s) \subseteq ToSet(Item)) -> "off"
    [] remaining = <<>> -> "completed"
    [] OTHER -> "open"

(* The ledger is tidied before the selection is looked at: one that names  *)
(* an item there is not ends the run behind that.                          *)
Invoke(s) ==
  /\ at \in {"off", "completed"}
  /\ invocations < MaxInvocations
  /\ CanStart
  /\ invocations' = invocations + 1
  /\ selection' = s
  /\ todo' = Remaining(s)
  /\ kept' = Filter(baseline.lines, MeasuredLines)
  /\ at' = IF kept' # baseline.lines THEN "rewrite" ELSE Selected(s, todo')
  /\ UNCHANGED <<baseline, interrupts, everMeasured, cutRewrite>>

(* The file is truncated and the kept records are written to it.           *)
Rewrite ==
  /\ at = "rewrite"
  /\ baseline' = [baseline EXCEPT !.lines = kept]
  /\ at' = Selected(selection, todo)
  /\ UNCHANGED <<kept, todo, selection, invocations, interrupts, everMeasured, cutRewrite>>

(* A mutation of OpenLedger: the ledger is opened to be written anew.      *)
OpenEmptied ==
  /\ at = "open"
  /\ baseline' = [exists |-> TRUE, lines |-> <<>>, torn |-> FALSE]
  /\ at' = "items"
  /\ UNCHANGED <<kept, todo, selection, invocations, interrupts, everMeasured, cutRewrite>>

(* To be appended to, or written anew when no item is done.                *)
OpenLedger ==
  /\ at = "open"
  /\ baseline' = [exists |-> TRUE, torn |-> FALSE,
                  lines |-> IF kept = <<>> THEN <<>> ELSE baseline.lines]
  /\ at' = "items"
  /\ UNCHANGED <<kept, todo, selection, invocations, interrupts, everMeasured, cutRewrite>>

RunItem(outcome) ==
  /\ at = "items"
  /\ baseline' = [baseline EXCEPT !.lines =
                    Append(@, [item |-> Head(todo), outcome |-> outcome])]
  /\ everMeasured' = IF outcome.measured THEN everMeasured \cup {Head(todo)} ELSE everMeasured
  /\ todo' = Tail(todo)
  /\ at' = IF todo' = <<>> THEN "completed" ELSE "items"
  /\ UNCHANGED <<kept, selection, invocations, interrupts, cutRewrite>>

-----------------------------------------------------------------------------

Interrupted ==
  /\ interrupts < MaxInterrupts
  /\ interrupts' = interrupts + 1
  /\ at' = "off"
  /\ UNCHANGED <<kept, todo, selection, invocations, everMeasured>>

(* In the middle of a rewrite, or of a record: what was put out stays.     *)
InterruptRewrite(n, torn) ==
  /\ at = "rewrite"
  /\ n < Len(kept)
  /\ baseline' = [exists |-> TRUE, lines |-> SubSeq(kept, 1, n), torn |-> torn]
  /\ cutRewrite' = TRUE
  /\ Interrupted

InterruptItem(torn) ==
  /\ at \in {"open", "items"}
  /\ baseline' = IF at = "items" THEN [baseline EXCEPT !.torn = torn] ELSE baseline
  /\ Interrupted
  /\ UNCHANGED cutRewrite

(* The operator takes the cut line out: --resume fails on it.              *)
Repair ==
  /\ at = "off"
  /\ baseline.torn
  /\ baseline' = [baseline EXCEPT !.torn = FALSE]
  /\ UNCHANGED <<at, kept, todo, selection, invocations, interrupts, everMeasured, cutRewrite>>

BStep == Rewrite \/ OpenLedger \/ \E o \in Outcomes : RunItem(o)
BFault ==
  \/ \E n \in 0 .. Len(Item), torn \in BOOLEAN : InterruptRewrite(n, torn)
  \/ \E torn \in BOOLEAN : InterruptItem(torn)
BNext == (\E s \in Selections : Invoke(s)) \/ BStep \/ BFault \/ Repair

-----------------------------------------------------------------------------

(* No item has two records, and only a rewrite that was cut short can lose *)
(* a measured one; a run that completes leaves a record of each of its     *)
(* items, and those that were refused before it are its own.               *)
ResumeMeasuresOnce ==
  /\ \A i, j \in DOMAIN baseline.lines :
        baseline.lines[i].item = baseline.lines[j].item => i = j
  /\ at \in {"off", "open", "items", "completed"} /\ ~cutRewrite => everMeasured \subseteq Done
  /\ at = "completed" =>
       /\ ToSet(selection) \subseteq {l.item : l \in ToSet(baseline.lines)}
       /\ \A l \in ToSet(kept) : l.outcome.measured
       /\ kept = SubSeq(baseline.lines, 1, Len(kept))

(* A run of the baseline ends.                                             *)
BaselineEnds == at # "off" ~> at \in {"off", "completed"}
=============================================================================
