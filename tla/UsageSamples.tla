---------------------------- MODULE UsageSamples ----------------------------
(***************************************************************************)
(* A direct usage answer is sampled several times (direct.py,              *)
(* _fetch_stable_wham_usage and _select_stable_wham_usage).                *)
(*                                                                         *)
(* The service may answer from an old copy, or leave a window out, and the *)
(* windows go on while the samples are taken: they fill up and they reset. *)
(* From a few samples one answer is chosen, or the batch is rejected and   *)
(* taken again.                                                            *)
(*                                                                         *)
(* A window says how much is used and when it resets: by the time of the   *)
(* reset ("at", here the number of resets so far), by the seconds left     *)
(* ("after"), by both or by neither.  Percentages and seconds are scaled.  *)
(* All samples name the same account.  Credits and other fields that are   *)
(* copied from the latest sample are left out.  External: the service.     *)
(***************************************************************************)
EXTENDS Integers, Sequences, FiniteSets

CONSTANTS Samples,       \* DIRECT_RESPONSE_SAMPLE_COUNT
          Attempts,      \* DIRECT_STABILITY_ATTEMPTS
          Span,          \* length of a window
          Margin,        \* DIRECT_RESET_TRANSITION_MARGIN_SECONDS
          Jump,          \* DIRECT_PROGRESSIVE_STEP_PERCENT
          MaxUsed,       \* bound: 100 percent
          MaxMoves,      \* bound: changes of the windows
          MaxOddities    \* bound: old or incomplete answers

Slots   == {"primary_window", "secondary_window"}
None    == -1
Absent  == [used |-> None, at |-> None, after |-> None]
Forms   == {"at", "after", "both", "neither"}
NoBatch == <<>>

VARIABLES
  windows,               \* the windows as they are
  copy,                  \* an old copy of them
  form,                  \* what the service says about resets
  samples,               \* the answers of this attempt
  attempt,               \* its number
  chosen,                \* the answer chosen, or none
  moves, oddities        \* changes and odd answers so far

vars == <<windows, copy, form, samples, attempt, chosen, moves, oddities>>

Nothing == [slot \in Slots |-> Absent]

Init ==
  /\ form \in Forms
  /\ windows \in [Slots -> [used : 0..(MaxUsed - 1), at : {0}, after : 0..Span]]
  /\ copy = windows
  /\ samples = NoBatch /\ attempt = 1 /\ chosen = Nothing
  /\ moves = 0 /\ oddities = 0

(***************************************************************************)
(* What is compared.                                                       *)
(***************************************************************************)
Present(w)  == w # Absent
Complete(r) == {slot \in Slots : Present(r[slot])}        \* _supported_window_durations
Phase(w)    == CASE w.after = None -> "none"
                 [] w.after <= Margin /\ w.after # None -> "near-reset"
                 [] w.after >= Span - Margin -> "fresh"
                 [] OTHER -> "none"
Identity(w) == CASE w.after # None -> <<"after", Span>>   \* _signature_reset_identity
                 [] w.after = None /\ w.at # None -> <<"at", w.at>>
                 [] OTHER -> <<"none", 0>>
Signature(r) == [slot \in Slots |-> <<Present(r[slot]), r[slot].used, Identity(r[slot]), Phase(r[slot])>>]

Latest(s)  == s[Len(s)]
First(S)   == CHOOSE i \in S : \A j \in S : i <= j
Last(S)    == CHOOSE i \in S : \A j \in S : i >= j

\* The group of equal samples that is most complete, then largest, then first.
Best(s) ==
  LET equal(i) == {j \in DOMAIN s : Signature(s[j]) = Signature(s[i])}
      groups   == {equal(i) : i \in DOMAIN s}
      rank(g)  == (Cardinality(Complete(s[First(g)])) * (Len(s) + 1) + Cardinality(g)) * (Len(s) + 1)
                    - First(g)
  IN  CHOOSE g \in groups : \A h \in groups : rank(g) >= rank(h)

\* _has_conflicting_partial_windows: another window would be dropped silently.
DropsWindow(s, best) ==
  LET kept == Complete(s[First(best)])   latest == Complete(Latest(s))
  IN  IF kept = Slots THEN latest # {} /\ latest # kept
      ELSE UNION {Complete(s[i]) : i \in DOMAIN s} # kept

\* _usage_response_progresses; None: no limit to a step.
Progresses(s, limit) ==
  LET seen == {slot \in Slots : \E i \in DOMAIN s : Present(s[i][slot])}
  IN  /\ seen # {}
      /\ \A slot \in seen :
           /\ \A i \in DOMAIN s : Present(s[i][slot])
           /\ \A i \in DOMAIN s : Identity(s[i][slot]) = Identity(s[1][slot])
           /\ Identity(s[1][slot])[1] # "none"
           /\ \A i \in 1..(Len(s) - 1) :
                LET step == s[i + 1][slot].used - s[i][slot].used
                IN  step >= 0 /\ (limit # None => step <= limit)

\* _latest_response_progresses_beyond_group
ProgressesBeyond(s, best) ==
  LET latest == Latest(s)   stable == s[First(best)]
  IN  /\ Progresses(s, None)
      /\ Complete(latest) = Complete(stable)
      /\ \A slot \in Complete(latest) : latest[slot].used >= stable[slot].used
      /\ \E slot \in Complete(latest) : latest[slot].used > stable[slot].used

Restarted(old, new) ==
  old.after # None /\ new.after # None /\ new.after > old.after /\ new.after >= Span - Margin

\* _latest_response_is_relative_reset
RelativeReset(s, best) ==
  LET old == s[Last(best)]   new == Latest(s)   both == Complete(old)
  IN  /\ Len(s) \notin best
      /\ Complete(new) = both
      /\ \A slot \in both :
           /\ new[slot].used > old[slot].used =>
                /\ Identity(new[slot]) = Identity(old[slot])
                /\ new[slot].used - old[slot].used <= Jump
           /\ new[slot].used < old[slot].used => Restarted(old[slot], new[slot])
      /\ \E slot \in both :
           new[slot].used <= old[slot].used /\ Restarted(old[slot], new[slot])

\* _latest_response_is_absolute_reset
AbsoluteReset(s, best) ==
  LET old == s[Last(best)]   new == Latest(s)   both == Complete(old)
      Known(slot)   == old[slot].at # None /\ new[slot].at # None
      Forward(slot) == Known(slot) /\ new[slot].at > old[slot].at
  IN  /\ Len(s) \notin best
      /\ Complete(new) = both
      /\ \A slot \in both :
           IF Forward(slot) THEN new[slot].used <= old[slot].used
           ELSE /\ Known(slot) => new[slot].at = old[slot].at
                /\ new[slot].used \in old[slot].used..(old[slot].used + Jump)
      /\ \E slot \in both : Forward(slot)

\* A mutant of Regresses: only the identities and the phases are compared.
RegressesInIdentity(s) ==
  \E i \in 1..(Len(s) - 1), slot \in Slots :
    LET old == s[i][slot]   new == s[i + 1][slot]
    IN  /\ Present(old) /\ Present(new)
        /\ \/ Identity(old)[1] = Identity(new)[1] /\ Identity(new)[2] < Identity(old)[2]
           \/ Phase(new) # Phase(old) /\ Phase(new) = "fresh"

\* _has_reset_regression
Regresses(s) ==
  \E i \in 1..(Len(s) - 1), slot \in Slots :
    LET old == s[i][slot]   new == s[i + 1][slot]
    IN  /\ Present(old) /\ Present(new)
        /\ \/ Identity(old)[1] = Identity(new)[1] /\ Identity(new)[2] < Identity(old)[2]
           \/ new.used < old.used
           \/ Phase(new) # Phase(old) /\ Phase(new) = "fresh"

\* _select_stable_wham_usage: the place of the chosen sample, 0 for none.
Select(s) ==
  LET best  == Best(s)   latest == Len(s)
      reset == RelativeReset(s, best) \/ AbsoluteReset(s, best)
  IN  IF DropsWindow(s, best) THEN 0
      ELSE IF reset THEN latest
      ELSE IF latest \notin best /\ Regresses(s) THEN 0
      ELSE IF Cardinality(best) * 2 <= latest THEN (IF Progresses(s, Jump) THEN latest ELSE 0)
      ELSE IF ProgressesBeyond(s, best) THEN latest ELSE First(best)

(***************************************************************************)
(* Sampling.                                                               *)
(***************************************************************************)
Told(w) == [used |-> w.used,
            at    |-> IF form \in {"at", "both"} THEN w.at ELSE None,
            after |-> IF form \in {"after", "both"} THEN w.after ELSE None]

\* _fetch_wham_usage: the windows of now, of the old copy, or with one left out.
Sample ==
  /\ Len(samples) < Samples /\ attempt <= Attempts /\ chosen = Nothing
  /\ \/ /\ samples' = Append(samples, [slot \in Slots |-> Told(windows[slot])])
        /\ UNCHANGED oddities
     \/ /\ oddities < MaxOddities /\ oddities' = oddities + 1
        /\ \/ samples' = Append(samples, [slot \in Slots |-> Told(copy[slot])])
           \/ \E left \in Slots :
                samples' = Append(samples, [slot \in Slots |->
                             IF slot = left THEN Absent ELSE Told(windows[slot])])
  /\ UNCHANGED <<windows, copy, form, attempt, chosen, moves>>

\* _fetch_stable_wham_usage: a batch that is rejected, or whose flags or model
\* limits differ, is taken again.
Choose ==
  /\ Len(samples) = Samples /\ chosen = Nothing
  /\ LET place == Select(samples) IN
       \/ /\ place # 0 /\ chosen' = samples[place]
          /\ UNCHANGED <<samples, attempt>>
       \/ /\ attempt <= Attempts
          /\ attempt' = attempt + 1 /\ samples' = NoBatch /\ UNCHANGED chosen
  /\ UNCHANGED <<windows, copy, form, moves, oddities>>

\* The windows go on: one is used, one resets, or time passes.
Move ==
  /\ moves < MaxMoves /\ moves' = moves + 1
  /\ Len(samples) \in 1..(Samples - 1)   \* between two samples
  /\ \/ \E slot \in Slots :
          \/ /\ windows[slot].used < MaxUsed
             /\ windows' = [windows EXCEPT ![slot].used = @ + 1]
          \/ windows' = [windows EXCEPT ![slot] = [used |-> 0, at |-> @.at + 1, after |-> Span]]
     \/ windows' = [slot \in Slots |-> [windows[slot] EXCEPT !.after = IF @ > 0 THEN @ - 1 ELSE @]]
  /\ UNCHANGED <<copy, form, samples, attempt, chosen, oddities>>

Next == Sample \/ Choose \/ Move

Spec == Init /\ [][Next]_vars

(***************************************************************************)
(* Properties.                                                             *)
(***************************************************************************)
TypeOK ==
  /\ Len(samples) <= Samples /\ attempt \in 1..(Attempts + 1)
  /\ chosen = Nothing \/ \E i \in DOMAIN samples : chosen = samples[i]

\* The answer chosen is the latest sample or one that most samples repeat; no
\* window of the latest sample is left out; and where the latest sample shows
\* less used, older samples do not outvote it (direct.py:1610-1612: "A lower
\* usage value is still a reset signal and must not lose to an older majority
\* when it is the last sample").
ChosenIsCurrent ==
  chosen # Nothing =>
    /\ \/ chosen = Latest(samples)
       \/ 2 * Cardinality({i \in DOMAIN samples : Signature(samples[i]) = Signature(chosen)}) > Len(samples)
    /\ Complete(Latest(samples)) \subseteq Complete(chosen)
    /\ \A slot \in Complete(Latest(samples)) : chosen[slot].used <= Latest(samples)[slot].used

(***************************************************************************)
(* What makes the property inductive.                                      *)
(***************************************************************************)

\* What the proofs need of the constants.  The code takes three samples; of five,
\* a window that is left out may hide what was used between two of them.
SampleConstants == Samples \in 1 .. 4 /\ Span \in Int /\ MaxUsed \in Int

Answer == [Slots -> [used : Int, at : Int, after : Int]]
SampleInv ==
  /\ windows \in Answer /\ copy \in Answer /\ samples \in Seq(Answer)
  /\ chosen # Nothing => Len(samples) = Samples /\ ChosenIsCurrent
=============================================================================
