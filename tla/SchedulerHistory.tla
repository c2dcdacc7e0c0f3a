-------------------------- MODULE SchedulerHistory --------------------------
(***************************************************************************)
(* The scheduler with a history variable, for what an iteration owes to    *)
(* the admissions of the one before it.                                    *)
(***************************************************************************)
EXTENDS SchedulerProperties

VARIABLE newest   \* {s} from the admission of s, if none followed it in its
                  \* iteration, to the end of the next loop over the decodes

hvars == <<vars, newest>>

HInit == Init /\ newest = {}

Remember ==
  newest' = IF Admit THEN {Candidate} ELSE IF EndDecodes THEN {} ELSE newest

HNext == Next /\ Remember

HSpec == HInit /\ [][HNext]_hvars

HFairSpec == HSpec /\ WF_vars(SchedulerStep) /\ WF_vars(Outcome)
-----------------------------------------------------------------------------
\* The decodes after an admission find the blocks they need: no sequence gives way
\* in them but the one admitted last, and that one only for its own token.  This is
\* what the blocks an admission leaves free are for (the comment at decode_reserve
\* in _plan_admissions); they are still free, and enough, after the other admissions
\* of the iteration and whatever its results end.
AdmissionCostsNobody ==
  [][newest # {} =>
       \A s \in Sequences :
         Live(s) /\ status'[s] = "WAITING" => s \in newest /\ running[index] = s]_hvars
=============================================================================
