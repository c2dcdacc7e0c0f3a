------------------------------- MODULE Service -------------------------------
(***************************************************************************)
(* What the engine promises a client of InferenceEngine: a request is      *)
(* accepted only while the ingress is open, and an accepted request ends   *)
(* once, with DONE or with ABORTED.                                        *)
(***************************************************************************)
CONSTANT Requests

VARIABLES
  open,      \* requests are being accepted
  accepted,  \* requests that submit returned a queue for
  outcome    \* outcome[s]: "none", "DONE" or "ABORTED"

Init ==
  /\ open = TRUE
  /\ accepted = {}
  /\ outcome = [s \in Requests |-> "none"]

Accept(s) ==
  /\ open
  /\ s \notin accepted
  /\ accepted' = accepted \cup {s}
  /\ UNCHANGED <<open, outcome>>

\* One iteration can end several requests.
End(ending) ==
  /\ ending \subseteq accepted
  /\ \A s \in ending : outcome[s] = "none"
  /\ \E result \in [ending -> {"DONE", "ABORTED"}] :
       outcome' = [s \in Requests |-> IF s \in ending THEN result[s] ELSE outcome[s]]
  /\ UNCHANGED accepted

\* A failure closes the ingress; it may do so while it ends what is left.
Close == open' = FALSE /\ UNCHANGED accepted

Next ==
  \/ \E s \in Requests : Accept(s)
  \/ \E ending \in SUBSET accepted : End(ending) /\ (UNCHANGED open \/ open' = FALSE)
  \/ Close /\ UNCHANGED outcome

Spec == Init /\ [][Next]_<<open, accepted, outcome>>
=============================================================================
