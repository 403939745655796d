----------------------------- MODULE MCJobRaces -----------------------------
(***************************************************************************)
(* AgentJobs under every interference, watched: a variable of its own      *)
(* remembers the jobs a cancellation has once closed down, so that what    *)
(* must hold of them for good is an invariant.                             *)
(***************************************************************************)
EXTENDS MCAgentJobs

VARIABLE closed    \* the jobs that have been closed down at some moment

WatchedSpec ==
  /\ Init /\ closed = {}
  /\ [][Next /\ closed' = closed \cup {j \in Jobs : ClosedDown(j)'}]_<<vars, closed>>

\* A job whose cancellation has closed it down stays closed for good: whatever is resumed,
\* decided or cancelled after it, whichever deliveries were still waiting or come again after
\* a crash, and also when the cancellation broke off before it could mark the job itself.
\* (cancelAgentJob closes the steps before the job; a resume and a delivery look at the job.)
\* While a handler is at the job its later writes overwrite the cancellation.
CancelIsFinal == \A j \in closed : NoneOpen(j)

=============================================================================
