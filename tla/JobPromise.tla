----------------------------- MODULE JobPromise -----------------------------
(***************************************************************************)
(* What an agent build job promises whoever asked for it, without steps,   *)
(* requirements or deliveries: a job is reported completed only after a    *)
(* verification that found no blocker, every verdict of the verification   *)
(* counts as one round, and a repair is asked for only while rounds are    *)
(* left.                                                                   *)
(***************************************************************************)
EXTENDS Naturals

CONSTANTS Jobs, MaxAttempts

VARIABLES
  outcome,    \* what is reported of the job: still open, completed, or closed otherwise
  verified,   \* a verification found no blocker
  rounds,     \* verdicts so far
  repairs     \* repairs asked for so far

promise == <<outcome, verified, rounds, repairs>>

PromiseInit ==
  /\ outcome  = [j \in Jobs |-> "open"]
  /\ verified = [j \in Jobs |-> FALSE]
  /\ rounds   = [j \in Jobs |-> 0]
  /\ repairs  = [j \in Jobs |-> 0]

\* A verdict: no blocker, a repair, or neither (questions to the operator, or no round left).
Judge(j) ==
  /\ rounds' = [rounds EXCEPT ![j] = @ + 1]
  /\ \/ verified' = [verified EXCEPT ![j] = TRUE] /\ UNCHANGED repairs
     \/ /\ rounds[j] + 1 < MaxAttempts
        /\ repairs' = [repairs EXCEPT ![j] = @ + 1]
        /\ UNCHANGED verified
     \/ UNCHANGED <<verified, repairs>>
  /\ UNCHANGED outcome

\* A job may be reported failed or cancelled, or be resumed, at any time.
Report(j) ==
  \E o \in {"open", "completed", "closed"} :
    /\ o = "completed" => verified[j]
    /\ outcome' = [outcome EXCEPT ![j] = o]
    /\ UNCHANGED <<verified, rounds, repairs>>

PromiseNext == \E j \in Jobs : Judge(j) \/ Report(j)

PromiseSpec == PromiseInit /\ [][PromiseNext]_promise

=============================================================================
