----------------------------- MODULE LeaseService -----------------------------
(***************************************************************************)
(* What the control plane's job store promises its clients, without rows,  *)
(* timestamps or transactions.  A job is admitted, handed to one holder at *)
(* a time under a fencing token that is never reused, taken back when its  *)
(* holder lapses, and decided once, by the holder of the current token.    *)
(* JobRepository is shown to implement this specification.                 *)
(***************************************************************************)
EXTENDS Integers

CONSTANTS Jobs,       \* job identifiers
          Verdicts    \* what a job may be decided to be

VARIABLES phase,      \* [Jobs -> Phases]
          token,      \* fencing token of the current holder, 0 without holder
          verdict,    \* the decision, NoVerdict before it
          issued      \* the last fencing token handed out

vars == <<phase, token, verdict, issued>>

NoVerdict == "undecided"
Phases == {"unknown", "open", "held", "decided"}

Init == /\ phase = [j \in Jobs |-> "unknown"]
        /\ token = [j \in Jobs |-> 0]
        /\ verdict = [j \in Jobs |-> NoVerdict]
        /\ issued = 0

Held == {j \in Jobs : phase[j] = "held"}

(* A job becomes known and may be handed out. *)
Admit(j) == /\ phase[j] = "unknown"
            /\ phase' = [phase EXCEPT ![j] = "open"]
            /\ UNCHANGED <<token, verdict, issued>>

(* The holders of the jobs of S lose them; the jobs are open again. *)
TakeBack(S) ==
    /\ S \subseteq Held
    /\ phase' = [j \in Jobs |-> IF j \in S THEN "open" ELSE phase[j]]
    /\ token' = [j \in Jobs |-> IF j \in S THEN 0 ELSE token[j]]
    /\ UNCHANGED <<verdict, issued>>

(* One step takes back the jobs of S and hands out j under a new token. *)
Hand(j, S) ==
    /\ S \subseteq Held
    /\ phase[j] = "open" \/ j \in S
    /\ issued' = issued + 1
    /\ phase' = [k \in Jobs |-> IF k = j THEN "held"
                                ELSE IF k \in S THEN "open" ELSE phase[k]]
    /\ token' = [k \in Jobs |-> IF k = j THEN issued'
                                ELSE IF k \in S THEN 0 ELSE token[k]]
    /\ UNCHANGED verdict

(* The holder decides its job, for good. *)
Decide(j, v) == /\ phase[j] = "held"
                /\ phase' = [phase EXCEPT ![j] = "decided"]
                /\ token' = [token EXCEPT ![j] = 0]
                /\ verdict' = [verdict EXCEPT ![j] = v]
                /\ UNCHANGED issued

(* An open job is cancelled before anybody holds it. *)
Withdraw(j) == /\ phase[j] = "open"
               /\ phase' = [phase EXCEPT ![j] = "decided"]
               /\ verdict' = [verdict EXCEPT ![j] = "cancelled"]
               /\ UNCHANGED <<token, issued>>

(* The records of the jobs of S are deleted. *)
Forget(S) ==
    /\ phase' = [j \in Jobs |-> IF j \in S THEN "unknown" ELSE phase[j]]
    /\ token' = [j \in Jobs |-> IF j \in S THEN 0 ELSE token[j]]
    /\ verdict' = [j \in Jobs |-> IF j \in S THEN NoVerdict ELSE verdict[j]]
    /\ UNCHANGED issued

Next == \/ \E j \in Jobs : Admit(j) \/ Withdraw(j)
        \/ \E S \in SUBSET Jobs : TakeBack(S) \/ Forget(S)
        \/ \E j \in Jobs, S \in SUBSET Jobs : Hand(j, S)
        \/ \E j \in Jobs, v \in Verdicts : Decide(j, v)

Spec == Init /\ [][Next]_vars
===============================================================================
