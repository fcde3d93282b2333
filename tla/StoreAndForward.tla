--------------------------- MODULE StoreAndForward ---------------------------
(***************************************************************************)
(* What the gateway promises about the messages of the devices             *)
(* (README.md:9, main.rs:702-707): each is uploaded, or kept in the table  *)
(* until it has been uploaded.  A message that is still in memory may be   *)
(* lost, in a crash or because it cannot be stored, but never unnoticed.   *)
(* The one thing the promise leaves open are replays that get muddled up.  *)
(***************************************************************************)
EXTENDS Naturals

CONSTANT Messages

VARIABLES
    stage,    (* where a message is *)
    uploads,  (* how often it has been uploaded *)
    lost,     (* messages known to be lost *)
    muddled   (* a replay was begun before an earlier one was done *)

promiseVars == <<stage, uploads, lost, muddled>>

Stages == {"new", "memory", "table", "gone"}

Init ==
    /\ stage = [m \in Messages |-> "new"]
    /\ uploads = [m \in Messages |-> 0]
    /\ lost = {}
    /\ muddled = FALSE

Moves(m, from, to) ==
    /\ stage[m] = from
    /\ stage' = [stage EXCEPT ![m] = to]

Receive(m) ==
    /\ Moves(m, "new", "memory")
    /\ UNCHANGED <<uploads, lost, muddled>>

(* A message in memory is uploaded once, one in the table until it is removed. *)
Upload(m) ==
    /\ uploads' = [uploads EXCEPT ![m] = @ + 1]
    /\ \/ stage[m] = "memory" /\ uploads[m] = 0
       \/ stage[m] = "table"
       \/ muddled
    /\ UNCHANGED <<stage, lost, muddled>>

(* Only what was not uploaded is stored ... *)
Store(m) ==
    /\ uploads[m] = 0
    /\ Moves(m, "memory", "table")
    /\ UNCHANGED <<uploads, lost, muddled>>

(* ... and only what was uploaded is forgotten or removed. *)
Forget(m) ==
    /\ uploads[m] > 0
    /\ Moves(m, "memory", "gone")
    /\ UNCHANGED <<uploads, lost, muddled>>

Remove(m) ==
    /\ uploads[m] > 0 \/ muddled
    /\ Moves(m, "table", "gone")
    /\ UNCHANGED <<uploads, lost, muddled>>

Lose(S) ==
    /\ lost' = lost \cup S
    /\ \A m \in S : stage[m] = "memory"
    /\ stage' = [m \in Messages |-> IF m \in S THEN "gone" ELSE stage[m]]
    /\ UNCHANGED <<uploads, muddled>>

Muddle ==
    /\ muddled' = TRUE
    /\ UNCHANGED <<stage, uploads, lost>>

Next ==
    \/ \E m \in Messages :
        Receive(m) \/ Upload(m) \/ Store(m) \/ Forget(m) \/ Remove(m)
    \/ \E S \in SUBSET Messages : Lose(S)
    \/ Muddle

Spec == Init /\ [][Next]_promiseVars

=============================================================================
