----------------------------- MODULE ReleaseLog -----------------------------
(***************************************************************************)
(* What the production release controller promises: production changes     *)
(* only during an attempt, there is one attempt at a time, each attempt    *)
(* was prepared against the outcome recorded last, and an outcome          *)
(* "success" is recorded only while production serves what was attempted.  *)
(* An attempt that is never closed blocks every later one.                 *)
(***************************************************************************)
EXTENDS Naturals, Sequences

CONSTANTS Image, Schema

VARIABLES
    open,     \* the attempt under way, if any: its images and its baseline
    log,      \* the recorded outcomes, oldest first
    serving,  \* the images production serves
    schema    \* the schema of its database

vars == <<open, log, serving, schema>>

Open(images) ==
    /\ open = {}
    /\ open' = {[images |-> images, baseline |-> Len(log)]}
    /\ UNCHANGED <<log, serving, schema>>

Move ==
    /\ open # {}
    /\ serving' \in Image /\ schema' \in Schema
    /\ UNCHANGED <<open, log>>

Close(status) ==
    /\ open # {}
    /\ status = "success" => \A a \in open : serving = a.images
    /\ log' = Append(log, status)
    /\ open' = {}
    /\ UNCHANGED <<serving, schema>>

Init ==
    /\ open = {} /\ log = <<"success">>     \* the first release
    /\ serving \in Image /\ schema \in Schema

Next ==
    \/ \E images \in Image : Open(images)
    \/ Move
    \/ \E status \in {"success", "failure"} : Close(status)

Spec == Init /\ [][Next]_vars
=============================================================================
