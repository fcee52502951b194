--------------------------- MODULE CoroutineStates --------------------------
(***************************************************************************)
(* What coroutines promise (manual, section 2.6): each active one was      *)
(* resumed, or is closed, by another active one, to which it returns, and  *)
(* only one runs; a coroutine that is not active is suspended or dead; a   *)
(* dead one is never resumed, and one that is being closed does not yield. *)
(*                                                                         *)
(* Nothing is promised once a program resumes or closes a coroutine that   *)
(* is being closed already.                                                *)
(***************************************************************************)
EXTENDS Functions

CONSTANTS Thread, main

VARIABLES
    running,
    resumer,      \* of the active coroutines other than the main one
    suspended,    \* those that can be resumed
    closing,      \* the active ones whose to-be-closed variables are closed
    created,
    undefined     \* has the program done what has no defined effect?
visible == <<running, resumer, suspended, closing, created>>
svars == <<visible, undefined>>

StatesInit == /\ running = main /\ resumer = <<>> /\ created = {main}
              /\ suspended = {} /\ closing = {} /\ ~undefined

Active == {main} \cup DOMAIN resumer
\* Control goes to a coroutine, or back.
Enter(c) == /\ running' = c
            /\ resumer' = [r \in DOMAIN resumer \cup {c} |-> IF r = c THEN running ELSE resumer[r]]
Leave == /\ running # main /\ running' = resumer[running]
         /\ resumer' = Restrict(resumer, DOMAIN resumer \ {running})
         /\ closing' = closing \ {running} /\ UNCHANGED created

Create(c) == /\ c \notin created /\ created' = created \cup {c}
             /\ suspended' = suspended \cup {c} /\ UNCHANGED <<running, resumer, closing>>
Resume(c) == /\ c \in suspended \ Active /\ suspended' = suspended \ {c}
             /\ Enter(c) /\ UNCHANGED <<closing, created>>
Yield == Leave /\ running \notin closing /\ suspended' = suspended \cup {running}
Finish == Leave /\ UNCHANGED suspended
\* Without methods to call; or the coroutine runs them, and then finishes.
Close(c) == /\ c \in created \ Active /\ suspended' = suspended \ {c}
            /\ \/ Enter(c) /\ closing' = closing \cup {c}
               \/ UNCHANGED <<running, resumer, closing>>
            /\ UNCHANGED created
\* It has failed, and whoever has resumed it closes it.
Fail == /\ running # main /\ closing' = closing \cup {running}
        /\ UNCHANGED <<running, resumer, suspended, created>>

Step == \/ \E c \in Thread : Create(c) \/ Resume(c) \/ Close(c)
        \/ Yield \/ Finish \/ Fail
\* One that is being closed is resumed, or closed again.
Intrude == closing # {} /\ undefined' = TRUE /\ UNCHANGED visible

StatesNext == ~undefined /\ ((Step /\ UNCHANGED undefined) \/ Intrude)

StatesSpec == StatesInit /\ [][StatesNext]_svars

=============================================================================
