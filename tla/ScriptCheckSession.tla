------------------------- MODULE ScriptCheckSession -------------------------
(***************************************************************************)
(* What a CCheckQueueControl promises its user (src/src/checkqueue.h): a   *)
(* session opens, batches of checks are added to it, and Wait() answers    *)
(* once, with TRUE exactly when every check of THIS session is valid.  A   *)
(* session that is left early or interrupted ends without an answer, and   *)
(* so does one whose process ends.                                         *)
(* CheckQueue.tla is shown to implement this specification.                *)
(***************************************************************************)
CONSTANTS Checks, Valid

VARIABLES phase,   \* "idle", "open" (control alive), "waiting" (inside Wait) or
                   \* "closing" (inside the destructor)
          added,   \* the checks of the current (or last) session
          ret      \* what Wait() answered, TRUE before

avars == <<phase, added, ret>>

AInit == phase = "idle" /\ added = {} /\ ret = TRUE

AOpen == /\ phase = "idle"
         /\ phase' = "open" /\ added' = {} /\ ret' = TRUE

AAdd == /\ phase = "open"
        /\ \E S \in SUBSET (Checks \ added) : added' = added \cup S
        /\ UNCHANGED <<phase, ret>>

AWait == /\ phase = "open"
         /\ phase' = "waiting" /\ UNCHANGED <<added, ret>>

AAnswer == /\ phase = "waiting"
           /\ phase' = "idle" /\ added' = added
           /\ ret' = (added \subseteq Valid)

AClose == /\ phase \in {"open", "waiting"}
          /\ phase' = "closing" /\ UNCHANGED <<added, ret>>

AEnd == /\ phase = "closing"
        /\ phase' = "idle" /\ UNCHANGED <<added, ret>>

ARestart == AInit'

ANext == AOpen \/ AAdd \/ AWait \/ AAnswer \/ AClose \/ AEnd \/ ARestart

ASpec == AInit /\ [][ANext]_avars
=============================================================================
