--------------------------- MODULE DurableRegister ---------------------------
(***************************************************************************)
(* What the JSON stores of src/src/persistence promise: one value that     *)
(* mutations change one at a time, each completely or not at all, and that *)
(* outlives the process.  Only a medium that fails to give back what was   *)
(* written may make the register fall back, and then to a value it once    *)
(* had.                                                                    *)
(*                                                                         *)
(* The value is the set of the mutations it contains.                      *)
(***************************************************************************)
EXTENDS Naturals

CONSTANTS
    Ops,    \* mutations
    None    \* no mutation

VARIABLES
    value,      \* the mutations the register contains
    open,       \* the mutation being made durable, or None
    answered,   \* mutations whose caller was told of success
    past,       \* the values the register has had
    sound       \* the medium gives back the last value

vars == <<value, open, answered, past, sound>>

Init ==
    /\ value = {}
    /\ open = None
    /\ answered = {}
    /\ past = {{}}
    /\ sound \in BOOLEAN

Begin(o) ==
    /\ open = None
    /\ o \notin value
    /\ open' = o
    /\ UNCHANGED <<value, answered, past, sound>>

Takes(o) ==
    /\ value' = value \union {o}
    /\ past' = past \union {value'}
    /\ open' = None

Commit ==
    /\ open # None
    /\ Takes(open)
    /\ answered' = answered \union {open}
    /\ UNCHANGED sound

\* The process ends after the value is durable and before the caller knows.
CommitSilently ==
    /\ open # None
    /\ Takes(open)
    /\ UNCHANGED <<answered, sound>>

Abort ==
    /\ open # None
    /\ open' = None
    /\ UNCHANGED <<value, answered, past, sound>>

\* A mutation the value already contains.
Repeat(o) ==
    /\ open = None
    /\ o \in value
    /\ answered' = answered \union {o}
    /\ UNCHANGED <<value, open, past, sound>>

FallBack ==
    /\ ~sound
    /\ open = None
    /\ value' \in past
    /\ sound' \in BOOLEAN
    /\ UNCHANGED <<open, answered, past>>

Medium ==
    /\ sound' \in BOOLEAN
    /\ UNCHANGED <<value, open, answered, past>>

Next ==
    \/ \E o \in Ops : Begin(o) \/ Repeat(o)
    \/ Commit \/ CommitSilently \/ Abort
    \/ FallBack
    \/ Medium

Spec == Init /\ [][Next]_vars
=============================================================================
