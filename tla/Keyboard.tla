------------------------------ MODULE Keyboard ------------------------------
(***************************************************************************)
(* What the stdin device promises its readers: every character typed goes  *)
(* to one reader, in the order of typing, unless more are typed than the   *)
(* device keeps: then each new one takes the place of the oldest.          *)
(***************************************************************************)
EXTENDS Integers, Sequences

CONSTANTS
    Reader,      \* processes that read
    BUFSIZE,     \* characters the device keeps
    MaxLen,      \* bound on what one read() asks for
    MaxTyped     \* bound on the number of characters typed

VARIABLES
    typed,     \* number of characters typed; they are the numbers 1, 2, ...
    pending,   \* typed and not yet read
    buf        \* what each reader's current or last read() has got

keyboardVars == <<typed, pending, buf>>

KInit ==
    /\ typed = 0
    /\ pending = <<>>
    /\ buf = [r \in Reader |-> <<>>]

Type ==
    /\ typed < MaxTyped
    /\ typed' = typed + 1
    /\ pending' = IF Len(pending) < BUFSIZE
                  THEN Append(pending, typed + 1)
                  ELSE [pending EXCEPT ![1] = typed + 1]
    /\ UNCHANGED buf

\* A reader gets what is there, up to n characters, in order; a new read() begins
\* with an empty buffer.
Take(r, n) ==
    \E k \in 0 .. n :
        /\ k = n \/ k = Len(pending)
        /\ k <= Len(pending)
        /\ \E before \in {buf[r], <<>>} :
             buf' = [buf EXCEPT ![r] = before \o SubSeq(pending, 1, k)]
        /\ pending' = SubSeq(pending, k + 1, Len(pending))
        /\ UNCHANGED typed

KNext == Type \/ \E r \in Reader, n \in 1 .. MaxLen : Take(r, n)

KSpec == KInit /\ [][KNext]_keyboardVars
=============================================================================
