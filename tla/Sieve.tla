------------------------------- MODULE Sieve -------------------------------
(***************************************************************************)
(* A list with one kind of entry left out: what a comprehension with a     *)
(* condition, or a substitution by the empty string, makes of it.          *)
(***************************************************************************)
EXTENDS Integers, Sequences

Without(s, x) ==
    LET kept[n \in 0 .. Len(s)] ==
            IF n = 0 THEN <<>>
            ELSE IF s[n] = x THEN kept[n - 1] ELSE Append(kept[n - 1], s[n])
    IN  kept[Len(s)]
=============================================================================
