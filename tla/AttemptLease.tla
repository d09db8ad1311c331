---------------------------- MODULE AttemptLease ----------------------------
(* What the worker protocol promises of a build, apart from workers, clocks, *)
(* requests and reviews: one attempt at a time, named by a token no attempt  *)
(* had before; it deposits a result of its own before it finishes; a         *)
(* finished build keeps that result, and only such an attempt is confirmed.  *)
EXTENDS Naturals

CONSTANTS
    Items,      \* builds
    NoAttempt   \* none under way

VARIABLES
    current,    \* current[b]: the attempt under way or finished
    finished,
    drawn,      \* tokens drawn so far
    confirmed   \* tokens of attempts confirmed as finished

vars == <<current, finished, drawn, confirmed>>

Init ==
    /\ current = [b \in Items |-> NoAttempt]
    /\ finished = {}
    /\ drawn = 0
    /\ confirmed = {}

(* An attempt begins, in place of one that was abandoned or of none. *)
Begin(b) ==
    /\ b \notin finished
    /\ current' = [current EXCEPT ![b] = [token |-> drawn + 1,
                                          deposit |-> FALSE]]
    /\ drawn' = drawn + 1
    /\ UNCHANGED <<finished, confirmed>>

Deposit(b) ==
    /\ current[b] # NoAttempt
    /\ b \notin finished
    /\ current' = [current EXCEPT ![b] = [token |-> current[b].token,
                                          deposit |-> TRUE]]
    /\ UNCHANGED <<finished, drawn, confirmed>>

Finish(b) ==
    /\ current[b] # NoAttempt
    /\ current[b].deposit
    /\ finished' = finished \cup {b}
    /\ UNCHANGED <<current, drawn, confirmed>>

(* Attempts fail, or are taken back all at once. *)
Abandon(bs) ==
    /\ bs \cap finished = {}
    /\ current' = [b \in Items |-> IF b \in bs THEN NoAttempt ELSE current[b]]
    /\ UNCHANGED <<finished, drawn, confirmed>>

Confirm(b) ==
    /\ b \in finished
    /\ confirmed' = confirmed \cup {current[b].token}
    /\ UNCHANGED <<current, finished, drawn>>

Next ==
    \/ \E b \in Items : Begin(b) \/ Deposit(b) \/ Finish(b) \/ Confirm(b)
    \/ \E bs \in SUBSET Items : Abandon(bs)

Spec == Init /\ [][Next]_vars
=============================================================================
