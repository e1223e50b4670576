----------------------------- MODULE KeyService -----------------------------
(***************************************************************************)
(* What a keystore promises to those who ask it for keys, without its      *)
(* goroutines, locks and half-finished loads: at every moment it serves at *)
(* most one whole generation of each source, takes a source in and moves   *)
(* it on in one step, and never takes its keys away.  Keystore implements  *)
(* this specification; see ServiceView there.                              *)
(***************************************************************************)
EXTENDS Integers

CONSTANTS
    Sources,        \* key sources
    SourceID,       \* the identifier of each source
    SelfRefreshing, \* sources that push their own generations
    MaxVersion      \* bound: generations a source goes through

VARIABLES
    served, \* served[s]: the generations of s a request would find
    latest, \* latest[s]: the generation s is at
    open    \* the store has not been closed

vars == <<served, latest, open>>

Init ==
    /\ served = [s \in Sources |-> {}]
    /\ latest = [s \in Sources |-> 1]
    /\ open = TRUE

\* The first keys of a source, while no other source holds its identifier.
Admit(s, v) ==
    /\ open
    /\ served[s] = {}
    /\ \A t \in Sources \ {s} : SourceID[t] = SourceID[s] => served[t] = {}
    /\ served' = [served EXCEPT ![s] = {v}]
    /\ UNCHANGED <<latest, open>>

\* The next keys of a source: a self-refreshing one only moves forward and
\* stops when the store is closed; a plain one may finish a refresh then.
Refresh(s, v) ==
    /\ served[s] # {}
    /\ s \in SelfRefreshing => open /\ \A u \in served[s] : u <= v
    /\ served' = [served EXCEPT ![s] = {v}]
    /\ UNCHANGED <<latest, open>>

Shut ==
    /\ open
    /\ open' = FALSE
    /\ UNCHANGED <<served, latest>>

Advance(s) ==
    /\ latest[s] < MaxVersion
    /\ latest' = [latest EXCEPT ![s] = @ + 1]
    /\ UNCHANGED <<served, open>>

Next ==
    \/ \E s \in Sources :
        \/ \E v \in 1..latest[s] : Admit(s, v) \/ Refresh(s, v)
        \/ Advance(s)
    \/ Shut

Spec == Init /\ [][Next]_vars
=============================================================================
