----------------------------- MODULE TrustStore -----------------------------
(***************************************************************************)
(* What a light client promises: a set of trusted entries that starts with  *)
(* one anchor and grows along links from an entry that is still within the  *)
(* trusting period, together with the greatest trusted height.  There are   *)
(* no messages, proofs or hash checks here: those are how the contract      *)
(* (module ZKLightClient) keeps the promise.                                *)
(***************************************************************************)
EXTENDS Integers

CONSTANTS
    Clients,   \* client identifiers
    Anchors,   \* the entries a client may be created with
    Periods,   \* trusting periods
    Links,     \* pairs of entries: the second follows from the first
    MaxTime    \* bound on the clock

VARIABLES
    trusted,   \* client -> set of entries [height, state]
    latest,    \* client -> greatest trusted height, 0 before creation
    period,    \* client -> trusting period
    now

vars == << trusted, latest, period, now >>

Init ==
    /\ trusted = [c \in Clients |-> {}]
    /\ latest = [c \in Clients |-> 0]
    /\ period = [c \in Clients |-> 0]
    /\ now = 0

Create(c, e, p) ==
    /\ trusted[c] = {}
    /\ trusted' = [trusted EXCEPT ![c] = {e}]
    /\ latest' = [latest EXCEPT ![c] = e.height]
    /\ period' = [period EXCEPT ![c] = p]
    /\ UNCHANGED now

\* Entry e names the block link l starts from; l[2] becomes the one entry
\* trusted at its height.
Extend(c, e, l) ==
    /\ e \in trusted[c]
    /\ e.height = l[1].height
    /\ e.state.blockHash = l[1].state.blockHash
    /\ now <= e.state.timestamp + period[c]
    /\ trusted' = [trusted EXCEPT ![c] =
                      {x \in @ : x.height # l[2].height} \cup {l[2]}]
    /\ latest' = [latest EXCEPT ![c] =
                      IF @ < l[2].height THEN l[2].height ELSE @]
    /\ UNCHANGED << period, now >>

Tick ==
    /\ now < MaxTime
    /\ now' = now + 1
    /\ UNCHANGED << trusted, latest, period >>

Next ==
    \/ \E c \in Clients, e \in Anchors, p \in Periods : Create(c, e, p)
    \/ \E c \in Clients, l \in Links : \E e \in trusted[c] : Extend(c, e, l)
    \/ Tick

Spec == Init /\ [][Next]_vars

=============================================================================
