---------------------------- MODULE SessionStore ----------------------------
(* What clients may expect of sessions: a session is opened, is given to at  *)
(* most one client ever, and goes away only after its time has run out.      *)
CONSTANTS Sessions, Clients, Nobody

VARIABLES
    phase,  \* phase[s]: "unborn", "live", "expired" or "gone"
    owner   \* owner[s]: the client that was given the cookie of s, or Nobody

Init ==
    /\ phase = [s \in Sessions |-> "unborn"]
    /\ owner = [s \in Sessions |-> Nobody]

Open(opened) ==
    /\ \A s \in opened : phase[s] = "unborn"
    /\ phase' = [s \in Sessions |-> IF s \in opened THEN "live" ELSE phase[s]]
    /\ UNCHANGED owner

Give(s, c) ==
    /\ phase[s] \in {"live", "expired"}
    /\ owner[s] = Nobody
    /\ owner' = [owner EXCEPT ![s] = c]
    /\ UNCHANGED phase

Expire(s) ==
    /\ phase[s] = "live"
    /\ phase' = [phase EXCEPT ![s] = "expired"]
    /\ UNCHANGED owner

Collect(s) ==
    /\ phase[s] = "expired"
    /\ phase' = [phase EXCEPT ![s] = "gone"]
    /\ UNCHANGED owner

Next ==
    \/ \E opened \in SUBSET Sessions : Open(opened)
    \/ \E s \in Sessions : Expire(s) \/ Collect(s) \/ (\E c \in Clients : Give(s, c))

Spec == Init /\ [][Next]_<<phase, owner>>
=============================================================================
