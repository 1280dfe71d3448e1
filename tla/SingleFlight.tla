---------------------------- MODULE SingleFlight ----------------------------
(***************************************************************************)
(* What ProviderClient.Reauthenticate promises its callers, without tokens *)
(* or HTTP: at most one flight is in the air; a caller that comes while    *)
(* one is joins it; every flight lands once, with one verdict; whoever     *)
(* joined a flight gets that verdict and no other, unless its own context  *)
(* is done first.                                                          *)
(***************************************************************************)
CONSTANTS Callers, Verdicts, Ctx, Pending, None

VARIABLES
  flight,    \* the caller whose flight is in the air, or None
  joined,    \* joined[c]: the flight c waits for, or waited for
  verdict,   \* verdict[f]: how flight f ended, Pending before it does
  outcome,   \* outcome[c]: what c was told, Pending before it is told
  gone       \* gone[c]: the context of c is done

flightVars == <<flight, joined, verdict, outcome, gone>>

Init ==
  /\ flight = None
  /\ joined = [c \in Callers |-> None]
  /\ verdict = [c \in Callers |-> Pending]
  /\ outcome = [c \in Callers |-> Pending]
  /\ gone = [c \in Callers |-> FALSE]

Fresh(c) == flight # c /\ joined[c] = None /\ verdict[c] = Pending /\ outcome[c] = Pending

Launch(c) ==
  /\ flight = None
  /\ Fresh(c)
  /\ flight' = c
  /\ UNCHANGED <<joined, verdict, outcome, gone>>

Join(c) ==
  /\ flight # None
  /\ Fresh(c)
  /\ joined' = [joined EXCEPT ![c] = flight]
  /\ UNCHANGED <<flight, verdict, outcome, gone>>

Land(c) ==
  /\ flight = c
  /\ \E v \in Verdicts :
       /\ verdict' = [verdict EXCEPT ![c] = v]
       /\ outcome' = [outcome EXCEPT ![c] = v]
  /\ flight' = None
  /\ UNCHANGED <<joined, gone>>

Deliver(c) ==
  /\ joined[c] # None
  /\ outcome[c] = Pending
  /\ verdict[joined[c]] # Pending
  /\ outcome' = [outcome EXCEPT ![c] = verdict[joined[c]]]
  /\ UNCHANGED <<flight, joined, verdict, gone>>

Abandon(c) ==
  /\ joined[c] # None
  /\ outcome[c] = Pending
  /\ gone[c]
  /\ outcome' = [outcome EXCEPT ![c] = Ctx]
  /\ UNCHANGED <<flight, joined, verdict, gone>>

Leave(c) ==
  /\ gone' = [gone EXCEPT ![c] = TRUE]
  /\ UNCHANGED <<flight, joined, verdict, outcome>>

Next ==
  \E c \in Callers :
    Launch(c) \/ Join(c) \/ Land(c) \/ Deliver(c) \/ Abandon(c) \/ Leave(c)

Spec == Init /\ [][Next]_flightVars

-----------------------------------------------------------------------------
(* Everybody who took part in a flight is told its verdict; a different     *)
(* answer, Ctx, only goes to a caller whose own context is done.            *)
EverybodyToldTheVerdict ==
  \A c \in Callers : outcome[c] # Pending =>
    \/ joined[c] = None /\ outcome[c] = verdict[c]
    \/ joined[c] # None /\ outcome[c] = verdict[joined[c]]
    \/ joined[c] # None /\ outcome[c] = Ctx /\ gone[c]

(* A flight lands once: its verdict never changes afterwards, and a caller  *)
(* that joined lands no flight.                                             *)
VerdictIsFinal ==
  [][\A c \in Callers :
       /\ verdict[c] # Pending => verdict'[c] = verdict[c]
       /\ verdict[c] # verdict'[c] => flight = c]_flightVars
=============================================================================
