----------------------------- MODULE TokenPairs -----------------------------
(***************************************************************************)
(* What the token store of the ProviderClients promises, without locks:    *)
(* the token of a client and the authentication result it came with are    *)
(* one pair, and every call changes or copies the whole pair at one moment *)
(* between its beginning and its end.                                      *)
(***************************************************************************)
CONSTANTS Clients, Calls, Op, Nil

VARIABLES
  pair,    \* pair[c]: [token, result] of client c
  open     \* the calls that have not taken effect yet

pairVars == <<pair, open>>

Init ==
  /\ pair = [c \in Clients |-> [token |-> c, result |-> c]]
  /\ open = Calls

(* What a call makes of the client it writes to. *)
Effect(a) ==
  CASE Op[a].kind = "copy"    -> pair[Op[a].from]
    [] Op[a].kind = "setboth" -> [token |-> a, result |-> a]
    [] OTHER                  -> [token |-> a, result |-> Nil]

Write(a) ==
  /\ Op[a].kind # "read"
  /\ pair' = [pair EXCEPT ![Op[a].to] = Effect(a)]

(* A reader, and a SetTokenAndAuthResult whose result holds no token. *)
Leave(a) == Op[a].kind \in {"read", "setboth"} /\ UNCHANGED pair

Call(a) == a \in open /\ open' = open \ {a} /\ (Write(a) \/ Leave(a))

Next == \E a \in Calls : Call(a)

Spec == Init /\ [][Next]_pairVars
=============================================================================
