---------------------------- MODULE MCTokenStore ----------------------------
(***************************************************************************)
(* TokenStore for TLC: two clients and a throw-away copy of the first.     *)
(***************************************************************************)
EXTENDS TokenStore, TLC, Naturals

CONSTANTS user, spare, tac, m1, m2

ThreeClients == {user, spare, tac}
TwoMutexes == {m1, m2}
SharedMutex == (user :> m1) @@ (tac :> m1) @@ (spare :> m2)

Call(kind, to, from) == [kind |-> kind, to |-> to, from |-> from]

(* Reauthentication sets the throw-away client and copies it to the user's, *)
(* while the application copies that to a spare one, sets both and reads.   *)
SixOps ==
  (1 :> Call("setboth", tac, tac)) @@ (2 :> Call("copy", user, tac)) @@
  (3 :> Call("copy", spare, user)) @@ (4 :> Call("set", user, user)) @@
  (5 :> Call("setboth", spare, spare)) @@ (6 :> Call("read", user, user))
SixCalls == 1 .. 6
=============================================================================
