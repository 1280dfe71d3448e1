----------------------------- MODULE TokenStore -----------------------------
(***************************************************************************)
(* The token and the authentication result of several ProviderClients, and *)
(* the RWMutex that guards each pair: SetToken, SetTokenAndAuthResult,     *)
(* Token, GetAuthResult and CopyTokenFrom, step by step, as goroutines     *)
(* interleave them.  A throw-away client is a copy of the client it was    *)
(* made from and shares its mutex.                                         *)
(***************************************************************************)
CONSTANTS
  Clients,
  Mutexes,
  MutexOf,   \* MutexOf[c]: client.mut of c
  Calls,     \* the calls that are made, one goroutine each
  Op,        \* Op[a]: [kind |-> "set" | "setboth" | "read" | "copy", to, from]
  Nil

ASSUME TokenStoreAssumption ==
  /\ MutexOf \in [Clients -> Mutexes]
  /\ Op \in [Calls -> [kind : {"set", "setboth", "read", "copy"},
                       to : Clients, from : Clients]]
  /\ Nil \notin Calls \cup Clients

VARIABLES
  tokenID,     \* tokenID[c], named by the call that set it
  authResult,  \* authResult[c], named by the token it came with
  writer,      \* writer[m]: the call that holds m for writing
  readers,     \* readers[m]: the calls that hold m for reading
  pending,     \* pending[m]: the calls in Lock, which keep new readers out
  pc

vars == <<tokenID, authResult, writer, readers, pending, pc>>
locks == <<writer, readers, pending>>

Init ==
  /\ tokenID = [c \in Clients |-> c]
  /\ authResult = [c \in Clients |-> c]
  /\ writer = [m \in Mutexes |-> Nil]
  /\ readers = [m \in Mutexes |-> {}]
  /\ pending = [m \in Mutexes |-> {}]
  /\ pc = [a \in Calls |-> "start"]

To(a) == Op[a].to
From(a) == Op[a].from
Own(a) == MutexOf[To(a)]
Other(a) == MutexOf[From(a)]

(* sync.RWMutex: a writer waits for everybody, a reader for the writers     *)
(* that hold the lock or wait for it.                                       *)
CanRead(m) == writer[m] = Nil /\ pending[m] = {}
CanWrite(m) == writer[m] = Nil /\ readers[m] = {}

Goto(a, p) == pc' = [pc EXCEPT ![a] = p]

-----------------------------------------------------------------------------
(* Token and GetAuthResult. *)
Read(a) ==
  /\ Op[a].kind = "read" /\ pc[a] = "start"
  /\ CanRead(Own(a))
  /\ Goto(a, "done")
  /\ UNCHANGED <<tokenID, authResult, locks>>

(* SetTokenAndAuthResult returns before it locks when the result holds no   *)
(* token; with a nil result it is a SetToken("").                           *)
Refuse(a) ==
  /\ Op[a].kind = "setboth" /\ pc[a] = "start"
  /\ Goto(a, "done")
  /\ UNCHANGED <<tokenID, authResult, locks>>

(* mut.Lock() of the three that write. *)
WantLock(a) ==
  /\ Op[a].kind # "read" /\ pc[a] = "start"
  /\ pending' = [pending EXCEPT ![Own(a)] = @ \cup {a}]
  /\ Goto(a, "locking")
  /\ UNCHANGED <<tokenID, authResult, writer, readers>>

Lock(a) ==
  /\ pc[a] = "locking"
  /\ CanWrite(Own(a))
  /\ writer' = [writer EXCEPT ![Own(a)] = a]
  /\ pending' = [pending EXCEPT ![Own(a)] = @ \ {a}]
  /\ Goto(a, "locked")
  /\ UNCHANGED <<tokenID, authResult, readers>>

(* Broken: reads the other client without its lock. *)
LockOther_Skipped(a) ==
  /\ Op[a].kind = "copy" /\ pc[a] = "locked"
  /\ Goto(a, "ready")
  /\ UNCHANGED <<tokenID, authResult, locks>>

(* Broken: takes the lock it holds once more when both clients share it. *)
LockOther_Always(a) ==
  /\ Op[a].kind = "copy" /\ pc[a] = "locked"
  /\ CanRead(Other(a))
  /\ readers' = [readers EXCEPT ![Other(a)] = @ \cup {a}]
  /\ Goto(a, "ready")
  /\ UNCHANGED <<tokenID, authResult, writer, pending>>

(* CopyTokenFrom: other.mut.RLock(), unless it is the mutex already held. *)
LockOther(a) ==
  /\ Op[a].kind = "copy" /\ pc[a] = "locked"
  /\ IF Other(a) = Own(a)
     THEN UNCHANGED readers
     ELSE CanRead(Other(a)) /\ readers' = [readers EXCEPT ![Other(a)] = @ \cup {a}]
  /\ Goto(a, "ready")
  /\ UNCHANGED <<tokenID, authResult, writer, pending>>

(* The two assignments. *)
WriteToken(a) ==
  /\ pc[a] = (IF Op[a].kind = "copy" THEN "ready" ELSE "locked")
  /\ Op[a].kind # "read"
  /\ tokenID' = [tokenID EXCEPT
       ![To(a)] = IF Op[a].kind = "copy" THEN tokenID[From(a)] ELSE a]
  /\ Goto(a, "half")
  /\ UNCHANGED <<authResult, locks>>

WriteResult(a) ==
  /\ pc[a] = "half"
  /\ authResult' = [authResult EXCEPT
       ![To(a)] = CASE Op[a].kind = "copy" -> authResult[From(a)]
                    [] Op[a].kind = "setboth" -> a
                    [] OTHER -> Nil]
  /\ Goto(a, "written")
  /\ UNCHANGED <<tokenID, locks>>

(* The deferred unlocks. *)
Unlock(a) ==
  /\ pc[a] = "written"
  /\ writer' = [writer EXCEPT ![Own(a)] = Nil]
  /\ readers' = [readers EXCEPT ![Other(a)] = @ \ {a}]
  /\ Goto(a, "done")
  /\ UNCHANGED <<tokenID, authResult, pending>>

Step(a) ==
  \/ Read(a) \/ Refuse(a) \/ WantLock(a) \/ Lock(a) \/ LockOther(a)
  \/ WriteToken(a) \/ WriteResult(a) \/ Unlock(a)

Finished == (\A a \in Calls : pc[a] = "done") /\ UNCHANGED vars

Next == (\E a \in Calls : Step(a)) \/ Finished

Spec == Init /\ [][Next]_vars
FairSpec == Spec /\ \A a \in Calls : WF_vars(Step(a))

-----------------------------------------------------------------------------
(* Properties *)

(* Whoever can lock a client finds a token and the result it came with, or  *)
(* no result: a copy never pairs the token of one authentication with the   *)
(* result of another.                                                       *)
ResultBelongsToToken ==
  \A c \in Clients :
    writer[MutexOf[c]] = Nil => authResult[c] \in {tokenID[c], Nil}

(* The pairs as TokenPairs has them.  A call takes effect when it writes the *)
(* token; the result it is about to write belongs to the pair already.       *)
Writing(c) == {a \in Calls : pc[a] = "half" /\ To(a) = c}
Coming(a) == CASE Op[a].kind = "copy" -> authResult[From(a)]
               [] Op[a].kind = "setboth" -> a
               [] OTHER -> Nil
Pair(c) == [token  |-> tokenID[c],
            result |-> IF Writing(c) = {} THEN authResult[c]
                       ELSE Coming(CHOOSE a \in Writing(c) : TRUE)]
Pairs == INSTANCE TokenPairs WITH
  pair <- [c \in Clients |-> Pair(c)],
  open <- {a \in Calls : pc[a] \in {"start", "locking", "locked", "ready"}}

(* The locks make one moment of the two assignments of every setter and of   *)
(* the two reads and two assignments of CopyTokenFrom, for clients that      *)
(* share a mutex and for clients that do not.                                *)
ImplementsTokenPairs == Pairs!Spec

(* Every call returns: a client and its throw-away copy share a mutex, and  *)
(* CopyTokenFrom between them does not wait for itself.                     *)
EveryCallReturns == \A a \in Calls : <>(pc[a] = "done")
=============================================================================
