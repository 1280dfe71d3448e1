------------------------------ MODULE AuthFlow -------------------------------
(***************************************************************************)
(* openstack.Authenticate and the ReauthFunc it installs, composed with    *)
(* the reauthentication they serve: an authentication is itself a request  *)
(* on a ProviderClient, and the one inside ReauthFunc runs on a throw-away *)
(* copy that shares the locks of the client being reauthenticated.         *)
(*                                                                         *)
(* Every goroutine has a stack of frames: doRequest calls Reauthenticate,  *)
(* which calls ReauthFunc, which calls v2auth or v3auth, which calls       *)
(* doRequest.  Contexts are left out here (ProviderClient has them), and   *)
(* so are endpoint options: Authenticate passes none.                      *)
(***************************************************************************)
EXTENDS Naturals, Sequences, SequencesExt

CONSTANTS
  Goroutines,
  Jobs,      \* what the goroutines may be calling: a set of functions
  Options    \* the options an application may authenticate with

(* builder: "v2"; "v3" for the four types v3auth knows; "custom" for any    *)
(* other tokens3.AuthOptionsBuilder; "token" for a token passed through.    *)
Builders == {"v2", "v3", "custom", "token"}

ASSUME AuthFlowAssumption ==
  /\ Jobs \subseteq [Goroutines -> {"authenticate", "request"}]
  /\ Options \subseteq [builder : Builders, allowReauth : BOOLEAN]

VARIABLES
  job,       \* job[p]: "authenticate" or "request", what p calls
  opts,      \* the options in use
  clients,   \* clients[1] is the user's, the others are throw-away copies
  stack,     \* stack[p]: the frames of goroutine p
  ret,       \* ret[p]: what the last call of p returned
  ongoing,   \* reauthmut.ongoing, shared by all the copies; 0 is nil
  verdict,   \* verdict[f]: the result of future f
  leader,    \* history: leader[f] started it
  issued,    \* the tokens issued so far are 1..issued
  live,      \* those the services accept
  whole,     \* history: tokens whose authentication got to its end
  owner      \* history: owner[t]: the client that token t was issued to

vars == <<job, opts, clients, stack, ret, ongoing, verdict, leader, issued,
          live, whole, owner>>
input == <<job, opts>>
flight == <<ongoing, verdict, leader>>
tokens == <<issued, live, whole, owner>>

User == 1
Client(hook, throwaway) == [token |-> 0, hook |-> hook, throwaway |-> throwaway]

Init ==
  /\ job \in Jobs
  /\ opts \in Options
  /\ clients = <<Client(0, FALSE)>>    \* hook 0: ReauthFunc is nil
  /\ stack = [p \in Goroutines |-> <<>>]
  /\ ret = [p \in Goroutines |-> "none"]
  /\ ongoing = 0
  /\ verdict = <<>>
  /\ leader = <<>>
  /\ issued = 0
  /\ live = {}
  /\ whole = {}
  /\ owner = <<>>

Frame(fn, at, c, asks) ==
  [fn |-> fn, at |-> at, client |-> c, asks |-> asks,
   sent |-> 0, future |-> 0, tac |-> 0, err |-> "none", reauthed |-> FALSE]
DoRequest(c, asks) == Frame("doRequest", "headers", c, asks)
Auth(c, at) == Frame("auth", at, c, "")

(* Frames: where a goroutine is, and how it goes on, calls and returns. *)
Top(p) == Last(stack[p])
At(p, fn, at) == stack[p] # <<>> /\ Top(p).fn = fn /\ Top(p).at = at
Mine(p) == clients[Top(p).client]

Continue(p, frame) ==
  /\ stack' = [stack EXCEPT ![p] = Append(Front(@), frame)]
  /\ UNCHANGED ret
Goto(p, at) == Continue(p, [Top(p) EXCEPT !.at = at])
Call(p, at, frame) ==
  /\ stack' = [stack EXCEPT ![p] =
                 Append(Front(@), [Last(@) EXCEPT !.at = at]) \o <<frame>>]
  /\ UNCHANGED ret
Return(p, r) ==
  /\ stack' = [stack EXCEPT ![p] = Front(@)]
  /\ ret' = [ret EXCEPT ![p] = r]

-----------------------------------------------------------------------------
(* The application *)

Authenticated == \E p \in Goroutines :
  job[p] = "authenticate" /\ stack[p] = <<>> /\ ret[p] = "ok"

(* It makes requests once a first Authenticate has succeeded. *)
Start(p) ==
  /\ stack[p] = <<>> /\ ret[p] = "none"
  /\ job[p] = "request" => Authenticated
  /\ stack' = [stack EXCEPT ![p] =
       <<IF job[p] = "request" THEN DoRequest(User, "service") ELSE Auth(User, "choose")>>]
  /\ UNCHANGED <<input, clients, ret, flight, tokens>>

-----------------------------------------------------------------------------
(* Authenticate, v2auth and v3auth *)

(* ChooseVersion: the version is in the endpoint, or the identity service   *)
(* is asked for its versions.                                               *)
Choose(p) ==
  /\ At(p, "auth", "choose")
  /\ Goto(p, "create") \/ Call(p, "chosen", DoRequest(Top(p).client, "identity"))
  /\ UNCHANGED <<input, clients, flight, tokens>>

Chosen(p) ==
  /\ At(p, "auth", "chosen")
  /\ IF ret[p] = "ok" THEN Goto(p, "create") ELSE Return(p, "error")
  /\ UNCHANGED <<input, clients, flight, tokens>>

(* CanReauth of the options a client authenticates with: those of the       *)
(* throw-away client do not allow it, unless v3auth does not know them.     *)
CanReauth_AsGiven(c) == opts.allowReauth       \* broken: never switched off

CanReauth(c) ==
  opts.allowReauth /\ (clients[c].throwaway => opts.builder = "custom")

(* NewIdentityV2 or NewIdentityV3, then tokens.Create; or tokens3.Get with  *)
(* the token that was passed in, which becomes the client's first of all.   *)
Create(p) ==
  /\ At(p, "auth", "create")
  /\ LET c == Top(p).client IN
     \/ /\ Return(p, "error")
        /\ UNCHANGED <<clients, tokens>>
     \/ /\ opts.builder # "token"
        /\ Call(p, "store", DoRequest(c, "identity"))
        /\ UNCHANGED <<clients, tokens>>
     \/ /\ opts.builder = "token" /\ ~CanReauth(c)
        /\ issued' = issued + 1
        /\ live' = live \cup {issued + 1}
        /\ owner' = Append(owner, c)
        /\ clients' = [clients EXCEPT ![c].token = issued + 1]
        /\ Call(p, "store", DoRequest(c, "identity"))
        /\ UNCHANGED whole
  /\ UNCHANGED <<input, flight>>

(* SetTokenAndAuthResult: the token is in use before the catalog is read.   *)
Store(p) ==
  /\ At(p, "auth", "store")
  /\ \/ /\ ret[p] # "ok"
        /\ Return(p, "error")
        /\ UNCHANGED <<clients, tokens>>
     \/ /\ ret[p] = "ok"
        /\ Goto(p, "install")
        /\ IF opts.builder = "token"
           THEN UNCHANGED <<clients, tokens>>
           ELSE /\ issued' = issued + 1
                /\ live' = live \cup {issued + 1}
                /\ owner' = Append(owner, Top(p).client)
                /\ clients' = [clients EXCEPT ![Top(p).client].token = issued + 1]
                /\ UNCHANGED whole
  /\ UNCHANGED <<input, flight>>

(* Broken: the copy is not marked as a throw-away client. *)
Install_NotThrowaway(p) ==
  /\ At(p, "auth", "install")
  /\ \/ /\ Return(p, "error")
        /\ UNCHANGED <<clients, whole>>
     \/ /\ whole' = whole \cup {Mine(p).token}
        /\ clients' = IF CanReauth(Top(p).client)
             THEN Append([clients EXCEPT ![Top(p).client].hook = Len(clients) + 1],
                         Client(0, FALSE))
             ELSE clients
        /\ Return(p, "ok")
  /\ UNCHANGED <<input, flight, issued, live, owner>>

(* ExtractServiceCatalog; then ReauthFunc, closed over a new throw-away     *)
(* copy of the client without token and ReauthFunc, and EndpointLocator.    *)
Install(p) ==
  /\ At(p, "auth", "install")
  /\ \/ /\ Return(p, "error")
        /\ UNCHANGED <<clients, whole>>
     \/ /\ whole' = whole \cup {Mine(p).token}
        /\ clients' = IF CanReauth(Top(p).client)
             THEN Append([clients EXCEPT ![Top(p).client].hook = Len(clients) + 1],
                         Client(0, TRUE))
             ELSE clients
        /\ Return(p, "ok")
  /\ UNCHANGED <<input, flight, issued, live, owner>>

-----------------------------------------------------------------------------
(* doRequest *)

(* authenticatedHeaders: no token for a throw-away client, and no waiting.  *)
Headers(p) ==
  /\ At(p, "doRequest", "headers")
  /\ Continue(p, [Top(p) EXCEPT
       !.at = IF Mine(p).throwaway THEN "sent" ELSE IF ongoing = 0 THEN "token" ELSE "held",
       !.future = ongoing,
       !.sent = 0])
  /\ UNCHANGED <<input, clients, flight, tokens>>

Held(p) ==
  /\ At(p, "doRequest", "held")
  /\ verdict[Top(p).future] # "none"
  /\ Goto(p, "token")
  /\ UNCHANGED <<input, clients, flight, tokens>>

Send(p) ==
  /\ At(p, "doRequest", "token")
  /\ Continue(p, [Top(p) EXCEPT !.at = "sent", !.sent = Mine(p).token])
  /\ UNCHANGED <<input, clients, flight, tokens>>

(* The answer.  A service accepts live tokens; the identity service takes   *)
(* the credentials or refuses them with 401; anything may fail.             *)
Accepted(p) ==
  /\ At(p, "doRequest", "sent")
  /\ Top(p).asks = "service" => Top(p).sent \in live
  /\ Return(p, "ok")
  /\ UNCHANGED <<input, clients, flight, tokens>>

Failed(p) ==
  /\ At(p, "doRequest", "sent")
  /\ Return(p, "error")
  /\ UNCHANGED <<input, clients, flight, tokens>>

Unauthorized(p) ==
  /\ At(p, "doRequest", "sent")
  /\ Top(p).asks = "service" => Top(p).sent \notin live
  /\ IF Mine(p).hook # 0 /\ ~Top(p).reauthed
     THEN Goto(p, "reauthenticate")
     ELSE Return(p, "error")
  /\ UNCHANGED <<input, clients, flight, tokens>>

-----------------------------------------------------------------------------
(* Reauthenticate *)

(* Broken: two threads may both start one. *)
Enter_Unlocked(p) ==
  /\ At(p, "doRequest", "reauthenticate")
  /\ ongoing' = Len(verdict) + 1
  /\ verdict' = Append(verdict, "none")
  /\ leader' = Append(leader, p)
  /\ Continue(p, [Top(p) EXCEPT !.at = "lead", !.future = Len(verdict) + 1])
  /\ UNCHANGED <<input, clients, tokens>>

(* The first critical section: join, or start. *)
Enter(p) ==
  /\ At(p, "doRequest", "reauthenticate")
  /\ IF ongoing # 0
     THEN /\ Continue(p, [Top(p) EXCEPT !.at = "joined", !.future = ongoing])
          /\ UNCHANGED flight
     ELSE /\ ongoing' = Len(verdict) + 1
          /\ verdict' = Append(verdict, "none")
          /\ leader' = Append(leader, p)
          /\ Continue(p, [Top(p) EXCEPT !.at = "lead", !.future = Len(verdict) + 1])
  /\ UNCHANGED <<input, clients, tokens>>

(* Run ReauthFunc, or skip it when the token is no longer the refused one.  *)
Lead(p) ==
  /\ At(p, "doRequest", "lead")
  /\ IF Top(p).sent \in {0, Mine(p).token}
     THEN /\ stack' = [stack EXCEPT ![p] =
               Append(Front(@), [Last(@) EXCEPT !.at = "running", !.tac = Mine(p).hook])
                 \o <<Auth(Mine(p).hook, "create")>>]
          /\ UNCHANGED ret
     ELSE Continue(p, [Top(p) EXCEPT !.at = "publish", !.err = "ok"])
  /\ UNCHANGED <<input, clients, flight, tokens>>

(* Broken: copies the token before it looks at the error. *)
Ran_CopyFirst(p) ==
  /\ At(p, "doRequest", "running")
  /\ clients' = [clients EXCEPT ![Top(p).client].token = clients[Top(p).tac].token]
  /\ Continue(p, [Top(p) EXCEPT !.at = "publish", !.err = ret[p]])
  /\ UNCHANGED <<input, flight, tokens>>

(* The closure that is ReauthFunc: CopyTokenFrom the throw-away client when *)
(* its authentication succeeded.                                            *)
Ran(p) ==
  /\ At(p, "doRequest", "running")
  /\ clients' = IF ret[p] = "ok"
       THEN [clients EXCEPT ![Top(p).client].token = clients[Top(p).tac].token]
       ELSE clients
  /\ Continue(p, [Top(p) EXCEPT !.at = "publish", !.err = ret[p]])
  /\ UNCHANGED <<input, flight, tokens>>

(* Reauthenticate returned r: once more from the start, or give up. *)
Reauthenticated(p, r) ==
  IF r = "ok"
  THEN Continue(p, [Top(p) EXCEPT !.at = "headers", !.reauthed = TRUE])
  ELSE Return(p, "error")

(* The last critical section. *)
Publish(p) ==
  /\ At(p, "doRequest", "publish")
  /\ verdict' = [verdict EXCEPT ![ongoing] = Top(p).err]
  /\ ongoing' = 0
  /\ Reauthenticated(p, Top(p).err)
  /\ UNCHANGED <<input, clients, leader, tokens>>

Joined(p) ==
  /\ At(p, "doRequest", "joined")
  /\ verdict[Top(p).future] # "none"
  /\ Reauthenticated(p, verdict[Top(p).future])
  /\ UNCHANGED <<input, clients, flight, tokens>>

-----------------------------------------------------------------------------
(* A token expires or is revoked. *)
Revoke(t) ==
  /\ t \in live
  /\ live' = live \ {t}
  /\ UNCHANGED <<input, clients, stack, ret, flight, issued, whole, owner>>

Step(p) ==
  \/ Choose(p) \/ Chosen(p) \/ Create(p) \/ Store(p) \/ Install(p)
  \/ Headers(p) \/ Held(p) \/ Send(p) \/ Accepted(p) \/ Failed(p) \/ Unauthorized(p)
  \/ Enter(p) \/ Lead(p) \/ Ran(p) \/ Publish(p) \/ Joined(p)

Finished ==
  /\ \A p \in Goroutines : stack[p] = <<>> /\ (ret[p] = "none" => ~Authenticated)
  /\ UNCHANGED vars

Next ==
  \/ \E p \in Goroutines : Start(p) \/ Step(p)
  \/ \E t \in live : Revoke(t)
  \/ Finished

Spec == Init /\ [][Next]_vars

(* Goroutines keep running and the services answer. *)
FairSpec == Spec /\ \A p \in Goroutines : WF_vars(Step(p))

-----------------------------------------------------------------------------
(* Properties *)

Frames(p) == {stack[p][i] : i \in 1 .. Len(stack[p])}

(* The comment of v2auth and v3auth: with a throw-away client whose options *)
(* do not allow it, "this should retry authentication only once".  So what  *)
(* ReauthFunc does never asks for a reauthentication itself; it would wait  *)
(* for the one it is part of.                                               *)
AuthenticationTriedOnce ==
  \A p \in Goroutines : \A i, j \in 1 .. Len(stack[p]) :
    i < j /\ stack[p][i].at = "running" => stack[p][j].at \notin {"reauthenticate", "joined", "lead"}

(* A failed reauthentication leaves the user's client its token: one that   *)
(* was issued to a throw-away client gets there only when the whole         *)
(* authentication, reading the catalog included, has succeeded.             *)
ReauthTokenIsWhole ==
  LET t == clients[User].token IN t # 0 /\ owner[t] # User => t \in whole

(* The throw-away client, whose fields the authentication writes without    *)
(* looking for other users, is used by one run of ReauthFunc at a time.     *)
ThrowawayIsExclusive ==
  \A p, q \in Goroutines : \A f \in Frames(p), g \in Frames(q) :
    f.at = "running" /\ g.at = "running" /\ f.tac = g.tac => p = q

(* Every call of the application returns.                                   *)
EveryCallReturns == \A p \in Goroutines : stack[p] # <<>> ~> stack[p] = <<>>
=============================================================================
