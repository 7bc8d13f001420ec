--------------------------- MODULE McpClientPool ---------------------------
(***************************************************************************)
(* The pool of clients connected to MCP servers, one pool per API process  *)
(* (services/mcp-client-pool.service.ts).  A caller reads the row of its   *)
(* server, then shares the pooled client of that server, joins the one     *)
(* being connected, or connects one itself.  JavaScript runs one           *)
(* continuation at a time, so an action is the code between two awaits.    *)
(***************************************************************************)
EXTENDS FiniteSets, Naturals

CONSTANTS Server,       \* ids of MCP servers
          Setting,      \* what the signature of a server covers: transport, URL, command...
          Client,       \* connections the process may try, each used once
          Caller,       \* calls of getOrCreateClient going on at a time
          None,         \* no value
          MaxChanges    \* bound on the edits of servers

ASSUME NoneAssumption == None \notin Server \cup Setting \cup Client
ASSUME ChangesAssumption == MaxChanges \in Nat

VARIABLES server,       \* rows of mcp_servers
          pool,         \* clientPool: the pooled client of a server
          initFlight,   \* initFlights: the client being connected for a server
          client,       \* the connections
          caller,       \* the calls of getOrCreateClient
          up,           \* onModuleDestroy has not run
          changed       \* how often each server was edited (counted, never read by the code)

vars == <<server, pool, initFlight, client, caller, up, changed>>

----------------------------------------------------------------------------
(* Values *)

Unused == [phase |-> "unused", server |-> None, settings |-> None, timer |-> FALSE]
Idle == [pc |-> "idle", server |-> None, read |-> None, client |-> None, open |-> {}]

ServerRow == [settings : Setting, enabled : BOOLEAN]
ClientEntry == [phase : {"unused", "connecting", "open", "closed"}, server : Server \cup {None},
                settings : Setting \cup {None}, timer : BOOLEAN]
Call == [pc : {"idle", "found", "evicting", "joined", "given"}, server : Server \cup {None},
         read : Setting \cup {None}, client : Client \cup {None}, open : SUBSET Client]

LiveOf(s) == {k \in Client : client[k].server = s /\ client[k].phase \in {"connecting", "open"}}
ConnectingOf(s) == {k \in Client : client[k].server = s /\ client[k].phase = "connecting"}

Init ==
  /\ server \in [Server -> ServerRow]
  /\ pool = [s \in Server |-> None]
  /\ initFlight = [s \in Server |-> None]
  /\ client = [k \in Client |-> Unused]
  /\ caller = [c \in Caller |-> Idle]
  /\ up = TRUE
  /\ changed = [s \in Server |-> 0]

----------------------------------------------------------------------------
(* Helpers *)

\* Mutant: what leaves the pool is not closed.
Closed_Forgets(K) ==
  [k \in Client |-> IF k \in K THEN [client[k] EXCEPT !.timer = FALSE] ELSE client[k]]

\* close() is called at once; whoever evicts a client awaits its answer.
Closed(K) ==
  [k \in Client |-> IF k \in K THEN [client[k] EXCEPT !.phase = "closed", !.timer = FALSE]
                    ELSE client[k]]

\* Mutant: the entry would leave the pool only once its client is closed.
Unpooled_Later(s) == pool

\* evictClient: the entry of the server, whichever it is, leaves the pool first.
Unpooled(s) == [pool EXCEPT ![s] = None]

\* Mutant: a flight is not forgotten as it ends.
Landed_Never(s) == initFlight

\* A flight is forgotten as it ends, well or not.
Landed(s) == [initFlight EXCEPT ![s] = None]

\* Mutant: a connection that fails leaves its callers with the client they awaited.
Answered_KeepsClient(k, connected) ==
  [c \in Caller |->
     IF caller[c].pc = "joined" /\ caller[c].client = k
     THEN [caller[c] EXCEPT !.pc = IF connected THEN "given" ELSE "idle"]
     ELSE caller[c]]

\* What the flight of client k hands to the callers that await it: k, or its error.
Answered(k, connected) ==
  [c \in Caller |->
     IF caller[c].pc = "joined" /\ caller[c].client = k
     THEN IF connected THEN [caller[c] EXCEPT !.pc = "given"] ELSE Idle
     ELSE caller[c]]

\* Mutant: the pooled client is returned whatever its settings.
SameSignature_Always(c) == TRUE

\* The pooled client answers to the settings the caller read.
SameSignature(c) == client[pool[caller[c].server]].settings = caller[c].read

\* The caller found no client in the pool, or has evicted the one it found: it
\* does not look into the pool again.
Missed(c) ==
  \/ caller[c].pc = "found" /\ pool[caller[c].server] = None
  \/ caller[c].pc = "evicting"

----------------------------------------------------------------------------
(* getOrCreateClientInternal *)

\* The row is read.  Diagnostics may use a disabled server.
Find(c, s, allowDisabled) ==
  /\ caller[c].pc = "idle"
  /\ server[s] # None
  /\ allowDisabled \/ server[s].enabled
  /\ caller' = [caller EXCEPT ![c] =
       [pc |-> "found", server |-> s, read |-> server[s].settings, client |-> None,
        open |-> {k \in Client : client[k].phase = "open"}]]
  /\ UNCHANGED <<server, pool, initFlight, client, up, changed>>

\* The pooled client fits: its idle timer starts again and it is returned.
Reuse(c) ==
  LET k == pool[caller[c].server] IN
  /\ caller[c].pc = "found"
  /\ k # None
  /\ SameSignature(c)
  /\ client' = [client EXCEPT ![k].timer = TRUE]
  /\ caller' = [caller EXCEPT ![c].pc = "given", ![c].client = k]
  /\ UNCHANGED <<server, pool, initFlight, up, changed>>

\* The pooled client has other settings: it is evicted, and its end awaited.
EvictStale(c) ==
  /\ caller[c].pc = "found"
  /\ pool[caller[c].server] # None
  /\ ~SameSignature(c)
  /\ pool' = Unpooled(caller[c].server)
  /\ client' = Closed({pool[caller[c].server]})
  /\ caller' = [caller EXCEPT ![c].pc = "evicting"]
  /\ UNCHANGED <<server, initFlight, up, changed>>

\* A client is being connected for the server, with whatever settings: await it.
Join(c) ==
  /\ Missed(c)
  /\ initFlight[caller[c].server] # None
  /\ caller' = [caller EXCEPT ![c].pc = "joined", ![c].client = initFlight[caller[c].server]]
  /\ UNCHANGED <<server, pool, initFlight, client, up, changed>>

\* Nobody connects to the server: connect to it.
Connect(c, k) ==
  LET s == caller[c].server IN
  /\ Missed(c)
  /\ initFlight[s] = None
  /\ client[k] = Unused
  /\ client' = [client EXCEPT ![k] = [phase |-> "connecting", server |-> s,
                                      settings |-> caller[c].read, timer |-> FALSE]]
  /\ initFlight' = [initFlight EXCEPT ![s] = k]
  /\ caller' = [caller EXCEPT ![c].pc = "joined", ![c].client = k]
  /\ UNCHANGED <<server, pool, up, changed>>

\* initializeClient ends well: the client is pooled, over whatever entry was
\* there, its idle timer starts, the flight is forgotten, its callers have it.
Connected(k) ==
  LET s == client[k].server IN
  /\ client[k].phase = "connecting"
  /\ client' = [client EXCEPT ![k].phase = "open", ![k].timer = TRUE]
  /\ pool' = [pool EXCEPT ![s] = k]
  /\ initFlight' = Landed(s)
  /\ caller' = Answered(k, TRUE)
  /\ UNCHANGED <<server, up, changed>>

\* It fails: bad settings, no credential, no answer.  The flight is forgotten too.
ConnectFails(k) ==
  /\ client[k].phase = "connecting"
  /\ client' = Closed({k})
  /\ initFlight' = Landed(client[k].server)
  /\ caller' = Answered(k, FALSE)
  /\ UNCHANGED <<server, pool, up, changed>>

\* The caller has listed or called the tools it wanted.
Finish(c) ==
  /\ caller[c].pc = "given"
  /\ caller' = [caller EXCEPT ![c] = Idle]
  /\ UNCHANGED <<server, pool, initFlight, client, up, changed>>

----------------------------------------------------------------------------
(* Timers, shutdown, edits of servers *)

\* The idle timer started for the entry of client k fires: whatever entry its
\* server has by now is evicted.
IdleTimeout(k) ==
  LET s == client[k].server IN
  /\ client[k].timer
  /\ pool' = Unpooled(s)
  /\ client' = [Closed({pool[s]}) EXCEPT ![k].timer = FALSE]
  /\ UNCHANGED <<server, initFlight, caller, up, changed>>

\* onModuleDestroy: pool and flights are forgotten, the pooled clients closed.
OnModuleDestroy ==
  /\ up
  /\ up' = FALSE
  /\ pool' = [s \in Server |-> None]
  /\ initFlight' = [s \in Server |-> None]
  /\ client' = Closed({pool[s] : s \in Server})
  /\ UNCHANGED <<server, caller, changed>>

\* An admin edits or deletes a server.  The pool is not told.
EditServer(s, edited) ==
  /\ changed[s] < MaxChanges
  /\ server[s] # None
  /\ edited # server[s]
  /\ server' = [server EXCEPT ![s] = edited]
  /\ changed' = [changed EXCEPT ![s] = @ + 1]
  /\ UNCHANGED <<pool, initFlight, client, caller, up>>

----------------------------------------------------------------------------
Next ==
  \/ \E c \in Caller, s \in Server, allowDisabled \in BOOLEAN : Find(c, s, allowDisabled)
  \/ \E c \in Caller : Reuse(c) \/ EvictStale(c) \/ Join(c) \/ Finish(c)
  \/ \E c \in Caller, k \in Client : Connect(c, k)
  \/ \E k \in Client : Connected(k) \/ ConnectFails(k) \/ IdleTimeout(k)
  \/ OnModuleDestroy
  \/ \E s \in Server, edited \in ServerRow \cup {None} : EditServer(s, edited)

Spec == Init /\ [][Next]_vars

----------------------------------------------------------------------------
(* Properties *)

\* Type invariant; a caller has a client exactly from when it awaits one.
TypeOK ==
  /\ server \in [Server -> ServerRow \cup {None}]
  /\ pool \in [Server -> Client \cup {None}]
  /\ initFlight \in [Server -> Client \cup {None}]
  /\ client \in [Client -> ClientEntry]
  /\ caller \in [Caller -> Call]
  /\ \A c \in Caller : caller[c].client # None <=> caller[c].pc \in {"joined", "given"}
  /\ up \in BOOLEAN
  /\ changed \in [Server -> 0 .. MaxChanges]

\* Until the module is destroyed, at most one client of a server is being
\* connected at a time, and it is the one initFlights tells of: a failed or
\* finished connection is never joined (getOrCreateClientInternal).
FlightsAreShared ==
  up => \A s \in Server : ConnectingOf(s) = {initFlight[s]} \ {None}

\* What the pool has for a server is an open client of that server whose idle
\* timer runs, whatever timers, evictions, shutdowns and late connections came
\* before (evictClient, initializeClient, onModuleDestroy).
PooledIsUsable ==
  \A s \in Server : pool[s] # None =>
    /\ client[pool[s]].phase = "open"
    /\ client[pool[s]].server = s
    /\ client[pool[s]].timer

\* A caller that is given a client that was open when it read its server is
\* given one with the settings it read: after an edit, the old client is joined
\* at most by callers that came while it was still being connected.
GivenFits ==
  [][\A c \in Caller :
       caller[c].pc # "given" /\ caller'[c].pc = "given"
       => LET k == caller'[c].client IN
            /\ client'[k].phase = "open"
            /\ client'[k].server = caller[c].server
            /\ k \in caller[c].open => client'[k].settings = caller[c].read]_vars

\* Until the module is destroyed, a server that was never edited has one client
\* at most, being connected or open, and an open one is in the pool, where its
\* timer or the shutdown finds it (single flight, idle eviction).
UneditedHasOneClient ==
  \A s \in Server : up /\ changed[s] = 0 =>
    /\ Cardinality(LiveOf(s)) <= 1
    /\ \A k \in LiveOf(s) \ ConnectingOf(s) : pool[s] = k

\* Calls that read the same settings share one client: no two clients of a
\* server are live with the same settings ("initializes one client for
\* concurrent calls (single-flight)", mcp-client-pool.service.spec.ts:130).
OneClientForConcurrentCalls ==
  \A s \in Server : up =>
    \A j, k \in LiveOf(s) : client[j].settings = client[k].settings => j = k
============================================================================
