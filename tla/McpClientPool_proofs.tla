------------------------ MODULE McpClientPool_proofs ------------------------
(***************************************************************************)
(* Theorems about McpClientPool, for any number of servers, settings,      *)
(* connections, callers and edits.                                         *)
(***************************************************************************)
EXTENDS McpClientPool, FiniteSetTheorems, TLAPS

----------------------------------------------------------------------------
\* What the written values are.

\* A connection that is closed keeps what it was for.
LEMMA ClosedClients ==
  ASSUME client \in [Client -> ClientEntry], NEW K
  PROVE  /\ Closed(K) \in [Client -> ClientEntry]
         /\ \A k \in Client : /\ Closed(K)[k].server = client[k].server
                              /\ Closed(K)[k].settings = client[k].settings
                              /\ k \notin K => Closed(K)[k] = client[k]
                              /\ k \in K => /\ Closed(K)[k].phase = "closed"
                                            /\ Closed(K)[k].timer = FALSE
<1>1. \A k \in Client : [client[k] EXCEPT !.phase = "closed", !.timer = FALSE] \in ClientEntry
  BY DEF ClientEntry
<1>2. Closed(K) \in [Client -> ClientEntry]
  BY <1>1 DEF Closed
<1>3. ASSUME NEW k \in Client
      PROVE  /\ Closed(K)[k].server = client[k].server
             /\ Closed(K)[k].settings = client[k].settings
             /\ k \notin K => Closed(K)[k] = client[k]
             /\ k \in K => Closed(K)[k].phase = "closed" /\ Closed(K)[k].timer = FALSE
  BY DEF Closed, ClientEntry
<1>4. QED BY <1>2, <1>3

\* So does one whose idle timer starts again.
LEMMA TouchedClients ==
  ASSUME client \in [Client -> ClientEntry], NEW k \in Client,
         client' = [client EXCEPT ![k].timer = TRUE]
  PROVE  /\ client' \in [Client -> ClientEntry]
         /\ \A j \in Client : /\ client'[j].server = client[j].server
                              /\ client'[j].settings = client[j].settings
                              /\ client'[j].phase = client[j].phase
                              /\ j # k => client'[j].timer = client[j].timer
         /\ client'[k].timer = TRUE
<1> DEFINE touched == [client[k] EXCEPT !.timer = TRUE]
<1>1. client[k] \in ClientEntry
  OBVIOUS
<1>2. /\ touched \in ClientEntry
      /\ touched.server = client[k].server
      /\ touched.settings = client[k].settings
      /\ touched.phase = client[k].phase
      /\ touched.timer = TRUE
  BY <1>1 DEF ClientEntry
<1>3. client' = [client EXCEPT ![k] = touched]
  OBVIOUS
<1> HIDE DEF touched
<1>4. QED BY <1>2, <1>3

\* A call that goes on keeps the server, the settings and the clients it read.
LEMMA MovedCalls ==
  ASSUME NEW x \in Call, NEW pc \in {"found", "evicting", "joined", "given"},
         NEW k \in Client
  PROVE  /\ [x EXCEPT !.pc = pc] \in Call
         /\ [x EXCEPT !.pc = pc, !.client = k] \in Call
         /\ Idle \in Call
         /\ [x EXCEPT !.pc = pc].pc = pc
         /\ [x EXCEPT !.pc = pc].client = x.client
         /\ [x EXCEPT !.pc = pc].server = x.server
         /\ [x EXCEPT !.pc = pc].read = x.read
         /\ [x EXCEPT !.pc = pc].open = x.open
         /\ [x EXCEPT !.pc = pc, !.client = k].pc = pc
         /\ [x EXCEPT !.pc = pc, !.client = k].client = k
         /\ [x EXCEPT !.pc = pc, !.client = k].server = x.server
         /\ [x EXCEPT !.pc = pc, !.client = k].read = x.read
         /\ [x EXCEPT !.pc = pc, !.client = k].open = x.open
         /\ Idle.pc = "idle" /\ Idle.client = None /\ Idle.open = {}
  BY DEF Call, Idle

----------------------------------------------------------------------------
\* Types, and what a connection and a call refer to.

\* A connection that goes on, or has a timer, has a server.
ClientsPlaced ==
  \A k \in Client :
    client[k].phase \in {"connecting", "open"} \/ client[k].timer = TRUE => client[k].server \in Server

\* The pooled client of a server is one of that server.
PoolPlaced == \A s \in Server : pool[s] # None => client[pool[s]].server = s

\* A call at work has a server and the settings it read of it.
CallsPlaced ==
  \A c \in Caller :
    /\ caller[c].pc # "idle" => caller[c].server \in Server /\ caller[c].read \in Setting
    /\ caller[c].client # None <=> caller[c].pc \in {"joined", "given"}

Typed == TypeOK /\ ClientsPlaced /\ PoolPlaced /\ CallsPlaced

LEMMA TypedInit == Init => Typed
  BY NoneAssumption, ChangesAssumption
  DEF Init, Typed, TypeOK, ClientsPlaced, PoolPlaced, CallsPlaced, ServerRow, Unused, Idle, ClientEntry, Call

\* A flight that ends leaves calls as they should be.
LEMMA AnsweredCalls ==
  ASSUME Typed, NEW k \in Client, NEW connected \in BOOLEAN
  PROVE  /\ Answered(k, connected) \in [Caller -> Call]
         /\ \A c \in Caller :
              IF caller[c].pc = "joined" /\ caller[c].client = k
              THEN /\ connected => /\ Answered(k, connected)[c].pc = "given"
                                   /\ Answered(k, connected)[c].client = k
                                   /\ Answered(k, connected)[c].server = caller[c].server
                                   /\ Answered(k, connected)[c].read = caller[c].read
                                   /\ Answered(k, connected)[c].open = caller[c].open
                   /\ ~connected => Answered(k, connected)[c] = Idle
              ELSE Answered(k, connected)[c] = caller[c]
<1>1. \A c \in Caller : caller[c] \in Call
  BY DEF Typed, TypeOK
<1>2. /\ Answered(k, connected) \in [Caller -> Call]
      /\ \A c \in Caller :
           Answered(k, connected)[c] =
             IF caller[c].pc = "joined" /\ caller[c].client = k
             THEN IF connected THEN [caller[c] EXCEPT !.pc = "given"] ELSE Idle
             ELSE caller[c]
  BY <1>1, MovedCalls DEF Answered
<1>3. ASSUME NEW c \in Caller, caller[c].client = k
      PROVE  /\ [caller[c] EXCEPT !.pc = "given"].pc = "given"
             /\ [caller[c] EXCEPT !.pc = "given"].client = k
             /\ [caller[c] EXCEPT !.pc = "given"].server = caller[c].server
             /\ [caller[c] EXCEPT !.pc = "given"].read = caller[c].read
             /\ [caller[c] EXCEPT !.pc = "given"].open = caller[c].open
  <2>1. caller[c] \in Call
    BY <1>1
  <2>2. QED BY <1>3, <2>1 DEF Call
<1>4. QED BY ZenonT(60), <1>2, <1>3

\* With a client, the calls that await it are given it.
LEMMA GivenCalls ==
  ASSUME Typed, NEW k \in Client, NEW c \in Caller
  PROVE  IF caller[c].pc = "joined" /\ caller[c].client = k
         THEN /\ Answered(k, TRUE)[c].pc = "given"
              /\ Answered(k, TRUE)[c].client = k
              /\ Answered(k, TRUE)[c].server = caller[c].server
              /\ Answered(k, TRUE)[c].read = caller[c].read
              /\ Answered(k, TRUE)[c].open = caller[c].open
         ELSE Answered(k, TRUE)[c] = caller[c]
<1>1. caller[c] \in Call
  BY DEF Typed, TypeOK
<1>2. Answered(k, TRUE)[c] = IF caller[c].pc = "joined" /\ caller[c].client = k
                             THEN [caller[c] EXCEPT !.pc = "given"] ELSE caller[c]
  BY DEF Answered
<1>3. QED BY <1>1, <1>2 DEF Call

\* With an error, they end.
LEMMA FailedCalls ==
  ASSUME NEW k \in Client, NEW c \in Caller
  PROVE  Answered(k, FALSE)[c] = IF caller[c].pc = "joined" /\ caller[c].client = k
                                 THEN Idle ELSE caller[c]
  BY DEF Answered

\* A step of one call.
LEMMA CallerMoved ==
  ASSUME Typed, NEW c \in Caller, NEW x \in Call, caller' = [caller EXCEPT ![c] = x],
         x.pc # "idle" => x.server \in Server /\ x.read \in Setting,
         x.client # None <=> x.pc \in {"joined", "given"}
  PROVE  caller' \in [Caller -> Call] /\ CallsPlaced'
  BY DEF Typed, TypeOK, CallsPlaced

LEMMA TypedNext == Typed /\ [Next]_vars => Typed'
<1> SUFFICES ASSUME Typed, [Next]_vars PROVE Typed'
  OBVIOUS
<1> USE NoneAssumption, ChangesAssumption DEF Typed, TypeOK
<1>1. ASSUME NEW c \in Caller, NEW s \in Server, NEW allowDisabled \in BOOLEAN,
             Find(c, s, allowDisabled)
      PROVE  Typed'
  <2> DEFINE x == [pc |-> "found", server |-> s, read |-> server[s].settings, client |-> None,
                   open |-> {k \in Client : client[k].phase = "open"}]
  <2>1. server[s].settings \in Setting
    BY <1>1 DEF Find, ServerRow
  <2>2. x \in Call
    BY <2>1 DEF Call
  <2>3. caller' \in [Caller -> Call] /\ CallsPlaced'
    BY <1>1, <2>1, <2>2, CallerMoved DEF Find
  <2>4. QED BY <1>1, <2>3 DEF Find, ClientsPlaced, PoolPlaced
<1>2. ASSUME NEW c \in Caller, NEW k \in Client, NEW pc \in {"joined", "given"},
             caller[c].pc \in {"found", "evicting"},
             caller' = [caller EXCEPT ![c].pc = pc, ![c].client = k]
      PROVE  caller' \in [Caller -> Call] /\ CallsPlaced'
  <2>1. caller' = [caller EXCEPT ![c] = [caller[c] EXCEPT !.pc = pc, !.client = k]]
    BY <1>2
  <2>2. caller[c] \in Call /\ caller[c].server \in Server /\ caller[c].read \in Setting
    BY <1>2 DEF CallsPlaced
  <2>3. /\ [caller[c] EXCEPT !.pc = pc, !.client = k] \in Call
        /\ [caller[c] EXCEPT !.pc = pc, !.client = k].pc = pc
        /\ [caller[c] EXCEPT !.pc = pc, !.client = k].client = k
        /\ [caller[c] EXCEPT !.pc = pc, !.client = k].server \in Server
        /\ [caller[c] EXCEPT !.pc = pc, !.client = k].read \in Setting
    BY <2>2 DEF Call
  <2>4. QED BY <2>1, <2>3, CallerMoved
<1>3. ASSUME NEW c \in Caller, Reuse(c) PROVE Typed'
  <2>1. /\ pool[caller[c].server] \in Client
        /\ caller[c].server \in Server
    BY <1>3 DEF Reuse, CallsPlaced
  <2>5. client' = [client EXCEPT ![pool[caller[c].server]].timer = TRUE]
    BY <1>3 DEF Reuse
  <2>11. client' \in [Client -> ClientEntry]
    BY <2>1, <2>5, TouchedClients
  <2>12. \A j \in Client : client'[j].server = client[j].server
    BY <2>1, <2>5, TouchedClients
  <2>13. \A j \in Client : client'[j].phase = client[j].phase
    BY <2>1, <2>5, TouchedClients
  <2>14. \A j \in Client : j # pool[caller[c].server] => client'[j].timer = client[j].timer
    BY <2>1, <2>5, TouchedClients
  <2>3. caller' \in [Caller -> Call] /\ CallsPlaced'
    BY <1>2, <1>3, <2>1 DEF Reuse
  <2>2. client'[pool[caller[c].server]].server \in Server
    BY <1>3, <2>1, <2>12 DEF Reuse, CallsPlaced, PoolPlaced
  <2>4. pool' = pool /\ UNCHANGED <<server, initFlight, up, changed>>
    BY <1>3 DEF Reuse
  <2>6. \A s \in Server : pool[s] # None => pool[s] \in Client
    OBVIOUS
  <2>7. TypeOK'
    <3>1. \A d \in Caller : caller'[d].client # None <=> caller'[d].pc \in {"joined", "given"}
      BY <2>3 DEF CallsPlaced
    <3>2. QED BY <2>3, <2>4, <2>11, <3>1
  <2> HIDE DEF TypeOK
  <2>8. ClientsPlaced'
    <3> SUFFICES ASSUME NEW j \in Client,
                        client'[j].phase \in {"connecting", "open"} \/ client'[j].timer = TRUE
                 PROVE  client'[j].server \in Server
      BY DEF ClientsPlaced
    <3>1. CASE j = pool[caller[c].server]
      BY <2>2, <3>1
    <3>2. CASE j # pool[caller[c].server]
      <4>1. /\ client'[j].server = client[j].server
            /\ client'[j].phase = client[j].phase
            /\ client'[j].timer = client[j].timer
        BY <2>12, <2>13, <2>14, <3>2
      <4>2. client[j].server \in Server
        BY <4>1 DEF ClientsPlaced
      <4>3. QED BY <4>1, <4>2
    <3>3. QED BY <3>1, <3>2
  <2>9. PoolPlaced'
    <3>2. ASSUME NEW s \in Server, pool[s] # None PROVE client'[pool[s]].server = s
      <4>1. client[pool[s]].server = s
        BY <3>2 DEF PoolPlaced
      <4>2. QED BY <2>6, <2>12, <3>2, <4>1
    <3>3. QED BY <2>4, <3>2 DEF PoolPlaced
  <2>10. QED BY <2>3, <2>7, <2>8, <2>9
<1>4. ASSUME NEW c \in Caller, EvictStale(c) PROVE Typed'
  <2>1. client' \in [Client -> ClientEntry] /\ ClientsPlaced'
    BY ZenonT(60), <1>4, ClosedClients DEF EvictStale, ClientsPlaced
  <2>2. /\ caller[c] \in Call /\ caller[c].server \in Server /\ caller[c].read \in Setting
        /\ caller[c].client = None
    BY <1>4 DEF EvictStale, CallsPlaced
  <2>3. caller' = [caller EXCEPT ![c] = [caller[c] EXCEPT !.pc = "evicting"]]
    BY <1>4 DEF EvictStale
  <2>4. /\ [caller[c] EXCEPT !.pc = "evicting"] \in Call
        /\ [caller[c] EXCEPT !.pc = "evicting"].pc = "evicting"
        /\ [caller[c] EXCEPT !.pc = "evicting"].client = None
        /\ [caller[c] EXCEPT !.pc = "evicting"].server \in Server
        /\ [caller[c] EXCEPT !.pc = "evicting"].read \in Setting
    BY <2>2 DEF Call
  <2>5. caller' \in [Caller -> Call] /\ CallsPlaced'
    BY <2>3, <2>4, CallerMoved
  <2>6. PoolPlaced'
    <3>1. \A j \in Client : client'[j].server = client[j].server
      BY ZenonT(60), <1>4, ClosedClients DEF EvictStale
    <3>2. QED BY ZenonT(60), <1>4, <3>1 DEF EvictStale, Unpooled, PoolPlaced
  <2>7. QED BY <1>4, <2>1, <2>5, <2>6 DEF EvictStale, Unpooled, CallsPlaced
<1>5. ASSUME NEW c \in Caller, Join(c) PROVE Typed'
  <2>1. initFlight[caller[c].server] \in Client
    BY <1>5 DEF Join, Missed, CallsPlaced
  <2>2. caller' \in [Caller -> Call] /\ CallsPlaced'
    BY <1>2, <1>5, <2>1 DEF Join, Missed
  <2>3. QED BY <1>5, <2>2 DEF Join, ClientsPlaced, PoolPlaced
<1>15. ASSUME NEW c \in Caller, Finish(c) PROVE Typed'
  <2>1. caller' \in [Caller -> Call] /\ CallsPlaced'
    BY <1>15 DEF Finish, Idle, Call, CallsPlaced
  <2>2. QED BY <1>15, <2>1 DEF Finish, ClientsPlaced, PoolPlaced, CallsPlaced
<1>6. ASSUME NEW c \in Caller, NEW k \in Client, Connect(c, k) PROVE Typed'
  <2> DEFINE x == [phase |-> "connecting", server |-> caller[c].server,
                   settings |-> caller[c].read, timer |-> FALSE]
  <2>1. caller[c].server \in Server /\ caller[c].read \in Setting
    BY <1>6 DEF Connect, Missed, CallsPlaced
  <2>2. x \in ClientEntry
    BY <2>1 DEF ClientEntry
  <2>3. client' \in [Client -> ClientEntry] /\ ClientsPlaced'
    BY <1>6, <2>1, <2>2 DEF Connect, ClientsPlaced
  <2>4. caller' \in [Caller -> Call] /\ CallsPlaced'
    BY <1>2, <1>6 DEF Connect, Missed
  <2>5. \A s \in Server : pool[s] # k
    BY <1>6 DEF Connect, PoolPlaced, Unused
  <2>6. PoolPlaced'
    BY <1>6, <2>2, <2>5 DEF Connect, PoolPlaced
  <2>7. QED BY <1>6, <2>1, <2>3, <2>4, <2>6 DEF Connect, CallsPlaced
<1>7. ASSUME NEW k \in Client, NEW connected \in BOOLEAN, caller' = Answered(k, connected)
      PROVE  caller' \in [Caller -> Call] /\ CallsPlaced'
  <2>1. caller' \in [Caller -> Call]
    BY <1>7, AnsweredCalls
  <2>2. ASSUME NEW c \in Caller
        PROVE  /\ caller'[c].pc # "idle" => caller'[c].server \in Server /\ caller'[c].read \in Setting
               /\ caller'[c].client # None <=> caller'[c].pc \in {"joined", "given"}
    <3>1. CASE caller[c].pc = "joined" /\ caller[c].client = k /\ connected
      BY <1>7, <3>1, AnsweredCalls DEF CallsPlaced
    <3>2. CASE caller[c].pc = "joined" /\ caller[c].client = k /\ ~connected
      BY <1>7, <3>2, AnsweredCalls DEF Idle
    <3>3. CASE ~(caller[c].pc = "joined" /\ caller[c].client = k)
      BY <1>7, <3>3, AnsweredCalls DEF CallsPlaced
    <3>4. QED BY <3>1, <3>2, <3>3
  <2>3. QED BY <2>1, <2>2 DEF CallsPlaced
<1>8. ASSUME NEW k \in Client, Connected(k) PROVE Typed'
  <2>1. client[k].server \in Server
    BY <1>8 DEF Connected, ClientsPlaced
  <2>8. client[k] \in ClientEntry
    OBVIOUS
  <2>2. [client[k] EXCEPT !.phase = "open", !.timer = TRUE] \in ClientEntry
    BY <2>8 DEF ClientEntry
  <2>3. [client[k] EXCEPT !.phase = "open", !.timer = TRUE].server \in Server
    BY <2>1, <2>8 DEF ClientEntry
  <2>4. client' = [client EXCEPT ![k] = [client[k] EXCEPT !.phase = "open", !.timer = TRUE]]
    BY <1>8 DEF Connected
  <2>5. client' \in [Client -> ClientEntry] /\ ClientsPlaced'
    BY <2>1, <2>2, <2>3, <2>4 DEF ClientsPlaced, ClientEntry
  <2>6. caller' \in [Caller -> Call] /\ CallsPlaced'
    BY <1>7, <1>8 DEF Connected
  <2>7. \A j \in Client : client'[j].server = client[j].server
    BY <2>4, <2>8 DEF ClientEntry
  <2>9. PoolPlaced'
    BY <1>8, <2>1, <2>7 DEF Connected, PoolPlaced
  <2>10. QED BY <1>8, <2>1, <2>5, <2>6, <2>9 DEF Connected, Landed, CallsPlaced
<1>9. ASSUME NEW k \in Client, ConnectFails(k) PROVE Typed'
  <2>1. client' \in [Client -> ClientEntry] /\ ClientsPlaced'
    BY <1>9, ClosedClients DEF ConnectFails, ClientsPlaced
  <2>2. caller' \in [Caller -> Call] /\ CallsPlaced'
    BY <1>7, <1>9 DEF ConnectFails
  <2>3. PoolPlaced'
    <3>1. client' = Closed({k})
      BY <1>9 DEF ConnectFails
    <3>2. \A j \in Client : client'[j].server = client[j].server
      BY <3>1, ClosedClients
    <3>3. QED BY <1>9, <3>2 DEF ConnectFails, PoolPlaced
  <2>4. QED BY <1>9, <2>1, <2>2, <2>3 DEF ConnectFails, Landed, CallsPlaced
<1>10. ASSUME NEW k \in Client, IdleTimeout(k) PROVE Typed'
  <2> DEFINE closed == Closed({pool[client[k].server]})
  <2>1. closed \in [Client -> ClientEntry]
    BY ClosedClients
  <2>2. [closed[k] EXCEPT !.timer = FALSE] \in ClientEntry
    BY ZenonT(60), <2>1 DEF ClientEntry
  <2>3. client' = [closed EXCEPT ![k] = [closed[k] EXCEPT !.timer = FALSE]]
    BY <1>10 DEF IdleTimeout
  <2>4. client' \in [Client -> ClientEntry]
    BY <2>1, <2>2, <2>3
  <2>5. ASSUME NEW j \in Client
        PROVE  /\ client'[j].server = client[j].server
               /\ client'[j].phase \in {"closed", client[j].phase}
               /\ client[j].timer = FALSE => client'[j].timer = FALSE
    <3> HIDE DEF closed
    <3>1. /\ client'[j].server = closed[j].server
          /\ client'[j].phase = closed[j].phase
          /\ closed[j].timer = FALSE => client'[j].timer = FALSE
      <4>1. closed[k] \in ClientEntry
        BY <2>1
      <4>2. LET x == [closed[k] EXCEPT !.timer = FALSE] IN
            /\ x.server = closed[k].server /\ x.phase = closed[k].phase /\ x.timer = FALSE
        BY <4>1 DEF ClientEntry
      <4>3. QED BY <2>1, <2>3, <4>2
    <3> USE DEF closed
    <3>2. closed[j] = client[j] \/ (closed[j].phase = "closed" /\ closed[j].timer = FALSE)
      BY ClosedClients
    <3>3. closed[j].server = client[j].server
      BY ClosedClients
    <3>4. QED BY <3>1, <3>2, <3>3
  <2>7. ClientsPlaced'
    BY ZenonT(60), <2>4, <2>5 DEF ClientsPlaced, ClientEntry
  <2>8. PoolPlaced'
    BY ZenonT(60), <1>10, <2>5 DEF IdleTimeout, Unpooled, PoolPlaced
  <2>9. QED BY <1>10, <2>4, <2>7, <2>8 DEF IdleTimeout, Unpooled, CallsPlaced
<1>11. CASE OnModuleDestroy
  <2>1. client' \in [Client -> ClientEntry] /\ ClientsPlaced'
    BY ZenonT(60), <1>11, ClosedClients DEF OnModuleDestroy, ClientsPlaced
  <2>2. QED BY <1>11, <2>1 DEF OnModuleDestroy, CallsPlaced, PoolPlaced
<1>12. ASSUME NEW s \in Server, NEW edited \in ServerRow \cup {None}, EditServer(s, edited)
       PROVE  Typed'
  BY <1>12 DEF EditServer, ClientsPlaced, CallsPlaced, PoolPlaced
<1>13. CASE UNCHANGED vars
  BY <1>13 DEF vars, ClientsPlaced, CallsPlaced, PoolPlaced
<1>14. QED
  <2> HIDE DEF Typed, TypeOK
  <2>1. QED
    BY <1>1, <1>3, <1>4, <1>5, <1>6, <1>8, <1>9, <1>10, <1>11, <1>12, <1>13, <1>15 DEF Next

----------------------------------------------------------------------------
\* The inductive invariant.

\* What initFlights tells of is being connected, for that server.
FlightsPlaced ==
  \A s \in Server : initFlight[s] # None =>
    client[initFlight[s]].phase = "connecting" /\ client[initFlight[s]].server = s

\* A call awaits a connection of its server that goes on; the clients that were
\* open when it read its server were connected before.
CallsAwait ==
  \A c \in Caller :
    /\ caller[c].pc = "joined" =>
         /\ client[caller[c].client].phase = "connecting"
         /\ client[caller[c].client].server = caller[c].server
    /\ \A k \in caller[c].open : client[k].phase \in {"open", "closed"}

\* Calls and clients of a server that was never edited have its settings.
UneditedAgree ==
  \A s \in Server : changed[s] = 0 =>
    /\ \A c \in Caller : caller[c].pc # "idle" /\ caller[c].server = s =>
         caller[c].read = server[s].settings /\ caller[c].pc # "evicting"
    /\ \A k \in LiveOf(s) : client[k].settings = server[s].settings

\* And it has one client.
UneditedShared ==
  \A s \in Server : up /\ changed[s] = 0 =>
    /\ \A j, k \in LiveOf(s) : j = k
    /\ \A k \in LiveOf(s) : client[k].phase = "connecting" \/ pool[s] = k

Inv == /\ FlightsPlaced /\ CallsAwait /\ PooledIsUsable /\ FlightsAreShared
       /\ UneditedAgree /\ UneditedShared

LEMMA InvInit == Init => Inv
  BY NoneAssumption
  DEF Init, Inv, FlightsPlaced, CallsAwait, PooledIsUsable, FlightsAreShared, UneditedAgree,
      UneditedShared, LiveOf, ConnectingOf, Unused, Idle

\* A step that connects and closes nothing.
LEMMA ClientsSame ==
  ASSUME Typed, Inv, UNCHANGED <<initFlight, pool, up>>,
         \A k \in Client : /\ client'[k].phase = client[k].phase
                           /\ client'[k].server = client[k].server
                           /\ client'[k].settings = client[k].settings
                           /\ client[k].timer = TRUE => client'[k].timer = TRUE
  PROVE  /\ FlightsPlaced' /\ PooledIsUsable' /\ FlightsAreShared'
         /\ \A s \in Server : LiveOf(s)' = LiveOf(s)
<1> USE DEF Inv, Typed, TypeOK
<1>1. \A s \in Server : LiveOf(s)' = LiveOf(s) /\ ConnectingOf(s)' = ConnectingOf(s)
  BY DEF LiveOf, ConnectingOf
<1>2. FlightsPlaced'
  BY DEF FlightsPlaced
<1>3. PooledIsUsable'
  <2>1. \A s \in Server : pool[s] # None => client[pool[s]].timer = TRUE
    BY DEF PooledIsUsable, ClientEntry
  <2>2. QED BY <2>1 DEF PooledIsUsable
<1>4. FlightsAreShared'
  BY <1>1 DEF FlightsAreShared
<1>5. QED BY <1>1, <1>2, <1>3, <1>4

\* What calls, pool and flights refer to are clients.
LEMMA Referred ==
  ASSUME Typed
  PROVE  /\ \A s \in Server : pool[s] \in Client \cup {None} /\ initFlight[s] \in Client \cup {None}
         /\ \A c \in Caller : /\ caller[c].pc = "joined" => caller[c].client \in Client
                              /\ caller[c].open \subseteq Client
                              /\ caller[c].pc # "idle" => caller[c].server \in Server
<1>1. \A c \in Caller : caller[c].client \in Client \cup {None} /\ caller[c].open \subseteq Client
  BY DEF Typed, TypeOK, Call
<1>2. QED BY <1>1 DEF Typed, TypeOK, CallsPlaced

\* A step that closes the clients K, takes them out of the pool and of the flights,
\* and starts no call.
Closes(K) ==
  /\ \A k \in Client : /\ client'[k].phase = IF k \in K THEN "closed" ELSE client[k].phase
                       /\ client'[k].server = client[k].server
                       /\ client'[k].settings = client[k].settings
  /\ \A s \in Server :
       /\ pool'[s] # None => /\ pool'[s] = pool[s] /\ pool[s] \notin K
                             /\ client'[pool[s]].timer = TRUE
       /\ up' /\ pool[s] \notin K => pool'[s] = pool[s]
       /\ initFlight'[s] # None => initFlight'[s] = initFlight[s] /\ initFlight[s] \notin K
       /\ up' /\ initFlight[s] \notin K => initFlight'[s] = initFlight[s]
  /\ \A c \in Caller :
       /\ caller'[c].pc = "joined" => /\ caller[c].pc = "joined"
                                      /\ caller'[c].client = caller[c].client
                                      /\ caller'[c].client \notin K
       /\ caller'[c].pc # "idle" => /\ caller[c].pc # "idle"
                                    /\ caller'[c].server = caller[c].server
                                    /\ caller'[c].read = caller[c].read
       /\ caller'[c].pc = "evicting" => caller[c].pc = "evicting" \/ changed[caller[c].server] # 0
       /\ caller'[c].open \subseteq caller[c].open
  /\ UNCHANGED <<server, changed>>
  /\ up' => up

LEMMA ClientsClosed ==
  ASSUME Typed, Typed', Inv, NEW K, Closes(K)
  PROVE  Inv'
<1> USE DEF Closes
<1>1. /\ \A s \in Server : pool[s] \in Client \cup {None} /\ initFlight[s] \in Client \cup {None}
      /\ \A c \in Caller : /\ caller[c].pc = "joined" => caller[c].client \in Client
                           /\ caller[c].open \subseteq Client
                           /\ caller[c].pc # "idle" => caller[c].server \in Server
  BY Referred
<1>2. \A s \in Server : LiveOf(s)' \subseteq LiveOf(s) /\ ConnectingOf(s)' = ConnectingOf(s) \ K
  BY DEF LiveOf, ConnectingOf
<1>3. \A s \in Server : \A k \in LiveOf(s)' : k \in Client /\ k \notin K /\ client'[k].phase = client[k].phase
  BY DEF LiveOf
<1> HIDE DEF Typed
<1>4. FlightsPlaced'
  BY <1>1 DEF Inv, FlightsPlaced
<1>5. CallsAwait'
  BY <1>1 DEF Inv, CallsAwait
<1>6. PooledIsUsable'
  BY <1>1 DEF Inv, PooledIsUsable
<1>7. FlightsAreShared'
  BY <1>1, <1>2 DEF Inv, FlightsAreShared
<1>8. UneditedAgree'
  <2>1. ASSUME NEW s \in Server, changed'[s] = 0, NEW c \in Caller,
               caller'[c].pc # "idle", caller'[c].server = s
        PROVE  caller'[c].read = server'[s].settings /\ caller'[c].pc # "evicting"
    BY <2>1 DEF Inv, UneditedAgree
  <2>2. ASSUME NEW s \in Server, changed'[s] = 0, NEW k \in LiveOf(s)'
        PROVE  client'[k].settings = server'[s].settings
    BY <1>2, <1>3, <2>2 DEF Inv, UneditedAgree
  <2>3. QED BY <2>1, <2>2 DEF UneditedAgree
<1>9. UneditedShared'
  <2>1. ASSUME NEW s \in Server, up', changed'[s] = 0
        PROVE  /\ \A j, k \in LiveOf(s)' : j = k
               /\ \A k \in LiveOf(s)' : client'[k].phase = "connecting" \/ pool'[s] = k
    BY <1>2, <1>3, <2>1 DEF Inv, UneditedShared
  <2>2. QED BY <2>1 DEF UneditedShared
<1>10. QED BY <1>4, <1>5, <1>6, <1>7, <1>8, <1>9 DEF Inv

LEMMA InvNext == Typed /\ Inv /\ [Next]_vars => Inv'
<1> SUFFICES ASSUME Typed, Inv, [Next]_vars PROVE Inv'
  OBVIOUS
<1>0. Typed'
  BY TypedNext
<1> USE NoneAssumption, <1>0 DEF Typed, TypeOK
<1>1. ASSUME NEW c \in Caller, NEW s \in Server, NEW allowDisabled \in BOOLEAN,
             Find(c, s, allowDisabled)
      PROVE  Inv'
  <2>1. /\ caller'[c].pc = "found"
        /\ caller'[c].server = s
        /\ caller'[c].read = server[s].settings
        /\ \A k \in caller'[c].open : client[k].phase = "open"
        /\ \A d \in Caller \ {c} : caller'[d] = caller[d]
    BY <1>1 DEF Find
  <2>2. CallsAwait'
    BY <1>1, <2>1 DEF Find, Inv, CallsAwait
  <2>3. FlightsPlaced' /\ PooledIsUsable' /\ FlightsAreShared' /\ \A q \in Server : LiveOf(q)' = LiveOf(q)
    BY <1>1, ClientsSame DEF Find
  <2>4. UneditedAgree'
    BY <1>1, <2>1, <2>3 DEF Find, Inv, UneditedAgree
  <2>5. UneditedShared'
    BY <1>1, <2>3 DEF Find, Inv, UneditedShared
  <2>6. QED BY <2>2, <2>3, <2>4, <2>5 DEF Inv
<1>2. ASSUME NEW c \in Caller, Reuse(c) PROVE Inv'
  <2> DEFINE p == pool[caller[c].server]
  <2>1. p \in Client
    BY <1>2 DEF Reuse, CallsPlaced
  <2>2. \A k \in Client : /\ client'[k].phase = client[k].phase
                          /\ client'[k].server = client[k].server
                          /\ client'[k].settings = client[k].settings
                          /\ client[k].timer = TRUE => client'[k].timer = TRUE
    BY <1>2, <2>1, TouchedClients DEF Reuse
  <2>3. /\ caller'[c].pc = "given" /\ caller[c].pc # "idle"
        /\ caller'[c].server = caller[c].server
        /\ caller'[c].read = caller[c].read
        /\ caller'[c].open = caller[c].open
        /\ \A d \in Caller \ {c} : caller'[d] = caller[d]
    <3>1. caller[c] \in Call
      OBVIOUS
    <3>2. QED BY <1>2, <3>1 DEF Reuse, Call
  <2>4. CallsAwait'
    BY <2>2, <2>3, Referred DEF Inv, CallsAwait
  <2>5. FlightsPlaced' /\ PooledIsUsable' /\ FlightsAreShared' /\ \A q \in Server : LiveOf(q)' = LiveOf(q)
    BY <1>2, <2>2, ClientsSame DEF Reuse
  <2> HIDE DEF p, Typed
  <2>6. /\ UNCHANGED <<server, pool, up, changed>>
        /\ \A q \in Server : \A k \in LiveOf(q) : k \in Client
    BY <1>2 DEF Reuse, LiveOf
  <2>7. UneditedAgree'
    BY <2>2, <2>3, <2>5, <2>6 DEF Inv, UneditedAgree
  <2>8. UneditedShared'
    BY <2>2, <2>5, <2>6 DEF Inv, UneditedShared
  <2>9. QED BY <2>4, <2>5, <2>7, <2>8 DEF Inv
<1>3. ASSUME NEW c \in Caller, EvictStale(c) PROVE Inv'
  <2> DEFINE p == pool[caller[c].server]
  <2>1. /\ p \in Client /\ caller[c].server \in Server
        /\ client[p].phase = "open" /\ client[p].server = caller[c].server
        /\ client[p].settings # caller[c].read
    BY <1>3 DEF EvictStale, CallsPlaced, Inv, PooledIsUsable, SameSignature
  <2>2. \A k \in Client : /\ client'[k].phase = IF k \in {p} THEN "closed" ELSE client[k].phase
                          /\ client'[k].server = client[k].server
                          /\ client'[k].settings = client[k].settings
                          /\ k # p => client'[k].timer = client[k].timer
    <3>1. client' = Closed({p})
      BY <1>3 DEF EvictStale
    <3> HIDE DEF p
    <3>2. \A k \in Client : client[k] \in ClientEntry
      OBVIOUS
    <3>3. ASSUME NEW k \in Client, k \in {p}
          PROVE  /\ client'[k].phase = "closed"
                 /\ client'[k].server = client[k].server
                 /\ client'[k].settings = client[k].settings
      BY ZenonT(60), <3>1, <3>3, ClosedClients
    <3>4. ASSUME NEW k \in Client, k \notin {p}
          PROVE  client'[k] = client[k]
      BY <3>1, <3>4, ClosedClients
    <3>5. QED BY <3>3, <3>4
  <2>3. /\ caller'[c].pc = "evicting" /\ caller[c].pc = "found"
        /\ caller'[c].server = caller[c].server
        /\ caller'[c].read = caller[c].read
        /\ caller'[c].open = caller[c].open
        /\ \A d \in Caller \ {c} : caller'[d] = caller[d]
    <3>1. caller[c] \in Call
      OBVIOUS
    <3>2. QED BY <1>3, <3>1 DEF EvictStale, Call
  <2>4. changed[caller[c].server] # 0
    BY <2>1, <2>3 DEF Inv, UneditedAgree, LiveOf
  <2>5. \A s \in Server : /\ pool'[s] = IF s = caller[c].server THEN None ELSE pool[s]
                          /\ pool[s] # None => client[pool[s]].server = s /\ client[pool[s]].timer = TRUE
                          /\ initFlight'[s] = initFlight[s]
                          /\ initFlight[s] # p
    BY <1>3, <2>1 DEF EvictStale, Unpooled, Inv, PooledIsUsable, FlightsPlaced, ClientEntry
  <2>6. \A d \in Caller : caller[d].pc = "joined" => caller[d].client # p
    BY <2>1 DEF Inv, CallsAwait
  <2>7. UNCHANGED <<server, changed, up>>
    BY <1>3 DEF EvictStale
  <2>8. \A d \in Caller :
           /\ caller'[d].pc = "joined" => /\ caller[d].pc = "joined"
                                          /\ caller'[d].client = caller[d].client
                                          /\ caller'[d].client \notin {p}
           /\ caller'[d].pc # "idle" => /\ caller[d].pc # "idle"
                                        /\ caller'[d].server = caller[d].server
                                        /\ caller'[d].read = caller[d].read
           /\ caller'[d].pc = "evicting" => caller[d].pc = "evicting" \/ changed[caller[d].server] # 0
           /\ caller'[d].open \subseteq caller[d].open
    BY <2>3, <2>4, <2>6
  <2> HIDE DEF p
  <2>9. \A s \in Server :
           /\ pool'[s] # None => /\ pool'[s] = pool[s] /\ pool[s] \notin {p}
                                 /\ client'[pool[s]].timer = TRUE
           /\ up' /\ pool[s] \notin {p} => pool'[s] = pool[s]
    <3>1. pool[caller[c].server] = p
      BY DEF p
    <3>2. QED BY <2>1, <2>2, <2>5, <3>1
  <2>10. Closes({p})
    BY <2>2, <2>5, <2>7, <2>8, <2>9 DEF Closes
  <2> HIDE DEF Typed
  <2>11. QED BY <1>0, <2>10, ClientsClosed
<1>4. ASSUME NEW c \in Caller, Join(c) PROVE Inv'
  <2> DEFINE k == initFlight[caller[c].server]
  <2>1. /\ caller[c].server \in Server /\ k \in Client
        /\ client[k].phase = "connecting" /\ client[k].server = caller[c].server
    BY <1>4 DEF Join, Missed, CallsPlaced, Inv, FlightsPlaced
  <2>2. /\ caller'[c].pc = "joined" /\ caller[c].pc # "idle"
        /\ caller'[c].client = k
        /\ caller'[c].server = caller[c].server
        /\ caller'[c].read = caller[c].read
        /\ caller'[c].open = caller[c].open
        /\ \A d \in Caller \ {c} : caller'[d] = caller[d]
    <3>1. caller[c] \in Call
      OBVIOUS
    <3>2. QED BY <1>4, <3>1 DEF Join, Missed, Call
  <2>3. CallsAwait'
    BY <1>4, <2>1, <2>2 DEF Join, Inv, CallsAwait
  <2>4. FlightsPlaced' /\ PooledIsUsable' /\ FlightsAreShared' /\ \A q \in Server : LiveOf(q)' = LiveOf(q)
    BY <1>4, ClientsSame DEF Join
  <2>5. UneditedAgree'
    BY <1>4, <2>2, <2>4 DEF Join, Inv, UneditedAgree
  <2>6. UneditedShared'
    BY <1>4, <2>4 DEF Join, Inv, UneditedShared
  <2>7. QED BY <2>3, <2>4, <2>5, <2>6 DEF Inv
<1>5. ASSUME NEW c \in Caller, Finish(c) PROVE Inv'
  <2>1. /\ caller'[c].pc = "idle" /\ caller'[c].open = {}
        /\ \A d \in Caller \ {c} : caller'[d] = caller[d]
    BY <1>5 DEF Finish, Idle
  <2>2. CallsAwait'
    BY <1>5, <2>1 DEF Finish, Inv, CallsAwait
  <2>3. FlightsPlaced' /\ PooledIsUsable' /\ FlightsAreShared' /\ \A q \in Server : LiveOf(q)' = LiveOf(q)
    BY <1>5, ClientsSame DEF Finish
  <2>4. UneditedAgree'
    BY <1>5, <2>1, <2>3 DEF Finish, Inv, UneditedAgree
  <2>5. UneditedShared'
    BY <1>5, <2>3 DEF Finish, Inv, UneditedShared
  <2>6. QED BY <2>2, <2>3, <2>4, <2>5 DEF Inv
<1>6. ASSUME NEW c \in Caller, NEW k \in Client, Connect(c, k) PROVE Inv'
  <2> DEFINE s == caller[c].server
  <2>1. /\ s \in Server /\ caller[c].read \in Setting
        /\ caller[c].pc \in {"found", "evicting"}
        /\ caller[c].pc = "found" => pool[s] = None
        /\ initFlight[s] = None
        /\ client[k].phase = "unused" /\ client[k].server = None
    BY <1>6 DEF Connect, Missed, CallsPlaced, Unused
  <2>2. /\ caller'[c].pc = "joined" /\ caller'[c].client = k
        /\ caller'[c].server = s
        /\ caller'[c].read = caller[c].read
        /\ caller'[c].open = caller[c].open
        /\ \A d \in Caller \ {c} : caller'[d] = caller[d]
    <3>1. caller[c] \in Call
      OBVIOUS
    <3>2. QED BY <1>6, <3>1 DEF Connect, Call
  <2>3. /\ client'[k].phase = "connecting" /\ client'[k].server = s
        /\ client'[k].settings = caller[c].read
        /\ \A j \in Client \ {k} : client'[j] = client[j]
        /\ \A q \in Server : initFlight'[q] = IF q = s THEN k ELSE initFlight[q]
        /\ UNCHANGED <<server, pool, up, changed>>
    BY <1>6 DEF Connect
  <2> HIDE DEF s, Typed
  <2>4. CallsAwait'
    BY <2>1, <2>2, <2>3, Referred DEF Inv, CallsAwait
  <2>5. FlightsPlaced'
    BY <2>1, <2>2, <2>3, Referred DEF Inv, FlightsPlaced
  <2>6. PooledIsUsable'
    BY <2>1, <2>3, Referred DEF Inv, PooledIsUsable
  <2>7. \A q \in Server : /\ LiveOf(q)' = LiveOf(q) \cup (IF q = s THEN {k} ELSE {})
                          /\ ConnectingOf(q)' = ConnectingOf(q) \cup (IF q = s THEN {k} ELSE {})
                          /\ k \notin LiveOf(q)
    BY <2>1, <2>3 DEF LiveOf, ConnectingOf
  <2>8. FlightsAreShared'
    BY <2>1, <2>3, <2>7 DEF Inv, FlightsAreShared
  <2>9. changed[s] = 0 => caller[c].read = server[s].settings /\ caller[c].pc = "found"
    BY <2>1 DEF Inv, UneditedAgree, s
  <2>10. UneditedAgree'
    <3>1. ASSUME NEW q \in Server, changed[q] = 0, NEW d \in Caller,
                 caller'[d].pc # "idle", caller'[d].server = q
          PROVE  caller'[d].read = server[q].settings /\ caller'[d].pc # "evicting"
      BY <2>2, <2>9, <3>1 DEF Inv, UneditedAgree
    <3>2. ASSUME NEW q \in Server, changed[q] = 0, NEW j \in LiveOf(q)'
          PROVE  client'[j].settings = server[q].settings
      <4>1. j \in Client
        BY DEF LiveOf
      <4>2. QED BY <2>3, <2>7, <2>9, <3>2, <4>1 DEF Inv, UneditedAgree
    <3>3. QED BY <2>3, <3>1, <3>2 DEF UneditedAgree
  <2>11. up /\ changed[s] = 0 => LiveOf(s) = {}
    <3>1. up => ConnectingOf(s) = {}
      BY <2>1 DEF Inv, FlightsAreShared
    <3>2. up /\ changed[s] = 0 => pool[s] = None
      BY <2>1, <2>9
    <3>3. \A j \in LiveOf(s) : j \in Client /\ (client[j].phase = "connecting" => j \in ConnectingOf(s))
      BY DEF LiveOf, ConnectingOf
    <3>4. QED BY <2>1, <3>1, <3>2, <3>3, NoneAssumption DEF Inv, UneditedShared
  <2>12. UneditedShared'
    <3>1. ASSUME NEW q \in Server, up, changed[q] = 0
          PROVE  /\ \A i, j \in LiveOf(q)' : i = j
                 /\ \A j \in LiveOf(q)' : client'[j].phase = "connecting" \/ pool[q] = j
      <4>1. CASE q = s
        BY <2>3, <2>7, <2>11, <3>1, <4>1
      <4>2. CASE q # s
        <5>1. \A j \in LiveOf(q) : j \in Client /\ j # k
          BY <2>7 DEF LiveOf
        <5>2. QED BY <2>3, <2>7, <3>1, <4>2, <5>1 DEF Inv, UneditedShared
      <4>3. QED BY <4>1, <4>2
    <3>2. QED BY <2>3, <3>1 DEF UneditedShared
  <2>13. QED BY <2>4, <2>5, <2>6, <2>8, <2>10, <2>12 DEF Inv
<1>7. ASSUME NEW k \in Client, Connected(k) PROVE Inv'
  <2> DEFINE s == client[k].server
  <2>1. /\ s \in Server /\ client[k].phase = "connecting"
        /\ up => initFlight[s] = k
    <3>1. client[k].phase = "connecting" /\ s \in Server
      BY <1>7 DEF Connected, ClientsPlaced
    <3>2. k \in ConnectingOf(s)
      BY <3>1 DEF ConnectingOf
    <3>3. QED BY <3>1, <3>2 DEF Inv, FlightsAreShared
  <2>2. /\ client'[k].phase = "open" /\ client'[k].timer = TRUE
        /\ client'[k].server = s /\ client'[k].settings = client[k].settings
        /\ \A j \in Client \ {k} : client'[j] = client[j]
    <3>1. client[k] \in ClientEntry
      OBVIOUS
    <3>2. client' = [client EXCEPT ![k] = [client[k] EXCEPT !.phase = "open", !.timer = TRUE]]
      BY <1>7 DEF Connected
    <3>3. QED BY <3>1, <3>2 DEF ClientEntry
  <2>3. /\ \A q \in Server : /\ pool'[q] = IF q = s THEN k ELSE pool[q]
                             /\ initFlight'[q] = IF q = s THEN None ELSE initFlight[q]
        /\ UNCHANGED <<server, up, changed>>
    BY <1>7, <2>1 DEF Connected, Landed
  <2>4. \A d \in Caller :
          IF caller[d].pc = "joined" /\ caller[d].client = k
          THEN /\ caller'[d].pc = "given"
               /\ caller'[d].server = caller[d].server
               /\ caller'[d].read = caller[d].read
               /\ caller'[d].open = caller[d].open
          ELSE caller'[d] = caller[d]
    <3>1. caller' = Answered(k, TRUE)
      BY <1>7 DEF Connected
    <3>2. QED BY <3>1, GivenCalls
  <2> HIDE DEF s, Typed
  <2>5. CallsAwait'
    BY <2>2, <2>4, Referred DEF Inv, CallsAwait
  <2>6. FlightsPlaced'
    BY <2>1, <2>2, <2>3, Referred DEF Inv, FlightsPlaced, s
  <2>7. PooledIsUsable'
    BY <2>1, <2>2, <2>3, Referred DEF Inv, PooledIsUsable
  <2>8. \A q \in Server : LiveOf(q)' = LiveOf(q) /\ ConnectingOf(q)' = ConnectingOf(q) \ {k}
    BY <2>1, <2>2 DEF LiveOf, ConnectingOf, s
  <2>9. FlightsAreShared'
    <3>1. \A q \in Server \ {s} : k \notin ConnectingOf(q)
      BY DEF ConnectingOf, s
    <3>2. QED BY <2>1, <2>3, <2>8, <3>1 DEF Inv, FlightsAreShared
  <2>10. \A j \in Client : client'[j].settings = client[j].settings
    BY <2>2
  <2>11. \A q \in Server : \A j \in LiveOf(q) : j \in Client
    BY DEF LiveOf
  <2>12. UneditedAgree'
    BY <2>3, <2>4, <2>8, <2>10, <2>11 DEF Inv, UneditedAgree
  <2>13. UneditedShared'
    <3>1. ASSUME NEW q \in Server, up, changed[q] = 0
          PROVE  \A j \in LiveOf(q) : client'[j].phase = "connecting" \/ pool'[q] = j
      <4>1. CASE q = s
        <5>1. k \in LiveOf(q)
          BY <2>1, <4>1 DEF LiveOf, s
        <5>2. QED BY <2>3, <3>1, <4>1, <5>1 DEF Inv, UneditedShared
      <4>2. CASE q # s
        <5>1. k \notin LiveOf(q)
          BY <4>2 DEF LiveOf, s
        <5>2. QED BY <2>2, <2>3, <2>11, <3>1, <4>2, <5>1 DEF Inv, UneditedShared
      <4>3. QED BY <4>1, <4>2
    <3>2. QED BY <2>3, <2>8, <3>1 DEF Inv, UneditedShared
  <2>14. QED BY <2>5, <2>6, <2>7, <2>9, <2>12, <2>13 DEF Inv
<1>8. ASSUME NEW k \in Client, ConnectFails(k) PROVE Inv'
  <2> DEFINE s == client[k].server
  <2>1. /\ s \in Server /\ client[k].phase = "connecting"
        /\ up => initFlight[s] = k
    <3>1. client[k].phase = "connecting" /\ s \in Server
      BY <1>8 DEF ConnectFails, ClientsPlaced
    <3>2. k \in ConnectingOf(s)
      BY <3>1 DEF ConnectingOf
    <3>3. QED BY <3>1, <3>2 DEF Inv, FlightsAreShared
  <2>2. \A j \in Client : /\ client'[j].phase = IF j \in {k} THEN "closed" ELSE client[j].phase
                          /\ client'[j].server = client[j].server
                          /\ client'[j].settings = client[j].settings
                          /\ j # k => client'[j].timer = client[j].timer
    <3>1. client' = Closed({k})
      BY <1>8 DEF ConnectFails
    <3>2. ASSUME NEW j \in Client, j \in {k}
          PROVE  /\ client'[j].phase = "closed"
                 /\ client'[j].server = client[j].server
                 /\ client'[j].settings = client[j].settings
      BY ZenonT(60), <3>1, <3>2, ClosedClients
    <3>3. ASSUME NEW j \in Client, j \notin {k}
          PROVE  client'[j] = client[j]
      BY <3>1, <3>3, ClosedClients
    <3>4. QED BY <3>2, <3>3
  <2>3. /\ \A q \in Server : initFlight'[q] = IF q = s THEN None ELSE initFlight[q]
        /\ UNCHANGED <<server, pool, up, changed>>
    BY <1>8, <2>1 DEF ConnectFails, Landed
  <2>4. \A d \in Caller :
          IF caller[d].pc = "joined" /\ caller[d].client = k
          THEN caller'[d].pc = "idle" /\ caller'[d].open = {}
          ELSE caller'[d] = caller[d]
    <3>1. caller' = Answered(k, FALSE)
      BY <1>8 DEF ConnectFails
    <3>2. \A d \in Caller : caller'[d] = IF caller[d].pc = "joined" /\ caller[d].client = k
                                      THEN Idle ELSE caller[d]
      BY <3>1, FailedCalls
    <3>3. Idle.pc = "idle" /\ Idle.open = {}
      BY DEF Idle
    <3>4. QED BY <3>2, <3>3
  <2>5. \A q \in Server : /\ pool[q] # None => pool[q] # k /\ client[pool[q]].timer = TRUE
                          /\ initFlight[q] # None => client[initFlight[q]].server = q
    BY <2>1, ClosedClients DEF Inv, PooledIsUsable, FlightsPlaced, ClientEntry
  <2> HIDE DEF Typed
  <2>6. \A q \in Server :
           /\ pool'[q] # None => /\ pool'[q] = pool[q] /\ pool[q] \notin {k}
                                 /\ client'[pool[q]].timer = TRUE
           /\ up' /\ pool[q] \notin {k} => pool'[q] = pool[q]
           /\ initFlight'[q] # None => initFlight'[q] = initFlight[q] /\ initFlight[q] \notin {k}
           /\ up' /\ initFlight[q] \notin {k} => initFlight'[q] = initFlight[q]
    BY <2>1, <2>2, <2>3, <2>5, Referred
  <2>7. Closes({k})
    BY <2>2, <2>3, <2>4, <2>6 DEF Closes
  <2>8. QED BY <1>0, <2>7, ClientsClosed
<1>9. ASSUME NEW k \in Client, IdleTimeout(k) PROVE Inv'
  <2> DEFINE s == client[k].server
             p == pool[s]
             closed == Closed({p})
  <2>1. s \in Server /\ (p # None => client[p].phase = "open")
    BY <1>9 DEF IdleTimeout, ClientsPlaced, Inv, PooledIsUsable
  <2>2. \A j \in Client : /\ client'[j].phase = IF j \in {p} THEN "closed" ELSE client[j].phase
                          /\ client'[j].server = client[j].server
                          /\ client'[j].settings = client[j].settings
                          /\ j \notin {p, k} => client'[j].timer = client[j].timer
    <3>1. client' = [closed EXCEPT ![k] = [closed[k] EXCEPT !.timer = FALSE]]
      BY <1>9 DEF IdleTimeout
    <3>2. /\ closed \in [Client -> ClientEntry]
          /\ \A j \in Client : /\ closed[j].server = client[j].server
                               /\ closed[j].settings = client[j].settings
                               /\ j \notin {p} => closed[j] = client[j]
                               /\ j \in {p} => closed[j].phase = "closed"
      <4> HIDE DEF p
      <4>1. client \in [Client -> ClientEntry]
        OBVIOUS
      <4> HIDE DEF Typed, TypeOK
      <4>2. closed \in [Client -> ClientEntry]
        BY <4>1, ClosedClients
      <4>3. ASSUME NEW j \in Client, j \in {p}
            PROVE  closed[j].phase = "closed"
        BY <4>1, <4>3, ClosedClients
      <4>4. ASSUME NEW j \in Client, j \notin {p}
            PROVE  closed[j] = client[j]
        BY <4>1, <4>4, ClosedClients
      <4>5. ASSUME NEW j \in Client
            PROVE  closed[j].server = client[j].server /\ closed[j].settings = client[j].settings
        BY <4>1, <4>5, ClosedClients
      <4>6. QED BY <4>2, <4>3, <4>4, <4>5
    <3> HIDE DEF closed, p
    <3>3. \A j \in Client : /\ client'[j].phase = closed[j].phase
                            /\ client'[j].server = closed[j].server
                            /\ client'[j].settings = closed[j].settings
                            /\ j # k => client'[j].timer = closed[j].timer
      <4>1. ASSUME NEW x \in ClientEntry
            PROVE  LET y == [x EXCEPT !.timer = FALSE] IN
                   /\ y.phase = x.phase /\ y.server = x.server /\ y.settings = x.settings
        BY DEF ClientEntry
      <4>2. closed[k] \in ClientEntry
        BY <3>2
      <4>3. QED BY <3>1, <3>2, <4>1, <4>2
    <3>4. QED BY <3>2, <3>3
  <2>3. /\ \A q \in Server : pool'[q] = IF q = s THEN None ELSE pool[q]
        /\ UNCHANGED <<server, initFlight, caller, up, changed>>
    BY <1>9, <2>1 DEF IdleTimeout, Unpooled
  <2>4. \A q \in Server : /\ pool[q] # None => client[pool[q]].server = q /\ client[pool[q]].timer = TRUE
                          /\ initFlight[q] # None => initFlight[q] # p
    BY <2>1 DEF Inv, PooledIsUsable, FlightsPlaced, ClientEntry
  <2>5. \A d \in Caller : caller[d].pc = "joined" => caller[d].client # p
    <3>1. \A d \in Caller : caller[d].pc = "joined" => caller[d].client \in Client
      BY Referred
    <3>2. QED BY <2>1, <3>1 DEF Inv, CallsAwait
  <2> HIDE DEF Typed, p
  <2>6. \A q \in Server :
           /\ pool'[q] # None => /\ pool'[q] = pool[q] /\ pool[q] \notin {p}
                                 /\ client'[pool[q]].timer = TRUE
           /\ up' /\ pool[q] \notin {p} => pool'[q] = pool[q]
           /\ initFlight'[q] # None => initFlight'[q] = initFlight[q] /\ initFlight[q] \notin {p}
           /\ up' /\ initFlight[q] \notin {p} => initFlight'[q] = initFlight[q]
    <3>1. pool[s] = p
      BY DEF p
    <3>2. \A q \in Server \ {s} : pool[q] # None => pool[q] # k /\ pool[q] # p
      BY <2>1, <2>4, <3>1
    <3>3. QED BY <2>1, <2>2, <2>3, <2>4, <3>1, <3>2, Referred
  <2>7. Closes({p})
    BY <2>2, <2>3, <2>5, <2>6 DEF Closes
  <2>8. QED BY <1>0, <2>7, ClientsClosed
<1>10. CASE OnModuleDestroy
  <2> DEFINE K == {pool[s] : s \in Server}
  <2>1. /\ client' = Closed(K)
        /\ \A s \in Server : pool'[s] = None /\ initFlight'[s] = None
        /\ up' = FALSE
        /\ UNCHANGED <<server, caller, changed>>
    BY <1>10 DEF OnModuleDestroy
  <2>2. \A d \in Caller : caller[d].pc = "joined" => caller[d].client \notin K
    <3>1. \A d \in Caller : caller[d].pc = "joined" => caller[d].client \in Client
      BY Referred
    <3>2. QED BY <3>1 DEF Inv, CallsAwait, PooledIsUsable
  <2> HIDE DEF K
  <2>3. \A j \in Client : /\ client'[j].phase = IF j \in K THEN "closed" ELSE client[j].phase
                          /\ client'[j].server = client[j].server
                          /\ client'[j].settings = client[j].settings
    <3>1. ASSUME NEW j \in Client, j \in K
          PROVE  /\ client'[j].phase = "closed"
                 /\ client'[j].server = client[j].server
                 /\ client'[j].settings = client[j].settings
      BY ZenonT(60), <2>1, <3>1, ClosedClients
    <3>2. ASSUME NEW j \in Client, j \notin K
          PROVE  client'[j] = client[j]
      BY <2>1, <3>2, ClosedClients
    <3>3. QED BY <3>1, <3>2
  <2> HIDE DEF Typed
  <2>4. Closes(K)
    BY <2>1, <2>2, <2>3 DEF Closes
  <2>5. QED BY <1>0, <2>4, ClientsClosed
<1>11. ASSUME NEW s \in Server, NEW edited \in ServerRow \cup {None}, EditServer(s, edited)
       PROVE  Inv'
  <2>1. /\ changed'[s] # 0
        /\ \A q \in Server \ {s} : changed'[q] = changed[q] /\ server'[q] = server[q]
        /\ UNCHANGED <<pool, initFlight, client, caller, up>>
    BY <1>11 DEF EditServer
  <2>2. \A q \in Server : LiveOf(q)' = LiveOf(q)
    BY <2>1 DEF LiveOf
  <2>3. FlightsPlaced' /\ CallsAwait' /\ PooledIsUsable' /\ FlightsAreShared'
    BY <2>1 DEF Inv, FlightsPlaced, CallsAwait, PooledIsUsable, FlightsAreShared, ConnectingOf
  <2>4. UneditedAgree'
    BY <2>1, <2>2 DEF Inv, UneditedAgree
  <2>5. UneditedShared'
    BY <2>1, <2>2 DEF Inv, UneditedShared
  <2>6. QED BY <2>3, <2>4, <2>5 DEF Inv
<1>12. CASE UNCHANGED vars
  BY <1>12 DEF vars, Inv, FlightsPlaced, CallsAwait, PooledIsUsable, FlightsAreShared,
     UneditedAgree, UneditedShared, LiveOf, ConnectingOf
<1>13. QED
  <2> HIDE DEF Typed, TypeOK
  <2>1. QED
    BY <1>1, <1>2, <1>3, <1>4, <1>5, <1>6, <1>7, <1>8, <1>9, <1>10, <1>11, <1>12 DEF Next

----------------------------------------------------------------------------
\* The theorems.

\* Typed and Inv hold in every state.
LEMMA Invariant == Spec => [](Typed /\ Inv)
<1>1. Init => Typed /\ Inv
  BY TypedInit, InvInit
<1>2. Typed /\ Inv /\ [Next]_vars => (Typed /\ Inv)'
  BY TypedNext, InvNext
<1>3. QED BY <1>1, <1>2, PTL DEF Spec

\* The rows, pool, flights, connections and calls keep their types, and a call has
\* a client exactly from when it awaits one.
THEOREM TypeCorrect == Spec => []TypeOK
<1>1. Typed => TypeOK
  BY DEF Typed
<1>2. QED BY <1>1, Invariant, PTL

\* Until the module is destroyed, at most one client of a server is being connected
\* at a time, and it is the one initFlights tells of (getOrCreateClientInternal).
THEOREM FlightsShared == Spec => []FlightsAreShared
<1>1. Inv => FlightsAreShared
  BY DEF Inv
<1>2. QED BY <1>1, Invariant, PTL

\* What the pool has for a server is an open client of that server whose idle timer
\* runs (evictClient, initializeClient, onModuleDestroy).
THEOREM PoolUsable == Spec => []PooledIsUsable
<1>1. Inv => PooledIsUsable
  BY DEF Inv
<1>2. QED BY <1>1, Invariant, PTL

\* Until the module is destroyed, a server that was never edited has one client at
\* most, being connected or open, and an open one is in the pool (single flight,
\* idle eviction).
THEOREM OneClientUnlessEdited == Spec => []UneditedHasOneClient
<1>1. ASSUME Typed, Inv PROVE UneditedHasOneClient
  <2> SUFFICES ASSUME NEW s \in Server, up, changed[s] = 0
               PROVE  /\ Cardinality(LiveOf(s)) <= 1
                      /\ \A k \in LiveOf(s) \ ConnectingOf(s) : pool[s] = k
    BY DEF UneditedHasOneClient
  <2>1. /\ \A j, k \in LiveOf(s) : j = k
        /\ \A k \in LiveOf(s) : client[k].phase = "connecting" \/ pool[s] = k
    BY <1>1 DEF Inv, UneditedShared
  <2>2. Cardinality(LiveOf(s)) <= 1
    <3>1. CASE LiveOf(s) = {}
      BY <3>1, FS_EmptySet
    <3>2. ASSUME NEW k \in LiveOf(s)
          PROVE  Cardinality(LiveOf(s)) <= 1
      <4>1. LiveOf(s) = {k}
        BY <2>1
      <4>2. Cardinality({k}) = 1
        BY FS_Singleton
      <4>3. QED BY <4>1, <4>2
    <3>3. QED BY <3>1, <3>2
  <2>3. \A k \in LiveOf(s) \ ConnectingOf(s) : pool[s] = k
    BY <2>1 DEF LiveOf, ConnectingOf
  <2>4. QED BY <2>2, <2>3
<1>2. QED BY <1>1, Invariant, PTL

\* A caller that is given a client that was open when it read its server is given
\* one with the settings it read (configSignature, evictClient).
THEOREM GivenClientsFit == Spec => GivenFits
<1> DEFINE Fits ==
      \A c \in Caller :
        caller[c].pc # "given" /\ caller'[c].pc = "given"
        => LET k == caller'[c].client IN
             /\ client'[k].phase = "open"
             /\ client'[k].server = caller[c].server
             /\ k \in caller[c].open => client'[k].settings = caller[c].read
<1>1. ASSUME Typed, Inv, [Next]_vars PROVE [Fits]_vars
  <2> SUFFICES ASSUME NEW c \in Caller, caller[c].pc # "given", caller'[c].pc = "given"
               PROVE  /\ client'[caller'[c].client].phase = "open"
                      /\ client'[caller'[c].client].server = caller[c].server
                      /\ caller'[c].client \in caller[c].open
                         => client'[caller'[c].client].settings = caller[c].read
    OBVIOUS
  <2> USE <1>1
  <2>1. \A d \in Caller : caller[d] \in Call
    BY DEF Typed, TypeOK
  <2>2. CASE \E d \in Caller : Reuse(d)
    <3>1. PICK d \in Caller : Reuse(d)
      BY <2>2
    <3>2. d = c /\ caller'[c].client = pool[caller[c].server]
      <4>1. caller' = [caller EXCEPT ![d] = [caller[d] EXCEPT !.pc = "given",
                                                              !.client = pool[caller[d].server]]]
        BY <3>1 DEF Reuse
      <4>2. d = c
        BY <2>1, <4>1
      <4>3. QED BY <2>1, <4>1, <4>2 DEF Call
    <3>3. /\ pool[caller[c].server] # None
          /\ caller[c].server \in Server
          /\ client[pool[caller[c].server]].settings = caller[c].read
      BY <3>1, <3>2 DEF Reuse, SameSignature, Typed, CallsPlaced
    <3>4. pool[caller[c].server] \in Client
      BY <3>3, Referred
    <3> DEFINE p == pool[caller[c].server]
    <3>5. client' = [client EXCEPT ![p].timer = TRUE]
      BY <3>1, <3>2 DEF Reuse
    <3>6. /\ client'[p].phase = client[p].phase
          /\ client'[p].server = client[p].server
          /\ client'[p].settings = client[p].settings
      <4>1. client \in [Client -> ClientEntry]
        BY DEF Typed, TypeOK
      <4>2. QED BY <3>4, <3>5, <4>1, TouchedClients
    <3>7. QED BY <3>2, <3>3, <3>6 DEF Inv, PooledIsUsable
  <2>3. CASE \E k \in Client : Connected(k)
    <3>1. PICK k \in Client : Connected(k)
      BY <2>3
    <3>2. caller' = Answered(k, TRUE)
      BY <3>1 DEF Connected
    <3>3. caller[c].pc = "joined" /\ caller[c].client = k /\ caller'[c].client = k
      BY <3>2, AnsweredCalls
    <3>4. client[k].phase = "connecting" /\ client[k].server = caller[c].server /\ k \notin caller[c].open
      BY <3>3 DEF Inv, CallsAwait
    <3>5. client[k] \in ClientEntry
      BY DEF Typed, TypeOK
    <3>6. client' = [client EXCEPT ![k] = [client[k] EXCEPT !.phase = "open", !.timer = TRUE]]
      BY <3>1 DEF Connected
    <3>7. client \in [Client -> ClientEntry]
      BY DEF Typed, TypeOK
    <3>8. client'[k].phase = "open" /\ client'[k].server = client[k].server
      BY <3>5, <3>6, <3>7 DEF ClientEntry
    <3>9. QED BY <3>3, <3>4, <3>8
  <2>4. CASE ~(\E d \in Caller : Reuse(d)) /\ ~(\E k \in Client : Connected(k))
    <3>1. ASSUME NEW d \in Caller, NEW s \in Server, NEW allowDisabled \in BOOLEAN,
                 Find(d, s, allowDisabled)
          PROVE  FALSE
      BY <3>1, <2>1 DEF Find, Call, Typed, TypeOK
    <3>2. ASSUME NEW d \in Caller, EvictStale(d) \/ Join(d) \/ Finish(d)
          PROVE  FALSE
      BY <3>2, <2>1 DEF EvictStale, Join, Finish, Idle, Call, Typed, TypeOK
    <3>3. ASSUME NEW d \in Caller, NEW k \in Client, Connect(d, k)
          PROVE  FALSE
      BY <3>3, <2>1 DEF Connect, Call, Typed, TypeOK
    <3>4. ASSUME NEW k \in Client, ConnectFails(k)
          PROVE  FALSE
      <4>1. caller' = Answered(k, FALSE)
        BY <3>4 DEF ConnectFails
      <4>2. caller'[c] \in {Idle, caller[c]}
        BY <4>1, FailedCalls
      <4>3. Idle.pc = "idle"
        BY DEF Idle
      <4>4. QED BY <4>2, <4>3
    <3>5. ASSUME UNCHANGED caller
          PROVE  FALSE
      BY <3>5
    <3>6. QED
      BY <2>4, <3>1, <3>2, <3>3, <3>4, <3>5 DEF Next, IdleTimeout, OnModuleDestroy, EditServer, vars
  <2>5. QED BY <2>2, <2>3, <2>4
<1>2. QED BY <1>1, Invariant, PTL DEF Spec, GivenFits
=============================================================================
