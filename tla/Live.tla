---------------------------------- MODULE Live ----------------------------------
(***************************************************************************)
(* The live connection of one app: the reconnecting WebSocket client (the  *)
(* web apps' live.js, the mobile apps' live.ts), the two goroutines of     *)
(* serveWS in cmd/gateway, and the Redis channel notify:<user> they bridge.*)
(*                                                                         *)
(* An app is one user at a time and may change who it is: it then closes   *)
(* its handle and connects a new one. A gateway that dies is the cut of    *)
(* its sockets followed by the end of their sessions.                      *)
(***************************************************************************)
EXTENDS Sequences, FiniteSets, Naturals

CONSTANTS
  Users,      \* identities the app may take
  Handles,    \* calls of connectLive (effects of useLive) alive at a time
  Sessions,   \* calls of serveWS alive at a time
  None,
  ClearsTimer,\* TRUE: the mobile client, FALSE: the web client
  MaxNotes,   \* bound on the notifications published
  FaultKinds, \* a subset of {"cut", "refuse", "slow", "redis"}
  MaxFaults

ASSUME LiveAssumption ==
  /\ None \notin Users \cup Handles \cup Sessions
  /\ ClearsTimer \in BOOLEAN
  /\ MaxNotes \in Nat
  /\ MaxFaults \in Nat

VARIABLES
  handle,   \* handle[h]: the closure of a connectLive call
  current,  \* the handle the app holds
  pill,     \* the status the app displays
  session,  \* session[s]: a socket the gateway serves
  sent,     \* how many notifications were published
  shown,    \* shown[u]: the notifications of u the app was given, in order
  faults

app  == <<handle, current, pill>>
vars == <<app, session, sent, shown, faults>>

\* live: close() was not called. ws: the WebSocket of the handle. timer: a
\* reconnect is scheduled. via: the session at the other end.
Handle == [user : Users \cup {None}, live : BOOLEAN, timer : BOOLEAN,
           ws : {"none", "opening", "open", "closing"}, via : Sessions \cup {None}]

\* loop, pump: the goroutines of serveWS run. up: both ends hold the socket
\* open. quiet: it was cut and no FIN or RST will tell the client. subscribed:
\* Redis knows the subscription. ch: messages on their way to the loop. wire:
\* frames on their way to the client.
Session == [user : Users \cup {None}, loop : BOOLEAN, pump : BOOLEAN, up : BOOLEAN,
            quiet : BOOLEAN, subscribed : BOOLEAN, ch : Seq(1 .. MaxNotes), wire : Seq(1 .. MaxNotes)]

NoHandle  == [user |-> None, live |-> FALSE, timer |-> FALSE, ws |-> "none", via |-> None]
NoSession == [user |-> None, loop |-> FALSE, pump |-> FALSE, up |-> FALSE,
              quiet |-> FALSE, subscribed |-> FALSE, ch |-> <<>>, wire |-> <<>>]

TypeOK ==
  /\ handle \in [Handles -> Handle]
  /\ current \in Handles
  /\ pill \in {"connected", "disconnected"}
  /\ session \in [Sessions -> Session]
  /\ \A s \in Sessions : session[s].loop => session[s].user \in Users
  /\ sent \in 0 .. MaxNotes
  /\ shown \in [Users -> Seq(1 .. MaxNotes)]
  /\ faults \in 0 .. MaxFaults

Unnamed(u) == [NoHandle EXCEPT !.live = TRUE, !.ws = "opening"]  \* mutant of Connected

\* connectLive, useLive: a new closure that opens its socket at once.
Connected(u) == [NoHandle EXCEPT !.user = u, !.live = TRUE, !.ws = "opening"]

Init ==
  /\ current \in Handles
  /\ \E u \in Users :
       handle = [h \in Handles |-> IF h = current THEN Connected(u) ELSE NoHandle]
  /\ pill = "disconnected"
  /\ session = [s \in Sessions |-> NoSession]
  /\ sent = 0
  /\ shown = [u \in Users |-> <<>>]
  /\ faults = 0

Fault(kind) == kind \in FaultKinds /\ faults < MaxFaults /\ faults' = faults + 1

\* The socket between a client and session s is no longer held by both.
Parted(s) == IF s = None THEN session ELSE [session EXCEPT ![s].up = FALSE]
--------------------------------------------------------------------------------
(* The client: live.js, live.ts. *)
KeepTimer(c) == c.timer                                     \* mutant of TimerLeft

\* The mobile client clears the reconnect timer on close, the web one does not.
TimerLeft(c) == c.timer /\ ~ClearsTimer

Closed(c) ==
  LET left == [c EXCEPT !.live = FALSE, !.timer = TimerLeft(c)] IN
  IF c.ws # "none" THEN [left EXCEPT !.ws = "closing"]
  ELSE IF left.timer THEN left ELSE NoHandle

\* connect(), when the id field changed or the component is mounted again:
\* close the handle held, then open a new one, possibly for the same user.
Change(h, u) ==
  /\ handle[h] = NoHandle
  /\ handle' = [handle EXCEPT ![current] = Closed(@), ![h] = Connected(u)]
  /\ current' = h
  /\ session' = Parted(handle[current].via)
  /\ UNCHANGED <<pill, sent, shown, faults>>

\* The reconnect timer fires: open() does not look at closed.
Reopen(h) ==
  /\ handle[h].timer
  /\ handle' = [handle EXCEPT ![h] = [@ EXCEPT !.timer = FALSE, !.ws = "opening"]]
  /\ UNCHANGED <<current, pill, session, sent, shown, faults>>

OnOpen(h) ==
  /\ handle[h].ws = "opening" /\ handle[h].via # None
  /\ handle' = [handle EXCEPT ![h].ws = "open"]
  /\ pill' = "connected"
  /\ UNCHANGED <<current, session, sent, shown, faults>>

\* ws.onmessage: a socket that is closing no longer delivers.
OnMessage(h) ==
  LET s == handle[h].via
      u == handle[h].user IN
  /\ handle[h].ws = "open"
  /\ session[s].wire # <<>>
  /\ shown' = [shown EXCEPT ![u] = Append(@, Head(session[s].wire))]
  /\ session' = [session EXCEPT ![s].wire = Tail(@)]
  /\ UNCHANGED <<app, sent, faults>>

Quietly(h) == IF handle[h].live THEN "disconnected" ELSE pill   \* mutant of PillOnClose

\* Any socket of the app that closes says so, the one replaced included.
PillOnClose(h) == "disconnected"

\* ws.onclose: after close(), after the other end went, or a failed connect.
OnClose(h) ==
  LET s == handle[h].via IN
  /\ \/ /\ \/ handle[h].ws = "closing"
           \/ handle[h].ws \in {"opening", "open"} /\ s # None /\ ~session[s].up
        /\ UNCHANGED faults
     \/ handle[h].ws = "opening" /\ s = None /\ Fault("refuse")
  /\ pill' = PillOnClose(h)
  /\ handle' = [handle EXCEPT ![h] =
       IF @.live THEN [@ EXCEPT !.ws = "none", !.via = None, !.timer = TRUE] ELSE NoHandle]
  /\ session' = IF s = None THEN session
                 ELSE [session EXCEPT ![s] = [@ EXCEPT !.up = FALSE, !.wire = <<>>]]
  /\ UNCHANGED <<current, sent, shown>>
--------------------------------------------------------------------------------
(* The gateway and Redis pub/sub. *)
Free(s) == /\ ~session[s].loop /\ ~session[s].pump
           /\ \A h \in Handles : handle[h].via # s

\* serveWS up to its loop: the SUBSCRIBE command is sent, not yet answered.
Accept(h, s) ==
  /\ handle[h].ws = "opening" /\ handle[h].via = None
  /\ Free(s)
  /\ handle' = [handle EXCEPT ![h].via = s]
  /\ session' = [session EXCEPT ![s] = [NoSession EXCEPT
                   !.user = handle[h].user, !.loop = TRUE, !.pump = TRUE, !.up = TRUE]]
  /\ UNCHANGED <<current, pill, sent, shown, faults>>

\* Redis has the subscription, the first time or after go-redis reconnected.
Subscribed(s) ==
  /\ session[s].loop /\ ~session[s].subscribed
  /\ session' = [session EXCEPT ![s].subscribed = TRUE]
  /\ UNCHANGED <<app, sent, shown, faults>>

\* Publisher.Publish: the message goes to the subscriptions there are.
Publish(u) ==
  /\ sent < MaxNotes
  /\ sent' = sent + 1
  /\ session' = [s \in Sessions |->
       IF session[s].subscribed /\ session[s].user = u
       THEN [session[s] EXCEPT !.ch = Append(@, sent')] ELSE session[s]]
  /\ UNCHANGED <<app, shown, faults>>

KeepsConn(s) == session[s].up                                 \* mutant of UpAfter

\* The deferred calls of serveWS close the socket, whoever returns first.
UpAfter(s) == FALSE

\* serveWS returns: conn.Close, cancel, sub.Close.
Returned(s) ==
  [session EXCEPT ![s] = [@ EXCEPT !.user = None, !.loop = FALSE, !.up = UpAfter(s),
                                   !.subscribed = FALSE, !.ch = <<>>]]

\* A message from the subscription is written to the socket; the write may
\* succeed into the void, fail, or miss its deadline with a slow client.
Forward(s) ==
  /\ session[s].loop /\ session[s].ch # <<>>
  /\ LET rest == [session[s] EXCEPT !.ch = Tail(@)]
         put  == [rest EXCEPT !.wire = Append(@, Head(session[s].ch))] IN
     \/ /\ session' = [session EXCEPT ![s] = IF session[s].up THEN put ELSE rest]
        /\ UNCHANGED faults
     \/ /\ \/ ~session[s].up /\ UNCHANGED faults
           \/ Fault("slow")
        /\ session' = Returned(s)
  /\ UNCHANGED <<app, sent, shown>>

\* ctx.Done, or a ping that cannot be written.
Quit(s) ==
  /\ session[s].loop
  /\ ~session[s].pump \/ ~session[s].up
  /\ session' = Returned(s)
  /\ UNCHANGED <<app, sent, shown, faults>>

\* The reader pump: ReadMessage fails once the socket is closed or lost.
PumpEnds(s) ==
  /\ session[s].pump /\ ~session[s].up
  /\ session' = [session EXCEPT ![s].pump = FALSE]
  /\ UNCHANGED <<app, sent, shown, faults>>

\* The network parts client and gateway, or the gateway's Redis connection drops.
Disturb(s) ==
  /\ \/ /\ session[s].up /\ Fault("cut")
        /\ \E quiet \in BOOLEAN :
             session' = [session EXCEPT ![s] = [@ EXCEPT !.up = FALSE, !.quiet = quiet]]
     \/ /\ session[s].subscribed /\ Fault("redis")
        /\ session' = [session EXCEPT ![s].subscribed = FALSE]
  /\ UNCHANGED <<app, sent, shown>>

Client(h)  == Reopen(h) \/ OnOpen(h) \/ OnMessage(h) \/ OnClose(h)
Gateway(s) == Subscribed(s) \/ Forward(s) \/ Quit(s) \/ PumpEnds(s) \/ Disturb(s)

Next ==
  \/ \E h \in Handles, u \in Users : Change(h, u)
  \/ \E h \in Handles : Client(h)
  \/ \E h \in Handles, s \in Sessions : Accept(h, s)
  \/ \E s \in Sessions : Gateway(s)
  \/ \E u \in Users : Publish(u)

\* A socket in use that was cut and nobody told the client: no frame is ever sent
\* by live.js or live.ts, and no heartbeat awaited, so it may never find out.
Deaf(h) ==
  LET s == handle[h].via IN
  handle[h].ws \in {"opening", "open"} /\ s # None /\ ~session[s].up /\ session[s].quiet

\* Timers fire, events of the socket are dispatched, the gateway runs: its ping
\* finds out that a client is gone (main.go:81-83), nothing in the client does.
Fairness ==
  /\ \A h \in Handles : /\ WF_vars(Reopen(h)) /\ WF_vars(OnOpen(h))
                        /\ WF_vars(OnMessage(h)) /\ WF_vars(~Deaf(h) /\ OnClose(h))
                        /\ WF_vars(\E s \in Sessions : Accept(h, s))
  /\ \A s \in Sessions : /\ WF_vars(Subscribed(s)) /\ WF_vars(Forward(s))
                         /\ WF_vars(Quit(s)) /\ WF_vars(PumpEnds(s))

Spec == Init /\ [][Next]_vars
FairSpec == Spec /\ Fairness
--------------------------------------------------------------------------------
\* However often the app reconnects and changes identity, it is given the
\* notifications of a user at most once and in order, across sockets and
\* sessions that outlive them (live.ts:38-55, main.go:84-95).
InOrderOnce ==
  \A u \in Users : \A i, j \in DOMAIN shown[u] : i < j => shown[u][i] < shown[u][j]

\* A closed handle never listens again (live.ts:52-56): the reconnect it had
\* scheduled dies with it. True of the mobile client (ClearsTimer).
OnlyCurrentListens ==
  \A h \in Handles : handle[h].ws \in {"opening", "open"} => h = current

\* When the sockets the app gave up have closed, an app that says "connected"
\* is: the close of an old socket never leaves the old status (live.ts:44-45).
LiveMeansLive ==
  (\A h \in Handles \ {current} : handle[h].ws = "none") =>
    (pill = "connected" => handle[current].ws = "open")

\* Whichever goroutine of serveWS notices first that the client is gone, both
\* end and the subscription goes (main.go:58-64, 69-76).
SessionEnds ==
  \A s \in Sessions :
    ~(session[s].loop /\ session[s].pump /\ session[s].up)
      ~> (~session[s].loop /\ ~session[s].pump /\ ~session[s].subscribed)

\* An app that stays who it is ends up listening, whatever it went through
\* (live.js:1-3, "auto-reconnects"), or with a socket that died without a word.
Reconnects ==
  \A h \in Handles :
    <>[](current = h) =>
      \/ <>[](handle[h].ws = "open" /\ session[handle[h].via].subscribed)
      \/ <>[]Deaf(h)
================================================================================
