------------------------------- MODULE LiveProofs -------------------------------
(***************************************************************************)
(* Theorems about Live, for every set of users, connections and sessions,  *)
(* every bound on the notifications, and every number and kind of faults.  *)
(***************************************************************************)
EXTENDS Live, TLAPS

\* What is known of one closure of the app: a reconnect is scheduled only
\* while there is no socket, and a socket that is open has another end.
HandleOK(c) ==
  /\ c \in Handle
  /\ c.timer => c.ws = "none"
  /\ c.ws = "none" => c.via = None
  /\ c.ws = "open" => c.via # None
  /\ c = NoHandle \/ c.user \in Users

\* What is known of one session.
SessionOK(x) ==
  /\ x \in Session
  /\ x.loop => x.user \in Users

\* The inductive type invariant, in parts. The handle the app holds is the one
\* that was not closed.
HandlesOK  == handle \in [Handles -> Handle] /\ \A h \in Handles : HandleOK(handle[h])
SessionsOK == session \in [Sessions -> Session] /\ \A s \in Sessions : SessionOK(session[s])
RestOK ==
  /\ current \in Handles
  /\ pill \in {"connected", "disconnected"}
  /\ sent \in 0 .. MaxNotes
  /\ shown \in [Users -> Seq(1 .. MaxNotes)]
  /\ faults \in 0 .. MaxFaults
OneLive == \A h \in Handles : handle[h].live <=> h = current
Typed == HandlesOK /\ SessionsOK /\ RestOK /\ OneLive

(***************************************************************************)
(* What the operators on one closure and one session return.               *)
(***************************************************************************)
LEMMA NoHandleOK == HandleOK(NoHandle)
BY LiveAssumption DEF HandleOK, NoHandle, Handle

LEMMA ConnectedOK ==
  ASSUME NEW u \in Users
  PROVE  /\ HandleOK(Connected(u))
         /\ Connected(u).live
         /\ Connected(u).ws = "opening"
         /\ Connected(u).via = None
         /\ ~Connected(u).timer
BY LiveAssumption DEF HandleOK, Connected, NoHandle, Handle

\* close(): the socket is told to close, and the handle is gone once nothing of
\* it is left; the mobile client leaves no timer.
LEMMA ClosedOK ==
  ASSUME NEW c, HandleOK(c)
  PROVE  /\ HandleOK(Closed(c))
         /\ ~Closed(c).live
         /\ Closed(c).ws = IF c.ws = "none" THEN "none" ELSE "closing"
         /\ Closed(c).via = c.via
         /\ ClearsTimer => ~Closed(c).timer
<1> DEFINE left == [c EXCEPT !.live = FALSE, !.timer = TimerLeft(c)]
           shut == [left EXCEPT !.ws = "closing"]
<1>1. /\ c \in Handle
      /\ c.user \in Users \cup {None}
      /\ c.timer => c.ws = "none"
      /\ c.ws = "none" => c.via = None
      /\ c.ws = "open" => c.via # None
      /\ c.live \in BOOLEAN /\ c.timer \in BOOLEAN
      /\ c.ws \in {"none", "opening", "open", "closing"}
      /\ c.via \in Sessions \cup {None}
  BY DEF HandleOK, Handle
<1>2. /\ left.user = c.user /\ left.via = c.via /\ left.ws = c.ws
      /\ left.live = FALSE /\ left.timer = TimerLeft(c)
      /\ TimerLeft(c) \in BOOLEAN
      /\ left \in Handle
  BY <1>1, LiveAssumption DEF Handle, TimerLeft
<1>3. TimerLeft(c) => c.timer /\ ~ClearsTimer
  BY DEF TimerLeft
<1>4. /\ shut.user = c.user /\ shut.via = c.via /\ shut.ws = "closing"
      /\ shut.live = FALSE /\ shut.timer = TimerLeft(c)
      /\ shut \in Handle
  <2> HIDE DEF left
  <2> QED  BY <1>2 DEF Handle
<1>5. Closed(c) = IF c.ws # "none" THEN shut ELSE IF left.timer THEN left ELSE NoHandle
  BY DEF Closed
<1> HIDE DEF left, shut
<1>6. CASE c.ws # "none"
  <2>1. Closed(c) = shut
    BY <1>5, <1>6
  <2>2. ~c.timer /\ c.user \in Users
    BY <1>1, <1>6 DEF HandleOK, NoHandle
  <2> QED  BY <1>3, <1>4, <1>6, <2>1, <2>2 DEF HandleOK
<1>7. CASE c.ws = "none" /\ left.timer
  <2>1. Closed(c) = left
    BY <1>5, <1>7
  <2>2. c.user \in Users
    BY <1>1, <1>2, <1>3, <1>7 DEF HandleOK, NoHandle
  <2> QED  BY <1>1, <1>2, <1>3, <1>7, <2>1, <2>2 DEF HandleOK
<1>8. CASE c.ws = "none" /\ ~left.timer
  <2>1. Closed(c) = NoHandle
    BY <1>5, <1>8
  <2> QED  BY <1>1, <1>8, <2>1, NoHandleOK DEF NoHandle
<1> QED  BY <1>2, <1>6, <1>7, <1>8

LEMMA NoSessionOK ==
  /\ SessionOK(NoSession)
  /\ NoSession.ch = <<>> /\ NoSession.wire = <<>>
BY LiveAssumption DEF SessionOK, NoSession, Session

(***************************************************************************)
(* What each action does to the closures and the sessions, and that it     *)
(* keeps the types.                                                        *)
(***************************************************************************)
LEMMA HandleStep ==
  ASSUME HandlesOK, NEW h \in Handles, NEW c, HandleOK(c), handle' = [handle EXCEPT ![h] = c]
  PROVE  /\ HandlesOK'
         /\ handle'[h] = c
         /\ \A q \in Handles \ {h} : handle'[q] = handle[q]
BY DEF HandlesOK, HandleOK

LEMMA SessionStep ==
  ASSUME SessionsOK, NEW s \in Sessions, NEW x, SessionOK(x),
         session' = [session EXCEPT ![s] = x]
  PROVE  /\ SessionsOK'
         /\ session'[s] = x
         /\ \A q \in Sessions \ {s} : session'[q] = session[q]
BY DEF SessionsOK, SessionOK

LEMMA FaultStep ==
  ASSUME RestOK, NEW kind, Fault(kind)
  PROVE  faults' \in 0 .. MaxFaults
BY LiveAssumption DEF RestOK, Fault

LEMMA HeadAndTail ==
  ASSUME NEW S, NEW q \in Seq(S), q # <<>>
  PROVE  Head(q) \in S /\ Tail(q) \in Seq(S)
OBVIOUS

LEMMA EmptySeq == \A S : <<>> \in Seq(S)
OBVIOUS

\* No message moves.
KeepsMail ==
  \A s \in Sessions : session'[s].ch = session[s].ch /\ session'[s].wire = session[s].wire

LEMMA PartedStep ==
  ASSUME SessionsOK, NEW s \in Sessions \cup {None}, session' = Parted(s)
  PROVE  SessionsOK' /\ KeepsMail
<1>1. CASE s = None
  BY <1>1 DEF Parted, KeepsMail, SessionsOK, SessionOK
<1>2. CASE s \in Sessions
  <2> DEFINE x == [session[s] EXCEPT !.up = FALSE]
  <2>1. SessionOK(x) /\ x.ch = session[s].ch /\ x.wire = session[s].wire
    BY <1>2 DEF SessionsOK, SessionOK, Session
  <2>2. session' = [session EXCEPT ![s] = x]
    BY <1>2, LiveAssumption DEF Parted, SessionsOK
  <2> HIDE DEF x
  <2>3. /\ SessionsOK'
        /\ session'[s] = x
        /\ \A q \in Sessions \ {s} : session'[q] = session[q]
    BY <1>2, <2>1, <2>2, SessionStep
  <2> QED  BY <2>1, <2>3 DEF KeepsMail
<1> QED  BY <1>1, <1>2

LEMMA ChangeStep ==
  ASSUME Typed, NEW h \in Handles, NEW u \in Users, Change(h, u)
  PROVE  /\ Typed'
         /\ h # current /\ current' = h
         /\ handle[h] = NoHandle
         /\ handle'[h] = Connected(u)
         /\ handle'[current] = Closed(handle[current])
         /\ \A q \in Handles \ {h, current} : handle'[q] = handle[q]
         /\ KeepsMail
         /\ UNCHANGED <<pill, sent, shown>>
<1> DEFINE c == handle[current]
<1>1. /\ current \in Handles /\ HandleOK(c) /\ c.live
      /\ handle \in [Handles -> Handle]
      /\ handle[h] = NoHandle
      /\ ~NoHandle.live
  BY DEF Typed, RestOK, OneLive, HandlesOK, Change, NoHandle
<1>2. h # current
  BY <1>1
<1>3. handle' = [handle EXCEPT ![current] = Closed(c), ![h] = Connected(u)]
  BY <1>1, <1>2 DEF Change
<1>4. /\ handle'[h] = Connected(u)
      /\ handle'[current] = Closed(c)
      /\ \A q \in Handles \ {h, current} : handle'[q] = handle[q]
      /\ handle' \in [Handles -> {handle'[q] : q \in Handles}]
  BY <1>1, <1>2, <1>3
<1>5. /\ HandleOK(Closed(c)) /\ ~Closed(c).live
      /\ HandleOK(Connected(u)) /\ Connected(u).live
  BY <1>1, ClosedOK, ConnectedOK
<1>6. HandlesOK'
  BY <1>4, <1>5 DEF Typed, HandlesOK, HandleOK
<1>7. current' = h /\ UNCHANGED <<pill, sent, shown, faults>>
  BY DEF Change
<1>8. OneLive'
  BY <1>1, <1>2, <1>4, <1>5, <1>7 DEF Typed, OneLive
<1>9. c.via \in Sessions \cup {None}
  BY <1>1 DEF HandleOK, Handle
<1>10. session' = Parted(c.via)
  BY DEF Change
<1>11. SessionsOK' /\ KeepsMail
  BY <1>9, <1>10, PartedStep DEF Typed
<1> QED  BY <1>1, <1>2, <1>4, <1>6, <1>7, <1>8, <1>11 DEF Typed, RestOK

LEMMA ReopenStep ==
  ASSUME Typed, NEW h \in Handles, Reopen(h)
  PROVE  /\ Typed'
         /\ handle[h].timer /\ handle[h].ws = "none"
         /\ ~handle'[h].timer /\ handle'[h].ws = "opening" /\ handle'[h].via = None
         /\ handle'[h].live = handle[h].live
         /\ \A q \in Handles \ {h} : handle'[q] = handle[q]
         /\ UNCHANGED <<current, pill, session, sent, shown>>
<1> DEFINE c == [handle[h] EXCEPT !.timer = FALSE, !.ws = "opening"]
<1>1. HandleOK(handle[h]) /\ handle[h].timer /\ handle \in [Handles -> Handle]
  BY DEF Typed, HandlesOK, Reopen
<1>2. HandleOK(c) /\ ~c.timer /\ c.ws = "opening" /\ c.via = None /\ c.live = handle[h].live
  <2>1. /\ handle[h] \in Handle /\ handle[h].via = None /\ handle[h].user \in Users
        /\ handle[h].ws = "none"
    BY <1>1 DEF HandleOK, NoHandle
  <2>2. /\ c \in Handle /\ c.user = handle[h].user /\ c.via = handle[h].via
        /\ c.timer = FALSE /\ c.ws = "opening" /\ c.live = handle[h].live
    BY <2>1 DEF Handle
  <2> HIDE DEF c
  <2> QED  BY <2>1, <2>2 DEF HandleOK
<1>3. handle' = [handle EXCEPT ![h] = c]
  BY <1>1 DEF Reopen
<1> HIDE DEF c
<1>4. HandlesOK' /\ handle'[h] = c /\ \A q \in Handles \ {h} : handle'[q] = handle[q]
  BY <1>2, <1>3, HandleStep DEF Typed
<1>5. UNCHANGED <<current, pill, session, sent, shown, faults>>
  BY DEF Reopen
<1>h. handle[h].ws = "none"
  BY <1>1 DEF HandleOK
<1>6. OneLive'
  BY <1>2, <1>4, <1>5 DEF Typed, OneLive
<1> QED  BY <1>1, <1>2, <1>4, <1>5, <1>6, <1>h DEF Typed, RestOK, SessionsOK, SessionOK

LEMMA OnOpenStep ==
  ASSUME Typed, NEW h \in Handles, OnOpen(h)
  PROVE  /\ Typed'
         /\ handle[h].ws = "opening" /\ handle'[h].ws = "open"
         /\ handle'[h].via = handle[h].via /\ handle'[h].user = handle[h].user
         /\ handle'[h].live = handle[h].live /\ handle'[h].timer = handle[h].timer
         /\ \A q \in Handles \ {h} : handle'[q] = handle[q]
         /\ UNCHANGED <<current, session, sent, shown>>
<1> DEFINE c == [handle[h] EXCEPT !.ws = "open"]
<1>1. /\ HandleOK(handle[h]) /\ handle \in [Handles -> Handle]
      /\ handle[h].ws = "opening" /\ handle[h].via # None
  BY DEF Typed, HandlesOK, OnOpen
<1>2. /\ HandleOK(c) /\ c.ws = "open" /\ c.via = handle[h].via /\ c.user = handle[h].user
      /\ c.live = handle[h].live /\ c.timer = handle[h].timer
  BY <1>1, LiveAssumption DEF HandleOK, Handle, NoHandle
<1>3. handle' = [handle EXCEPT ![h] = c]
  BY <1>1 DEF OnOpen
<1> HIDE DEF c
<1>4. HandlesOK' /\ handle'[h] = c /\ \A q \in Handles \ {h} : handle'[q] = handle[q]
  BY <1>2, <1>3, HandleStep DEF Typed
<1>5. pill' = "connected" /\ UNCHANGED <<current, session, sent, shown, faults>>
  BY DEF OnOpen
<1>6. OneLive'
  BY <1>2, <1>4, <1>5 DEF Typed, OneLive
<1> QED  BY <1>1, <1>2, <1>4, <1>5, <1>6 DEF Typed, RestOK, SessionsOK, SessionOK

\* A frame the client reads is shown, in the order of the wire.
LEMMA OnMessageStep ==
  ASSUME Typed, NEW h \in Handles, OnMessage(h)
  PROVE  LET s == handle[h].via
             u == handle[h].user
         IN /\ Typed'
            /\ handle[h].ws = "open"
            /\ s \in Sessions /\ u \in Users
            /\ session[s].wire # <<>>
            /\ shown'[u] = Append(shown[u], Head(session[s].wire))
            /\ \A v \in Users \ {u} : shown'[v] = shown[v]
            /\ session'[s].wire = Tail(session[s].wire)
            /\ session'[s].ch = session[s].ch
            /\ \A q \in Sessions \ {s} : session'[q] = session[q]
            /\ UNCHANGED <<handle, current, pill, sent>>
<1> DEFINE s == handle[h].via
           u == handle[h].user
           x == [session[s] EXCEPT !.wire = Tail(@)]
<1>1. /\ handle[h].ws = "open"
      /\ session[s].wire # <<>>
      /\ shown' = [shown EXCEPT ![u] = Append(@, Head(session[s].wire))]
      /\ session' = [session EXCEPT ![s] = x]
      /\ UNCHANGED <<handle, current, pill, sent, faults>>
  BY DEF OnMessage, app
<1>2. s \in Sessions /\ u \in Users
  BY <1>1 DEF Typed, HandlesOK, HandleOK, Handle, NoHandle
<1> HIDE DEF s, u
<1>3. /\ SessionOK(session[s])
      /\ session[s].wire \in Seq(1 .. MaxNotes)
      /\ Head(session[s].wire) \in 1 .. MaxNotes
      /\ Tail(session[s].wire) \in Seq(1 .. MaxNotes)
  <2>1. SessionOK(session[s])
    BY <1>2 DEF Typed, SessionsOK
  <2>2. session[s].wire \in Seq(1 .. MaxNotes)
    BY <2>1 DEF SessionOK, Session
  <2> QED  BY <1>1, <2>1, <2>2, HeadAndTail
<1>4. SessionOK(x) /\ x.wire = Tail(session[s].wire) /\ x.ch = session[s].ch
  BY <1>3 DEF SessionOK, Session
<1> HIDE DEF x
<1>5. /\ SessionsOK'
      /\ session'[s] = x
      /\ \A q \in Sessions \ {s} : session'[q] = session[q]
  BY <1>1, <1>2, <1>4, SessionStep DEF Typed
<1>6. /\ shown'[u] = Append(shown[u], Head(session[s].wire))
      /\ \A v \in Users \ {u} : shown'[v] = shown[v]
      /\ shown' \in [Users -> Seq(1 .. MaxNotes)]
  <2>1. shown \in [Users -> Seq(1 .. MaxNotes)]
    BY DEF Typed, RestOK
  <2>2. shown' = [shown EXCEPT ![u] = Append(shown[u], Head(session[s].wire))]
    BY <1>1, <1>2, <2>1
  <2>3. Append(shown[u], Head(session[s].wire)) \in Seq(1 .. MaxNotes)
    BY <1>2, <1>3, <2>1
  <2> QED  BY <1>2, <2>1, <2>2, <2>3
<1>7. Typed'
  BY <1>1, <1>5, <1>6 DEF Typed, HandlesOK, HandleOK, RestOK, OneLive
<1> QED  BY <1>1, <1>2, <1>4, <1>5, <1>6, <1>7 DEF s, u

\* A socket that closes takes its frames along; a handle that was not closed
\* schedules the next one.
LEMMA OnCloseStep ==
  ASSUME Typed, NEW h \in Handles, OnClose(h)
  PROVE  /\ Typed'
         /\ pill' = "disconnected"
         /\ handle'[h].ws = "none" /\ handle'[h].via = None
         /\ h # current => handle'[h] = NoHandle
         /\ \A q \in Handles \ {h} : handle'[q] = handle[q]
         /\ \A q \in Sessions : session'[q].ch = session[q].ch
         /\ \A q \in Sessions : session'[q].wire = session[q].wire \/ session'[q].wire = <<>>
         /\ \A q \in Sessions \ {handle[h].via} : session'[q] = session[q]
         /\ UNCHANGED <<current, sent, shown>>
<1> DEFINE s == handle[h].via
           again == [handle[h] EXCEPT !.ws = "none", !.via = None, !.timer = TRUE]
           c == IF handle[h].live THEN again ELSE NoHandle
           x == [session[s] EXCEPT !.up = FALSE, !.wire = <<>>]
<1>1. /\ pill' = "disconnected"
      /\ handle' = [handle EXCEPT ![h] = c]
      /\ session' = IF s = None THEN session ELSE [session EXCEPT ![s] = x]
      /\ UNCHANGED <<current, sent, shown>>
  BY DEF OnClose, PillOnClose, Typed, HandlesOK
<1>2. /\ handle[h].ws # "none"
      /\ faults' \in 0 .. MaxFaults
  <2>1. CASE Fault("refuse") /\ handle[h].ws = "opening"
    BY <2>1, FaultStep DEF Typed
  <2>2. CASE handle[h].ws \in {"closing", "opening", "open"} /\ UNCHANGED faults
    BY <2>2 DEF Typed, RestOK
  <2> QED  BY <2>1, <2>2 DEF OnClose
<1>3. /\ HandleOK(handle[h]) /\ handle[h].user \in Users
      /\ s \in Sessions \cup {None}
      /\ handle[h] \in Handle
      /\ handle[h].live <=> h = current
  BY <1>2 DEF Typed, HandlesOK, HandleOK, Handle, NoHandle, OneLive
<1>4. /\ again \in Handle /\ again.user = handle[h].user /\ again.ws = "none"
      /\ again.via = None /\ again.live = handle[h].live
  BY <1>3 DEF Handle
<1>5. /\ HandleOK(c) /\ c.ws = "none" /\ c.via = None
      /\ h # current => c = NoHandle
      /\ c.live <=> h = current
  <2> HIDE DEF again
  <2>1. HandleOK(again)
    BY <1>3, <1>4 DEF HandleOK
  <2>2. NoHandle.ws = "none" /\ NoHandle.via = None /\ ~NoHandle.live
    BY DEF NoHandle
  <2>3. CASE handle[h].live
    BY <1>3, <1>4, <2>1, <2>3
  <2>4. CASE ~handle[h].live
    BY <1>3, <2>2, <2>4, NoHandleOK
  <2> QED  BY <2>3, <2>4
<1> HIDE DEF c
<1>6. HandlesOK' /\ handle'[h] = c /\ \A q \in Handles \ {h} : handle'[q] = handle[q]
  BY <1>1, <1>5, HandleStep DEF Typed
<1>7. /\ SessionsOK'
      /\ \A q \in Sessions : session'[q].ch = session[q].ch
      /\ \A q \in Sessions : session'[q].wire = session[q].wire \/ session'[q].wire = <<>>
      /\ \A q \in Sessions \ {s} : session'[q] = session[q]
  <2> HIDE DEF s
  <2>1. CASE s = None
    BY <1>1, <2>1 DEF Typed, SessionsOK, SessionOK
  <2>2. CASE s \in Sessions
    <3>1. SessionOK(x) /\ x.wire = <<>> /\ x.ch = session[s].ch
      <4>1. SessionOK(session[s]) /\ <<>> \in Seq(1 .. MaxNotes)
        BY <2>2, EmptySeq DEF Typed, SessionsOK
      <4> QED  BY <4>1 DEF SessionOK, Session
    <3>2. session' = [session EXCEPT ![s] = x]
      BY <1>1, <2>2, LiveAssumption
    <3> HIDE DEF x
    <3>3. /\ SessionsOK'
          /\ session'[s] = x
          /\ \A q \in Sessions \ {s} : session'[q] = session[q]
      BY <2>2, <3>1, <3>2, SessionStep DEF Typed
    <3> QED  BY <3>1, <3>3
  <2> QED  BY <1>3, <2>1, <2>2
<1>8. OneLive'
  BY <1>1, <1>5, <1>6 DEF Typed, OneLive
<1> QED  BY <1>1, <1>2, <1>5, <1>6, <1>7, <1>8 DEF Typed, RestOK

\* The gateway takes a socket: a session that no handle refers to starts empty.
LEMMA AcceptStep ==
  ASSUME Typed, NEW h \in Handles, NEW s \in Sessions, Accept(h, s)
  PROVE  /\ Typed'
         /\ handle[h].ws = "opening" /\ handle'[h].ws = "opening"
         /\ handle'[h].via = s /\ handle'[h].user = handle[h].user
         /\ handle'[h].live = handle[h].live /\ handle'[h].timer = handle[h].timer
         /\ \A q \in Handles : handle[q].via # s
         /\ \A q \in Handles \ {h} : handle'[q] = handle[q]
         /\ session'[s].ch = <<>> /\ session'[s].wire = <<>>
         /\ \A q \in Sessions \ {s} : session'[q] = session[q]
         /\ UNCHANGED <<current, pill, sent, shown>>
<1> DEFINE c == [handle[h] EXCEPT !.via = s]
           x == [NoSession EXCEPT !.user = handle[h].user, !.loop = TRUE, !.pump = TRUE,
                                  !.up = TRUE]
<1>1. /\ handle[h].ws = "opening"
      /\ \A q \in Handles : handle[q].via # s
      /\ handle' = [handle EXCEPT ![h] = c]
      /\ session' = [session EXCEPT ![s] = x]
      /\ UNCHANGED <<current, pill, sent, shown, faults>>
  BY DEF Accept, Free, Typed, HandlesOK
<1>2. /\ HandleOK(handle[h]) /\ handle[h] \in Handle /\ handle[h].user \in Users
      /\ ~handle[h].timer
  BY <1>1 DEF Typed, HandlesOK, HandleOK, NoHandle
<1>3. /\ c \in Handle /\ c.ws = "opening" /\ c.via = s /\ c.user = handle[h].user
      /\ c.live = handle[h].live /\ c.timer = handle[h].timer
  BY <1>1, <1>2 DEF Handle
<1>4. SessionOK(x) /\ x.ch = <<>> /\ x.wire = <<>>
  BY <1>2, EmptySeq DEF SessionOK, Session, NoSession
<1> HIDE DEF c, x
<1>5. HandleOK(c)
  BY <1>2, <1>3 DEF HandleOK
<1>6. HandlesOK' /\ handle'[h] = c /\ \A q \in Handles \ {h} : handle'[q] = handle[q]
  BY <1>1, <1>5, HandleStep DEF Typed
<1>7. /\ SessionsOK'
      /\ session'[s] = x
      /\ \A q \in Sessions \ {s} : session'[q] = session[q]
  BY <1>1, <1>4, SessionStep DEF Typed
<1>8. OneLive'
  BY <1>1, <1>3, <1>6 DEF Typed, OneLive
<1> QED  BY <1>1, <1>3, <1>4, <1>6, <1>7, <1>8 DEF Typed, RestOK

\* What a gateway may do to the messages of a session: leave them, drop those
\* of the subscription, or take the first of them, to the wire or nowhere.
Takes(x, y) ==
  /\ x.ch # <<>>
  /\ y.ch = Tail(x.ch)
  /\ y.wire = x.wire \/ y.wire = Append(x.wire, Head(x.ch))
MailStep(x, y) ==
  \/ y.ch \in {x.ch, <<>>} /\ y.wire = x.wire
  \/ Takes(x, y)

\* One session changes, the app and the published notifications do not.
LEMMA SessionAlone ==
  ASSUME Typed, NEW s \in Sessions, NEW x, SessionOK(x), MailStep(session[s], x),
         session' = [session EXCEPT ![s] = x], UNCHANGED <<app, sent, shown>>,
         faults' \in 0 .. MaxFaults
  PROVE  Typed' /\ \A q \in Sessions : MailStep(session[q], session'[q])
<1>1. /\ SessionsOK'
      /\ session'[s] = x
      /\ \A q \in Sessions \ {s} : session'[q] = session[q]
  BY SessionStep DEF Typed
<1>2. Typed'
  BY <1>1 DEF Typed, HandlesOK, HandleOK, RestOK, OneLive, app
<1>3. \A q \in Sessions \ {s} : MailStep(session[q], session'[q])
  BY <1>1 DEF MailStep
<1> QED  BY <1>1, <1>2, <1>3

LEMMA ReturnedOK ==
  ASSUME SessionsOK, NEW s \in Sessions
  PROVE  \E x : /\ SessionOK(x) /\ MailStep(session[s], x)
                /\ Returned(s) = [session EXCEPT ![s] = x]
<1> DEFINE x == [session[s] EXCEPT !.user = None, !.loop = FALSE, !.up = UpAfter(s),
                                   !.subscribed = FALSE, !.ch = <<>>]
<1>1. SessionOK(session[s]) /\ <<>> \in Seq(1 .. MaxNotes)
  BY EmptySeq DEF SessionsOK
<1>2. SessionOK(x) /\ x.ch = <<>> /\ x.wire = session[s].wire
  BY <1>1 DEF SessionOK, Session, UpAfter
<1>3. Returned(s) = [session EXCEPT ![s] = x]
  BY DEF Returned, SessionsOK
<1> HIDE DEF x
<1> QED  BY <1>2, <1>3 DEF MailStep

LEMMA GatewayStep ==
  ASSUME Typed, NEW s \in Sessions, Gateway(s)
  PROVE  /\ Typed'
         /\ \A q \in Sessions : MailStep(session[q], session'[q])
         /\ UNCHANGED <<handle, current, pill, sent, shown>>
<1>t. /\ SessionOK(session[s])
      /\ session \in [Sessions -> Session]
      /\ faults \in 0 .. MaxFaults
  BY DEF Typed, SessionsOK, RestOK
<1>u. UNCHANGED <<app, sent, shown>>
  BY DEF Gateway, Subscribed, Forward, Quit, PumpEnds, Disturb
<1>s. SUFFICES Typed' /\ \A q \in Sessions : MailStep(session[q], session'[q])
  BY <1>u DEF app
<1>r. ASSUME session' = Returned(s), faults' \in 0 .. MaxFaults
      PROVE  Typed' /\ \A q \in Sessions : MailStep(session[q], session'[q])
  <2>1. PICK x : /\ SessionOK(x) /\ MailStep(session[s], x)
                 /\ Returned(s) = [session EXCEPT ![s] = x]
    BY ReturnedOK DEF Typed
  <2> QED  BY <1>r, <1>u, <2>1, SessionAlone
<1>1. CASE Subscribed(s)
  <2> DEFINE x == [session[s] EXCEPT !.subscribed = TRUE]
  <2>1. SessionOK(x) /\ x.ch = session[s].ch /\ x.wire = session[s].wire
    BY <1>t DEF SessionOK, Session
  <2>2. session' = [session EXCEPT ![s] = x] /\ faults' \in 0 .. MaxFaults
    BY <1>1, <1>t DEF Subscribed
  <2> HIDE DEF x
  <2>3. MailStep(session[s], x)
    BY <2>1 DEF MailStep
  <2> QED  BY <1>u, <2>1, <2>2, <2>3, SessionAlone
<1>2. CASE Forward(s)
  <2> DEFINE rest == [session[s] EXCEPT !.ch = Tail(@)]
             put  == [rest EXCEPT !.wire = Append(@, Head(session[s].ch))]
  <2>1. /\ session[s].ch # <<>>
        /\ session[s].ch \in Seq(1 .. MaxNotes)
        /\ session[s].wire \in Seq(1 .. MaxNotes)
    BY <1>2, <1>t DEF Forward, SessionOK, Session
  <2>2. /\ Tail(session[s].ch) \in Seq(1 .. MaxNotes)
        /\ Append(session[s].wire, Head(session[s].ch)) \in Seq(1 .. MaxNotes)
    <3>1. Head(session[s].ch) \in 1 .. MaxNotes /\ Tail(session[s].ch) \in Seq(1 .. MaxNotes)
      BY <2>1, HeadAndTail
    <3> QED  BY <2>1, <3>1
  <2>3. /\ SessionOK(rest)
        /\ rest.ch = Tail(session[s].ch)
        /\ rest.wire = session[s].wire
    BY <1>t, <2>2 DEF SessionOK, Session
  <2>4. /\ SessionOK(put)
        /\ put.ch = Tail(session[s].ch)
        /\ put.wire = Append(session[s].wire, Head(session[s].ch))
    <3> HIDE DEF rest
    <3> QED  BY <2>2, <2>3 DEF SessionOK, Session
  <2>5. CASE session' = Returned(s)
    <3>1. faults' \in 0 .. MaxFaults
      BY <1>2, <1>t, FaultStep DEF Forward, Typed
    <3> QED  BY <1>r, <2>5, <3>1
  <2>6. CASE /\ session' = IF session[s].up THEN [session EXCEPT ![s] = put]
                                            ELSE [session EXCEPT ![s] = rest]
             /\ UNCHANGED faults
    <3>1. MailStep(session[s], put) /\ MailStep(session[s], rest)
      BY <2>1, <2>3, <2>4 DEF MailStep, Takes
    <3> HIDE DEF put, rest
    <3>2. CASE session[s].up
      BY <1>t, <1>u, <2>4, <2>6, <3>1, <3>2, SessionAlone
    <3>3. CASE ~session[s].up
      BY <1>t, <1>u, <2>3, <2>6, <3>1, <3>3, SessionAlone
    <3> QED  BY <3>2, <3>3
  <2>7. \/ session' = Returned(s)
        \/ /\ session' = IF session[s].up THEN [session EXCEPT ![s] = put]
                                           ELSE [session EXCEPT ![s] = rest]
           /\ UNCHANGED faults
    BY <1>2, <1>t DEF Forward
  <2> QED  BY <2>5, <2>6, <2>7
<1>3. CASE Quit(s)
  BY <1>3, <1>r, <1>t DEF Quit
<1>4. CASE PumpEnds(s)
  <2> DEFINE x == [session[s] EXCEPT !.pump = FALSE]
  <2>1. SessionOK(x) /\ x.ch = session[s].ch /\ x.wire = session[s].wire
    BY <1>t DEF SessionOK, Session
  <2>2. session' = [session EXCEPT ![s] = x] /\ faults' \in 0 .. MaxFaults
    BY <1>4, <1>t DEF PumpEnds
  <2> HIDE DEF x
  <2>3. MailStep(session[s], x)
    BY <2>1 DEF MailStep
  <2> QED  BY <1>u, <2>1, <2>2, <2>3, SessionAlone
<1>5. CASE Disturb(s)
  <2> DEFINE x(quiet) == [session[s] EXCEPT !.up = FALSE, !.quiet = quiet]
             y == [session[s] EXCEPT !.subscribed = FALSE]
  <2>1. ASSUME NEW quiet \in BOOLEAN
        PROVE  SessionOK(x(quiet)) /\ x(quiet).ch = session[s].ch /\ x(quiet).wire = session[s].wire
    BY <1>t DEF SessionOK, Session
  <2>2. SessionOK(y) /\ y.ch = session[s].ch /\ y.wire = session[s].wire
    BY <1>t DEF SessionOK, Session
  <2>3. faults' \in 0 .. MaxFaults
    BY <1>5, FaultStep DEF Disturb, Typed
  <2>4. \/ \E quiet \in BOOLEAN : session' = [session EXCEPT ![s] = x(quiet)]
        \/ session' = [session EXCEPT ![s] = y]
    BY <1>5 DEF Disturb
  <2> HIDE DEF x, y
  <2>5. ASSUME NEW quiet \in BOOLEAN PROVE MailStep(session[s], x(quiet))
    BY <2>1 DEF MailStep
  <2>6. MailStep(session[s], y)
    BY <2>2 DEF MailStep
  <2> QED  BY <1>u, <2>1, <2>2, <2>3, <2>4, <2>5, <2>6, SessionAlone
<1> QED  BY <1>1, <1>2, <1>3, <1>4, <1>5 DEF Gateway

\* A notification reaches the subscriptions of its user behind what is there.
LEMMA PublishStep ==
  ASSUME Typed, NEW u \in Users, Publish(u)
  PROVE  /\ Typed'
         /\ sent' = sent + 1
         /\ \A q \in Sessions : /\ session'[q].wire = session[q].wire
                                 /\ session'[q].ch \in {session[q].ch, Append(session[q].ch, sent')}
         /\ UNCHANGED <<handle, current, pill, shown>>
<1>1. /\ sent' = sent + 1 /\ sent' \in 1 .. MaxNotes
      /\ UNCHANGED <<handle, current, pill, shown, faults>>
  BY LiveAssumption DEF Publish, app, Typed, RestOK
<1>2. ASSUME NEW q \in Sessions
      PROVE  /\ SessionOK(session'[q])
             /\ session'[q].wire = session[q].wire
             /\ session'[q].ch \in {session[q].ch, Append(session[q].ch, sent')}
  <2> DEFINE x == [session[q] EXCEPT !.ch = Append(@, sent')]
  <2>1. SessionOK(session[q])
    BY DEF Typed, SessionsOK
  <2>2. Append(session[q].ch, sent') \in Seq(1 .. MaxNotes)
    BY <1>1, <2>1 DEF SessionOK, Session
  <2>3. SessionOK(x) /\ x.wire = session[q].wire /\ x.ch = Append(session[q].ch, sent')
    BY <2>1, <2>2 DEF SessionOK, Session
  <2>4. session'[q] = session[q] \/ session'[q] = x
    BY DEF Publish
  <2> HIDE DEF x
  <2> QED  BY <2>1, <2>3, <2>4
<1>3. SessionsOK'
  <2>1. session' = [q \in Sessions |-> session'[q]]
    BY DEF Publish
  <2> QED  BY <1>2, <2>1 DEF SessionsOK, SessionOK
<1>4. HandlesOK' /\ RestOK' /\ OneLive'
  BY <1>1 DEF Typed, HandlesOK, HandleOK, RestOK, OneLive
<1> QED  BY <1>1, <1>2, <1>3, <1>4 DEF Typed

LEMMA TypedNext ==
  ASSUME Typed, [Next]_vars
  PROVE  Typed'
<1>1. CASE UNCHANGED vars
  BY <1>1 DEF vars, app, Typed, HandlesOK, HandleOK, SessionsOK, SessionOK, RestOK, OneLive
<1>2. ASSUME NEW h \in Handles, NEW u \in Users, Change(h, u) PROVE Typed'
  BY <1>2, ChangeStep
<1>3. ASSUME NEW h \in Handles, Client(h) PROVE Typed'
  BY <1>3, ReopenStep, OnOpenStep, OnMessageStep, OnCloseStep DEF Client
<1>4. ASSUME NEW h \in Handles, NEW s \in Sessions, Accept(h, s) PROVE Typed'
  BY <1>4, AcceptStep
<1>5. ASSUME NEW s \in Sessions, Gateway(s) PROVE Typed'
  BY <1>5, GatewayStep
<1>6. ASSUME NEW u \in Users, Publish(u) PROVE Typed'
  BY <1>6, PublishStep
<1> QED  BY <1>1, <1>2, <1>3, <1>4, <1>5, <1>6 DEF Next

LEMMA TypedInit == Init => Typed
<1> SUFFICES ASSUME Init PROVE Typed
  OBVIOUS
<1>1. PICK u \in Users :
        handle = [h \in Handles |-> IF h = current THEN Connected(u) ELSE NoHandle]
  BY DEF Init
<1>2. HandlesOK /\ OneLive
  <2>1. \A h \in Handles : handle[h] = IF h = current THEN Connected(u) ELSE NoHandle
    BY <1>1
  <2>2. /\ HandleOK(Connected(u)) /\ HandleOK(NoHandle)
        /\ Connected(u).live /\ ~NoHandle.live
    BY ConnectedOK, NoHandleOK DEF NoHandle
  <2>3. \A h \in Handles : HandleOK(handle[h]) /\ (handle[h].live <=> h = current)
    BY <2>1, <2>2
  <2>4. handle \in [Handles -> Handle]
    BY <1>1, <2>2 DEF HandleOK
  <2> QED  BY <2>3, <2>4 DEF HandlesOK, OneLive
<1>3. SessionsOK
  BY NoSessionOK DEF Init, SessionsOK, SessionOK
<1>4. RestOK
  <2>1. 0 \in 0 .. MaxNotes /\ 0 \in 0 .. MaxFaults
    BY LiveAssumption
  <2>2. shown \in [Users -> Seq(1 .. MaxNotes)]
    BY EmptySeq DEF Init
  <2> QED  BY <2>1, <2>2 DEF Init, RestOK
<1> QED  BY <1>2, <1>3, <1>4 DEF Typed

\* Every socket the app opens or displays has a user and another end, and a
\* session that runs has the user it was accepted for.
THEOREM TypeCorrect == Spec => []TypeOK
<1>1. Typed => TypeOK
  BY DEF Typed, HandlesOK, SessionsOK, RestOK, SessionOK, TypeOK
<1>2. Spec => []Typed
  BY TypedInit, TypedNext, PTL DEF Spec
<1> QED  BY <1>1, <1>2, PTL

(***************************************************************************)
(* The status the app displays.                                            *)
(***************************************************************************)
LEMMA StatusNext ==
  ASSUME Typed, LiveMeansLive, [Next]_vars
  PROVE  LiveMeansLive'
<1>t. current \in Handles
  BY DEF Typed, RestOK
<1>1. CASE UNCHANGED vars
  BY <1>1 DEF vars, app, LiveMeansLive
<1>2. ASSUME NEW h \in Handles, NEW u \in Users, Change(h, u) PROVE LiveMeansLive'
  <2>1. /\ h # current /\ current' = h
        /\ handle[h] = NoHandle
        /\ handle'[current] = Closed(handle[current])
        /\ \A q \in Handles \ {h, current} : handle'[q] = handle[q]
        /\ UNCHANGED pill
    BY <1>2, ChangeStep
  <2>2. /\ HandleOK(handle[current])
        /\ NoHandle.ws = "none"
    BY <1>t DEF Typed, HandlesOK, NoHandle
  <2>3. Closed(handle[current]).ws = IF handle[current].ws = "none" THEN "none" ELSE "closing"
    BY <2>2, ClosedOK
  <2> QED  BY <1>t, <2>1, <2>2, <2>3 DEF LiveMeansLive
<1>3. ASSUME NEW h \in Handles, Client(h) PROVE LiveMeansLive'
  <2>1. CASE Reopen(h)
    <3>1. /\ handle[h].ws = "none" /\ handle'[h].ws = "opening"
          /\ \A q \in Handles \ {h} : handle'[q] = handle[q]
          /\ UNCHANGED <<current, pill>>
      BY <2>1, ReopenStep
    <3> QED  BY <1>t, <3>1 DEF LiveMeansLive
  <2>2. CASE OnOpen(h)
    <3>1. /\ handle'[h].ws = "open"
          /\ \A q \in Handles \ {h} : handle'[q] = handle[q]
          /\ UNCHANGED current
      BY <2>2, OnOpenStep
    <3> QED  BY <1>t, <3>1 DEF LiveMeansLive
  <2>3. CASE OnMessage(h)
    <3>1. UNCHANGED <<handle, current, pill>>
      BY <2>3, OnMessageStep
    <3> QED  BY <3>1 DEF LiveMeansLive
  <2>4. CASE OnClose(h)
    <3>1. pill' = "disconnected"
      BY <2>4, OnCloseStep
    <3> QED  BY <3>1 DEF LiveMeansLive
  <2> QED  BY <1>3, <2>1, <2>2, <2>3, <2>4 DEF Client
<1>4. ASSUME NEW h \in Handles, NEW s \in Sessions, Accept(h, s) PROVE LiveMeansLive'
  <2>1. /\ handle[h].ws = "opening" /\ handle'[h].ws = "opening"
        /\ \A q \in Handles \ {h} : handle'[q] = handle[q]
        /\ UNCHANGED <<current, pill>>
    BY <1>4, AcceptStep
  <2> QED  BY <1>t, <2>1 DEF LiveMeansLive
<1>5. ASSUME UNCHANGED <<handle, current, pill>> PROVE LiveMeansLive'
  BY <1>5 DEF LiveMeansLive
<1> QED  BY <1>1, <1>2, <1>3, <1>4, <1>5, GatewayStep, PublishStep DEF Next

\* The status never stays "connected" behind the back of the app, whichever
\* client it runs: an old socket that closes last still says "disconnected"
\* (live.ts:44-45, live.js).
THEOREM StatusIsHonest == Spec => []LiveMeansLive
<1>1. Init => LiveMeansLive
  BY DEF Init, LiveMeansLive
<1>2. Spec => [](Typed /\ LiveMeansLive)
  BY <1>1, TypedInit, TypedNext, StatusNext, PTL DEF Spec
<1> QED  BY <1>2, PTL

(***************************************************************************)
(* A closed handle never listens again.                                    *)
(***************************************************************************)

\* Besides the socket, the timer is what could open it again.
Retired ==
  ClearsTimer =>
    \A h \in Handles : h # current =>
      ~handle[h].timer /\ handle[h].ws \notin {"opening", "open"}

LEMMA RetiredNext ==
  ASSUME Typed, Retired, [Next]_vars
  PROVE  Retired'
<1> SUFFICES ASSUME ClearsTimer,
                    NEW q \in Handles, q # current'
             PROVE  ~handle'[q].timer /\ handle'[q].ws \notin {"opening", "open"}
  BY DEF Retired
<1>r. \A h \in Handles : h # current =>
        ~handle[h].timer /\ handle[h].ws \notin {"opening", "open"}
  BY DEF Retired
<1>t. current \in Handles
  BY DEF Typed, RestOK
<1>1. CASE UNCHANGED vars
  BY <1>1, <1>r DEF vars, app
<1>2. ASSUME NEW h \in Handles, NEW u \in Users, Change(h, u)
      PROVE  ~handle'[q].timer /\ handle'[q].ws \notin {"opening", "open"}
  <2>1. /\ current' = h
        /\ handle'[current] = Closed(handle[current])
        /\ \A p \in Handles \ {h, current} : handle'[p] = handle[p]
    BY <1>2, ChangeStep
  <2>2. HandleOK(handle[current])
    BY <1>t DEF Typed, HandlesOK
  <2>3. /\ ~Closed(handle[current]).timer
        /\ Closed(handle[current]).ws \notin {"opening", "open"}
    BY <2>2, ClosedOK
  <2> QED  BY <1>r, <2>1, <2>3
<1>3. ASSUME NEW h \in Handles, Client(h)
      PROVE  ~handle'[q].timer /\ handle'[q].ws \notin {"opening", "open"}
  <2>1. CASE Reopen(h)
    <3>1. /\ handle[h].timer
          /\ \A p \in Handles \ {h} : handle'[p] = handle[p]
          /\ UNCHANGED current
      BY <2>1, ReopenStep
    <3> QED  BY <1>r, <3>1
  <2>2. CASE OnOpen(h)
    <3>1. /\ handle[h].ws = "opening"
          /\ \A p \in Handles \ {h} : handle'[p] = handle[p]
          /\ UNCHANGED current
      BY <2>2, OnOpenStep
    <3> QED  BY <1>r, <3>1
  <2>3. CASE OnMessage(h)
    BY <1>r, <2>3, OnMessageStep
  <2>4. CASE OnClose(h)
    <3>1. /\ h # current => handle'[h] = NoHandle
          /\ \A p \in Handles \ {h} : handle'[p] = handle[p]
          /\ UNCHANGED current
      BY <2>4, OnCloseStep
    <3> QED  BY <1>r, <3>1 DEF NoHandle
  <2> QED  BY <1>3, <2>1, <2>2, <2>3, <2>4 DEF Client
<1>4. ASSUME NEW h \in Handles, NEW s \in Sessions, Accept(h, s)
      PROVE  ~handle'[q].timer /\ handle'[q].ws \notin {"opening", "open"}
  <2>1. /\ handle[h].ws = "opening"
        /\ \A p \in Handles \ {h} : handle'[p] = handle[p]
        /\ UNCHANGED current
    BY <1>4, AcceptStep
  <2> QED  BY <1>r, <2>1
<1>5. ASSUME UNCHANGED <<handle, current>>
      PROVE  ~handle'[q].timer /\ handle'[q].ws \notin {"opening", "open"}
  BY <1>5, <1>r
<1> QED  BY <1>1, <1>2, <1>3, <1>4, <1>5, GatewayStep, PublishStep DEF Next

LEMMA RetiredInit == Init => Retired
BY LiveAssumption DEF Init, Retired, NoHandle

LEMMA RetiredListens ==
  ASSUME Retired, ClearsTimer
  PROVE  OnlyCurrentListens
BY DEF Retired, OnlyCurrentListens

\* A handle the mobile client closed never opens a socket again, however its
\* timers, its sockets' events and the changes of identity interleave: cleanup
\* clears the reconnect that onclose may have scheduled (live.ts:49-56).
THEOREM ClosedStaysClosed == Spec => [](ClearsTimer => OnlyCurrentListens)
<1>1. Retired => (ClearsTimer => OnlyCurrentListens)
  BY RetiredListens
<1>2. Spec => [](Typed /\ Retired)
  BY RetiredInit, TypedInit, TypedNext, RetiredNext, PTL DEF Spec
<1> QED  BY <1>1, <1>2, PTL

(***************************************************************************)
(* Notifications in order, each at most once.                              *)
(***************************************************************************)
Rising(q)    == \A i, j \in DOMAIN q : i < j => q[i] < q[j]
Before(p, q) == \A i \in DOMAIN p, j \in DOMAIN q : p[i] < q[j]
UpTo(q, n)   == \A i \in DOMAIN q : q[i] <= n

Notes == Seq(1 .. MaxNotes)

LEMMA NoteValues ==
  ASSUME NEW q \in Notes, NEW i \in DOMAIN q
  PROVE  q[i] \in Nat
<1>1. q \in Seq(1 .. MaxNotes) /\ MaxNotes \in Nat
  BY LiveAssumption DEF Notes
<1>2. q[i] \in 1 .. MaxNotes
  BY <1>1
<1> QED  BY <1>1, <1>2

LEMMA EmptyInOrder ==
  ASSUME NEW q, NEW n
  PROVE  Rising(<<>>) /\ Before(<<>>, q) /\ Before(q, <<>>) /\ UpTo(<<>>, n)
BY DEF Rising, Before, UpTo

\* A notification put behind all others.
LEMMA AppendInOrder ==
  ASSUME NEW q \in Notes, NEW m \in 1 .. MaxNotes, Rising(q), \A i \in DOMAIN q : q[i] < m
  PROVE  Rising(Append(q, m))
BY DEF Rising, Notes

LEMMA AppendBefore ==
  ASSUME NEW p \in Notes, NEW q \in Notes, NEW m \in 1 .. MaxNotes
  PROVE  /\ Before(p, q) /\ (\A j \in DOMAIN q : m < q[j]) => Before(Append(p, m), q)
         /\ Before(p, q) /\ (\A i \in DOMAIN p : p[i] < m) => Before(p, Append(q, m))
BY DEF Before, Notes

LEMMA AppendUpTo ==
  ASSUME NEW q \in Notes, NEW m \in 1 .. MaxNotes, NEW n \in Nat, UpTo(q, n), m <= n
  PROVE  UpTo(Append(q, m), n)
BY DEF UpTo, Notes

\* The first notification of a channel is taken.
LEMMA TakenInOrder ==
  ASSUME NEW q \in Notes, q # <<>>, Rising(q)
  PROVE  /\ Head(q) \in 1 .. MaxNotes /\ Tail(q) \in Notes
         /\ Head(q) = q[1] /\ 1 \in DOMAIN q
         /\ Rising(Tail(q))
         /\ \A j \in DOMAIN Tail(q) : Head(q) < Tail(q)[j]
         /\ \A n : UpTo(q, n) => UpTo(Tail(q), n)
         /\ \A p : Before(p, q) => Before(p, Tail(q))
<1>1. /\ Head(q) \in 1 .. MaxNotes /\ Tail(q) \in Notes
      /\ Head(q) = q[1] /\ 1 \in DOMAIN q
  <2>1. q \in Seq(1 .. MaxNotes) /\ Len(q) # 0
    BY DEF Notes
  <2>2. Head(q) \in 1 .. MaxNotes /\ Tail(q) \in Notes
    BY <2>1, HeadAndTail DEF Notes
  <2> QED  BY <2>1, <2>2
<1>2. \A j \in DOMAIN Tail(q) : /\ j \in Nat /\ j >= 1
                                /\ j + 1 \in DOMAIN q
                                /\ Tail(q)[j] = q[j + 1]
  BY DEF Notes
<1>3. Rising(Tail(q))
  BY <1>2 DEF Rising
<1>4. \A j \in DOMAIN Tail(q) : Head(q) < Tail(q)[j]
  BY <1>1, <1>2 DEF Rising
<1>5. \A n : UpTo(q, n) => UpTo(Tail(q), n)
  BY <1>2 DEF UpTo
<1>6. \A p : Before(p, q) => Before(p, Tail(q))
  BY <1>2 DEF Before
<1> QED  BY <1>1, <1>3, <1>4, <1>5, <1>6

\* The subscription and the wire of a session, one behind the other.
MailOK(x, n) ==
  /\ Rising(x.wire) /\ Rising(x.ch) /\ Before(x.wire, x.ch)
  /\ UpTo(x.wire, n) /\ UpTo(x.ch, n)
MailInOrder == \A s \in Sessions : MailOK(session[s], sent)

\* What was shown is behind neither what was published nor, for the handle
\* that listens, what its session still has.
ShownInOrder == \A u \in Users : Rising(shown[u]) /\ UpTo(shown[u], sent)
ShownFirst ==
  LET c == handle[current]
      x == session[c.via] IN
  c.ws \in {"opening", "open"} /\ c.via # None =>
    Before(shown[c.user], x.wire) /\ Before(shown[c.user], x.ch)

Delivery == MailInOrder /\ ShownInOrder /\ ShownFirst

LEMMA MailTypes ==
  ASSUME Typed
  PROVE  /\ sent \in Nat
         /\ \A s \in Sessions : session[s].ch \in Notes /\ session[s].wire \in Notes
         /\ \A u \in Users : shown[u] \in Notes
BY LiveAssumption DEF Typed, SessionsOK, SessionOK, Session, RestOK, Notes

\* No step of a gateway puts the messages of a session out of order, or brings
\* one that was not on its way.
LEMMA MailStepInOrder ==
  ASSUME NEW x, NEW y, NEW n \in Nat, MailStep(x, y), MailOK(x, n),
         x.ch \in Notes, x.wire \in Notes
  PROVE  /\ MailOK(y, n)
         /\ \A p : Before(p, x.wire) /\ Before(p, x.ch) => Before(p, y.wire) /\ Before(p, y.ch)
<1>1. CASE y.ch \in {x.ch, <<>>} /\ y.wire = x.wire
  <2>1. CASE y.ch = x.ch
    BY <1>1, <2>1 DEF MailOK
  <2>2. CASE y.ch = <<>>
    BY <1>1, <2>2, EmptyInOrder DEF MailOK
  <2> QED  BY <1>1, <2>1, <2>2
<1>2. CASE Takes(x, y)
  <2> DEFINE m == Head(x.ch)
             rest == Tail(x.ch)
  <2>1. /\ m \in 1 .. MaxNotes /\ rest \in Notes
        /\ m = x.ch[1] /\ 1 \in DOMAIN x.ch
        /\ Rising(rest)
        /\ \A j \in DOMAIN rest : m < rest[j]
        /\ UpTo(rest, n)
        /\ \A p : Before(p, x.ch) => Before(p, rest)
    BY <1>2, TakenInOrder DEF Takes, MailOK
  <2>2. \A p : Before(p, x.ch) => \A i \in DOMAIN p : p[i] < m
    BY <2>1 DEF Before
  <2> HIDE DEF m, rest
  <2>3. m <= n
    BY <2>1 DEF MailOK, UpTo
  <2>4. y.ch = rest /\ (y.wire = x.wire \/ y.wire = Append(x.wire, m))
    BY <1>2 DEF Takes, m, rest
  <2>5. CASE y.wire = x.wire
    BY <2>1, <2>4, <2>5 DEF MailOK
  <2>6. CASE y.wire = Append(x.wire, m)
    <3>1. Rising(y.wire)
      BY <2>1, <2>2, <2>6, AppendInOrder DEF MailOK
    <3>2. UpTo(y.wire, n)
      BY <2>1, <2>3, <2>6, AppendUpTo DEF MailOK
    <3>3. Before(y.wire, y.ch)
      BY <2>1, <2>4, <2>6, AppendBefore DEF MailOK
    <3>4. \A p : Before(p, x.wire) /\ Before(p, x.ch) => Before(p, y.wire)
      <4> SUFFICES ASSUME NEW p, Before(p, x.wire), Before(p, x.ch) PROVE Before(p, y.wire)
        OBVIOUS
      <4>1. \A i \in DOMAIN p : p[i] < m
        BY <2>2
      <4> QED  BY <2>1, <2>6, <4>1 DEF Before, Notes
    <3> QED  BY <2>1, <2>4, <3>1, <3>2, <3>3, <3>4 DEF MailOK
  <2> QED  BY <2>4, <2>5, <2>6
<1> QED  BY <1>1, <1>2 DEF MailStep

\* A step that only touches the mail of gateways.
LEMMA DeliveryGateway ==
  ASSUME Typed, Delivery, NEW s \in Sessions, Gateway(s)
  PROVE  Delivery'
<1>1. /\ \A q \in Sessions : MailStep(session[q], session'[q])
      /\ UNCHANGED <<handle, current, sent, shown>>
  BY GatewayStep
<1>2. \A q \in Sessions :
        /\ MailOK(session'[q], sent)
        /\ \A p : Before(p, session[q].wire) /\ Before(p, session[q].ch)
                   => Before(p, session'[q].wire) /\ Before(p, session'[q].ch)
  <2> SUFFICES ASSUME NEW q \in Sessions
               PROVE  /\ MailOK(session'[q], sent)
                      /\ \A p : Before(p, session[q].wire) /\ Before(p, session[q].ch)
                               => Before(p, session'[q].wire) /\ Before(p, session'[q].ch)
    OBVIOUS
  <2>1. /\ sent \in Nat
        /\ session[q].ch \in Notes /\ session[q].wire \in Notes
        /\ MailOK(session[q], sent)
        /\ MailStep(session[q], session'[q])
    BY <1>1, MailTypes DEF Delivery, MailInOrder
  <2> QED  BY <2>1, MailStepInOrder
<1>3. MailInOrder'
  BY <1>1, <1>2 DEF MailInOrder
<1>4. ShownInOrder'
  BY <1>1 DEF Delivery, ShownInOrder
<1>5. ShownFirst => ShownFirst'
  <2>1. handle[current].via # None => handle[current].via \in Sessions
    BY DEF Typed, HandlesOK, HandleOK, Handle, RestOK
  <2> QED  BY <1>1, <1>2, <2>1 DEF ShownFirst
<1> QED  BY <1>3, <1>4, <1>5 DEF Delivery

\* A notification that is published is behind everything there is.
LEMMA DeliveryPublish ==
  ASSUME Typed, Delivery, NEW u \in Users, Publish(u)
  PROVE  Delivery'
<1>1. /\ sent' = sent + 1 /\ sent' \in 1 .. MaxNotes /\ sent \in Nat
      /\ \A q \in Sessions : /\ session'[q].wire = session[q].wire
                              /\ session'[q].ch \in {session[q].ch, Append(session[q].ch, sent')}
      /\ UNCHANGED <<handle, current, shown>>
  <2>1. sent \in Nat /\ sent < MaxNotes /\ MaxNotes \in Nat
    BY MailTypes, LiveAssumption DEF Publish
  <2>2. /\ sent' = sent + 1
        /\ \A q \in Sessions : /\ session'[q].wire = session[q].wire
                                /\ session'[q].ch \in {session[q].ch, Append(session[q].ch, sent')}
        /\ UNCHANGED <<handle, current, shown>>
    BY PublishStep
  <2>3. sent' \in 1 .. MaxNotes
    BY <2>1, <2>2
  <2> QED  BY <2>1, <2>2, <2>3
<1>2. ASSUME NEW q, UpTo(q, sent), q \in Notes
      PROVE  UpTo(q, sent') /\ \A i \in DOMAIN q : q[i] < sent'
  <2>1. \A i \in DOMAIN q : q[i] \in Nat /\ q[i] <= sent
    BY <1>2, NoteValues DEF UpTo
  <2>2. sent \in Nat /\ sent' = sent + 1
    BY <1>1
  <2> QED  BY <2>1, <2>2 DEF UpTo
<1>3. ASSUME NEW q \in Sessions
      PROVE  /\ MailOK(session'[q], sent')
             /\ \A p \in Notes : UpTo(p, sent) /\ Before(p, session[q].ch)
                                   => Before(p, session'[q].ch)
  <2> DEFINE x == session[q]
             y == session'[q]
  <2>1. x.ch \in Notes /\ x.wire \in Notes /\ MailOK(x, sent)
    BY MailTypes DEF Delivery, MailInOrder
  <2>2. /\ y.wire = x.wire
        /\ y.ch = x.ch \/ y.ch = Append(x.ch, sent')
    BY <1>1
  <2> HIDE DEF x, y
  <2>3. /\ UpTo(x.wire, sent') /\ \A i \in DOMAIN x.wire : x.wire[i] < sent'
        /\ UpTo(x.ch, sent') /\ \A i \in DOMAIN x.ch : x.ch[i] < sent'
    BY <1>2, <2>1 DEF MailOK
  <2>4. CASE y.ch = x.ch
    BY <2>1, <2>2, <2>3, <2>4 DEF MailOK, x, y
  <2>5. CASE y.ch = Append(x.ch, sent')
    <3>1. Rising(y.ch)
      BY <1>1, <2>1, <2>3, <2>5, AppendInOrder DEF MailOK
    <3>2. UpTo(y.ch, sent')
      BY <1>1, <2>1, <2>3, <2>5, AppendUpTo
    <3>3. Before(y.wire, y.ch)
      BY <1>1, <2>1, <2>2, <2>3, <2>5, AppendBefore DEF MailOK
    <3>4. ASSUME NEW p \in Notes, UpTo(p, sent), Before(p, x.ch)
          PROVE  Before(p, y.ch)
      BY <1>1, <1>2, <2>1, <2>5, <3>4, AppendBefore
    <3> QED  BY <2>1, <2>2, <2>3, <3>1, <3>2, <3>3, <3>4 DEF MailOK, x, y
  <2> QED  BY <2>2, <2>4, <2>5
<1>4. MailInOrder'
  BY <1>3 DEF MailInOrder
<1>5. ShownInOrder'
  BY <1>1, <1>2, MailTypes DEF Delivery, ShownInOrder
<1>6. ShownFirst => ShownFirst'
  <2> SUFFICES ASSUME ShownFirst,
                      handle[current].ws \in {"opening", "open"}, handle[current].via # None
               PROVE  LET c == handle[current]
                          y == session'[c.via]
                      IN Before(shown[c.user], y.wire) /\ Before(shown[c.user], y.ch)
    BY <1>1 DEF ShownFirst
  <2>1. handle[current].via \in Sessions /\ handle[current].user \in Users
    BY DEF Typed, HandlesOK, HandleOK, Handle, RestOK, NoHandle
  <2>2. /\ shown[handle[current].user] \in Notes
        /\ UpTo(shown[handle[current].user], sent)
    BY <2>1, MailTypes DEF Delivery, ShownInOrder
  <2> QED  BY <1>1, <1>3, <2>1, <2>2 DEF ShownFirst
<1> QED  BY <1>4, <1>5, <1>6 DEF Delivery

\* No two handles share a session.
OwnEnds ==
  \A g, h \in Handles : g # h /\ handle[g].via # None => handle[g].via # handle[h].via

LEMMA OwnEndsNext ==
  ASSUME Typed, OwnEnds, [Next]_vars
  PROVE  OwnEnds'
<1>1. CASE UNCHANGED vars
  BY <1>1 DEF vars, app, OwnEnds
<1>2. ASSUME NEW h \in Handles, NEW u \in Users, Change(h, u) PROVE OwnEnds'
  <2>1. /\ h # current
        /\ handle'[h] = Connected(u)
        /\ handle'[current] = Closed(handle[current])
        /\ \A q \in Handles \ {h, current} : handle'[q] = handle[q]
    BY <1>2, ChangeStep
  <2>2. current \in Handles /\ HandleOK(handle[current])
    BY DEF Typed, RestOK, HandlesOK
  <2>3. handle'[h].via = None /\ handle'[current].via = handle[current].via
    BY <2>1, <2>2, ClosedOK, ConnectedOK
  <2> QED  BY <2>1, <2>3 DEF OwnEnds
<1>3. ASSUME NEW h \in Handles, Client(h) PROVE OwnEnds'
  <2>1. /\ \A q \in Handles \ {h} : handle'[q] = handle[q]
        /\ handle'[h].via \in {handle[h].via, None}
    BY <1>3, ReopenStep, OnOpenStep, OnMessageStep, OnCloseStep DEF Client
  <2> QED  BY <2>1 DEF OwnEnds
<1>4. ASSUME NEW h \in Handles, NEW s \in Sessions, Accept(h, s) PROVE OwnEnds'
  <2>1. /\ handle'[h].via = s
        /\ \A q \in Handles : handle[q].via # s
        /\ \A q \in Handles \ {h} : handle'[q] = handle[q]
    BY <1>4, AcceptStep
  <2> QED  BY <2>1 DEF OwnEnds
<1>5. ASSUME UNCHANGED handle PROVE OwnEnds'
  BY <1>5 DEF OwnEnds
<1> QED  BY <1>1, <1>2, <1>3, <1>4, <1>5, GatewayStep, PublishStep DEF Next

\* The handle that listens is given what is first on its wire.
LEMMA DeliveryOnMessage ==
  ASSUME Typed, Delivery, Retired, ClearsTimer, NEW h \in Handles, OnMessage(h)
  PROVE  Delivery'
<1> DEFINE s == handle[h].via
           u == handle[h].user
           q == session[s].wire
<1>1. /\ handle[h].ws = "open" /\ h = current
      /\ s \in Sessions /\ u \in Users
      /\ q # <<>>
      /\ shown'[u] = Append(shown[u], Head(q))
      /\ \A v \in Users \ {u} : shown'[v] = shown[v]
      /\ session'[s].wire = Tail(q)
      /\ session'[s].ch = session[s].ch
      /\ \A r \in Sessions \ {s} : session'[r] = session[r]
      /\ UNCHANGED <<handle, current, sent>>
  BY OnMessageStep, RetiredListens DEF OnlyCurrentListens
<1>2. s # None
  BY <1>1, LiveAssumption
<1>3. /\ q \in Notes /\ session[s].ch \in Notes /\ shown[u] \in Notes /\ sent \in Nat
      /\ MailOK(session[s], sent)
      /\ Rising(shown[u]) /\ UpTo(shown[u], sent)
      /\ Before(shown[u], q) /\ Before(shown[u], session[s].ch)
  <2>1. q \in Notes /\ session[s].ch \in Notes /\ shown[u] \in Notes /\ sent \in Nat
    BY <1>1, MailTypes
  <2>2. MailOK(session[s], sent) /\ Rising(shown[u]) /\ UpTo(shown[u], sent)
    BY <1>1 DEF Delivery, MailInOrder, ShownInOrder
  <2>3. Before(shown[u], q) /\ Before(shown[u], session[s].ch)
    BY <1>1, <1>2 DEF Delivery, ShownFirst
  <2> QED  BY <2>1, <2>2, <2>3
<1>q. Rising(q) /\ Before(q, session[s].ch) /\ UpTo(q, sent)
  BY <1>3 DEF MailOK
<1> HIDE DEF s, u, q
<1>4. /\ Head(q) \in 1 .. MaxNotes /\ Tail(q) \in Notes
      /\ Head(q) = q[1] /\ 1 \in DOMAIN q
      /\ Rising(Tail(q)) /\ UpTo(Tail(q), sent)
      /\ \A j \in DOMAIN Tail(q) : Head(q) < Tail(q)[j]
      /\ Before(shown[u], Tail(q))
  BY <1>1, <1>3, <1>q, TakenInOrder
<1>5. /\ \A i \in DOMAIN shown[u] : shown[u][i] < Head(q)
      /\ \A j \in DOMAIN session[s].ch : Head(q) < session[s].ch[j]
      /\ Head(q) <= sent
  BY <1>3, <1>q, <1>4 DEF Before, UpTo
<1>6. /\ Rising(shown'[u]) /\ UpTo(shown'[u], sent)
      /\ Before(shown'[u], Tail(q)) /\ Before(shown'[u], session[s].ch)
  <2>1. Rising(shown'[u])
    BY <1>1, <1>3, <1>4, <1>5, AppendInOrder
  <2>2. UpTo(shown'[u], sent)
    BY <1>1, <1>3, <1>4, <1>5, AppendUpTo
  <2>3. Before(shown'[u], Tail(q))
    <3> DEFINE m == Head(q)
               rest == Tail(q)
    <3>1. /\ m \in 1 .. MaxNotes /\ rest \in Notes /\ shown[u] \in Notes
          /\ Before(shown[u], rest) /\ (\A j \in DOMAIN rest : m < rest[j])
          /\ shown'[u] = Append(shown[u], m)
      BY <1>1, <1>3, <1>4
    <3> HIDE DEF m, rest
    <3>2. Before(Append(shown[u], m), rest)
      BY <3>1, AppendBefore
    <3> QED  BY <3>1, <3>2 DEF m, rest
  <2>4. Before(shown'[u], session[s].ch)
    BY <1>1, <1>3, <1>4, <1>5, AppendBefore
  <2> QED  BY <2>1, <2>2, <2>3, <2>4
<1>7. MailOK(session'[s], sent)
  <2>1. Before(Tail(q), session[s].ch)
    <3>1. \A j \in DOMAIN Tail(q) : \E i \in DOMAIN q : Tail(q)[j] = q[i]
      <4>1. q \in Seq(1 .. MaxNotes)
        BY <1>3 DEF Notes
      <4>2. \A j \in DOMAIN Tail(q) : j + 1 \in DOMAIN q /\ Tail(q)[j] = q[j + 1]
        BY <1>1, <4>1
      <4> QED  BY <4>2
    <3> QED  BY <1>q, <3>1 DEF Before
  <2> QED  BY <1>1, <1>3, <1>4, <2>1 DEF MailOK
<1>8. MailInOrder'
  BY <1>1, <1>7 DEF Delivery, MailInOrder
<1>9. ShownInOrder'
  BY <1>1, <1>6 DEF Delivery, ShownInOrder
<1>10. ShownFirst'
  BY <1>1, <1>6 DEF ShownFirst, s, u
<1> QED  BY <1>8, <1>9, <1>10 DEF Delivery

LEMMA DeliveryNext ==
  ASSUME Typed, Delivery, Retired, ClearsTimer, OwnEnds, [Next]_vars
  PROVE  Delivery'
<1>t. current \in Handles
  BY DEF Typed, RestOK
<1>1. CASE UNCHANGED vars
  BY <1>1 DEF vars, app, Delivery, MailInOrder, ShownInOrder, ShownFirst
<1>2. ASSUME NEW h \in Handles, NEW u \in Users, Change(h, u) PROVE Delivery'
  <2>1. /\ current' = h
        /\ handle'[h] = Connected(u)
        /\ KeepsMail
        /\ UNCHANGED <<sent, shown>>
    BY <1>2, ChangeStep
  <2>2. ShownFirst'
    BY <2>1, ConnectedOK DEF ShownFirst
  <2>3. MailInOrder'
    BY <2>1 DEF Delivery, MailInOrder, MailOK, KeepsMail
  <2> QED  BY <2>1, <2>2, <2>3 DEF Delivery, ShownInOrder
<1>3. ASSUME NEW h \in Handles, Client(h) PROVE Delivery'
  <2>1. CASE Reopen(h)
    <3>1. /\ handle'[h].via = None
          /\ \A q \in Handles \ {h} : handle'[q] = handle[q]
          /\ UNCHANGED <<current, session, sent, shown>>
      BY <2>1, ReopenStep
    <3>2. ShownFirst => ShownFirst'
      BY <1>t, <3>1 DEF ShownFirst
    <3> QED  BY <3>1, <3>2 DEF Delivery, MailInOrder, ShownInOrder
  <2>2. CASE OnOpen(h)
    <3>1. /\ handle[h].ws = "opening"
          /\ handle'[h].via = handle[h].via /\ handle'[h].user = handle[h].user
          /\ \A q \in Handles \ {h} : handle'[q] = handle[q]
          /\ UNCHANGED <<current, session, sent, shown>>
      BY <2>2, OnOpenStep
    <3>2. ShownFirst => ShownFirst'
      BY <1>t, <3>1 DEF ShownFirst
    <3> QED  BY <3>1, <3>2 DEF Delivery, MailInOrder, ShownInOrder
  <2>3. CASE OnMessage(h)
    BY <2>3, DeliveryOnMessage
  <2>4. CASE OnClose(h)
    <3>1. /\ handle'[h].via = None
          /\ \A q \in Handles \ {h} : handle'[q] = handle[q]
          /\ \A q \in Sessions : session'[q].ch = session[q].ch
          /\ \A q \in Sessions : session'[q].wire = session[q].wire \/ session'[q].wire = <<>>
          /\ \A q \in Sessions \ {handle[h].via} : session'[q] = session[q]
          /\ UNCHANGED <<current, sent, shown>>
      BY <2>4, OnCloseStep
    <3>2. MailInOrder'
      BY <3>1, EmptyInOrder DEF Delivery, MailInOrder, MailOK
    <3>3. ShownFirst => ShownFirst'
      <4>1. CASE h = current
        BY <1>t, <3>1, <4>1 DEF ShownFirst
      <4>2. CASE h # current
        <5>1. handle[current].via # None =>
                /\ handle[current].via \in Sessions
                /\ handle[current].via # handle[h].via
          BY <1>t, <4>2 DEF OwnEnds, Typed, HandlesOK, HandleOK, Handle
        <5> QED  BY <1>t, <3>1, <4>2, <5>1 DEF ShownFirst
      <4> QED  BY <4>1, <4>2
    <3> QED  BY <3>1, <3>2, <3>3 DEF Delivery, ShownInOrder
  <2> QED  BY <1>3, <2>1, <2>2, <2>3, <2>4 DEF Client
<1>4. ASSUME NEW h \in Handles, NEW s \in Sessions, Accept(h, s) PROVE Delivery'
  <2>1. /\ handle'[h].via = s
        /\ \A q \in Handles : handle[q].via # s
        /\ \A q \in Handles \ {h} : handle'[q] = handle[q]
        /\ session'[s].ch = <<>> /\ session'[s].wire = <<>>
        /\ \A q \in Sessions \ {s} : session'[q] = session[q]
        /\ UNCHANGED <<current, sent, shown>>
    BY <1>4, AcceptStep
  <2>2. MailInOrder'
    BY <2>1, EmptyInOrder DEF Delivery, MailInOrder, MailOK
  <2>3. ShownFirst => ShownFirst'
    <3>1. CASE h = current
      BY <2>1, <3>1, EmptyInOrder DEF ShownFirst
    <3>2. CASE h # current
      <4>1. handle[current].via # None => handle[current].via \in Sessions \ {s}
        BY <1>t, <2>1 DEF Typed, HandlesOK, HandleOK, Handle
      <4> QED  BY <1>t, <2>1, <3>2, <4>1 DEF ShownFirst
    <3> QED  BY <3>1, <3>2
  <2> QED  BY <2>1, <2>2, <2>3 DEF Delivery, ShownInOrder
<1>5. ASSUME NEW s \in Sessions, Gateway(s) PROVE Delivery'
  BY <1>5, DeliveryGateway
<1>6. ASSUME NEW u \in Users, Publish(u) PROVE Delivery'
  BY <1>6, DeliveryPublish
<1> QED  BY <1>1, <1>2, <1>3, <1>4, <1>5, <1>6 DEF Next

\* Whatever sockets, sessions, subscriptions and identities came and went, the
\* mobile app is given the notifications of a user in the order they were
\* published and none twice: only one handle listens, and the session it
\* listens to began after everything it was shown (live.ts:38-55,
\* main.go:84-95). Of the web client it is not true: two of its handles may
\* listen for the same user.
THEOREM OrderedOnce == Spec => [](ClearsTimer => InOrderOnce)
<1>1. Init => OwnEnds /\ Delivery
  <2> SUFFICES ASSUME Init PROVE OwnEnds /\ Delivery
    OBVIOUS
  <2>1. \A h \in Handles : handle[h].via = None
    <3>1. PICK u \in Users :
            handle = [h \in Handles |-> IF h = current THEN Connected(u) ELSE NoHandle]
      BY DEF Init
    <3> QED  BY <3>1, ConnectedOK DEF NoHandle
  <2>2. \A s \in Sessions : MailOK(session[s], sent)
    BY NoSessionOK, EmptyInOrder DEF Init, MailOK
  <2>3. ShownInOrder
    BY EmptyInOrder DEF Init, ShownInOrder
  <2>4. current \in Handles
    BY DEF Init
  <2> QED  BY <2>1, <2>2, <2>3, <2>4 DEF OwnEnds, Delivery, MailInOrder, ShownFirst
<1>2. Typed /\ Retired /\ OwnEnds /\ (ClearsTimer => Delivery) /\ [Next]_vars
        => OwnEnds' /\ (ClearsTimer => Delivery)'
  BY OwnEndsNext, DeliveryNext
<1>3. Spec => [](Typed /\ Retired /\ OwnEnds /\ (ClearsTimer => Delivery))
  BY <1>1, <1>2, RetiredInit, TypedInit, TypedNext, RetiredNext, PTL DEF Spec
<1>4. (ClearsTimer => Delivery) => (ClearsTimer => InOrderOnce)
  BY DEF Delivery, ShownInOrder, Rising, InOrderOnce
<1> QED  BY <1>3, <1>4, PTL

(***************************************************************************)
(* What Reconnects and SessionEnds rest on: nobody is left without a next  *)
(* step.                                                                   *)
(***************************************************************************)
Bound(h) == handle[h].ws \in {"opening", "open"}

\* The app's handle has a socket, or a reconnect scheduled.
Kept == \A h \in Handles : handle[h].live => Bound(h) \/ handle[h].timer

Runs(s) == session[s].loop /\ session[s].pump

\* A session loses its socket with the first of its goroutines, a socket that
\* is up has a client of the session's user, and the subscription ends with
\* the loop.
Bridge(s) ==
  /\ session[s].up => /\ Runs(s)
                      /\ \E h \in Handles : /\ Bound(h) /\ handle[h].via = s
                                            /\ handle[h].user = session[s].user
  /\ session[s].subscribed => session[s].loop
Bridged == \A s \in Sessions : Bridge(s)

LEMMA KeptNext ==
  ASSUME Typed, Kept, [Next]_vars
  PROVE  Kept'
<1>1. CASE UNCHANGED handle
  BY <1>1 DEF Kept, Bound
<1>2. ASSUME NEW h \in Handles, NEW u \in Users, Change(h, u) PROVE Kept'
  <2>1. /\ handle'[h] = Connected(u)
        /\ handle'[current] = Closed(handle[current])
        /\ \A q \in Handles \ {h, current} : handle'[q] = handle[q]
    BY <1>2, ChangeStep
  <2>2. ~Closed(handle[current]).live
    BY ClosedOK DEF Typed, RestOK, HandlesOK, OneLive
  <2>3. Connected(u).ws = "opening"
    BY DEF Connected, NoHandle
  <2> QED
    BY <2>1, <2>2, <2>3 DEF Kept, Bound
<1>3. ASSUME NEW h \in Handles, Reopen(h) \/ OnOpen(h) \/ OnMessage(h) PROVE Kept'
  <2>1. CASE Reopen(h)
    BY <2>1, ReopenStep DEF Kept, Bound
  <2>2. CASE OnOpen(h)
    BY <2>2, OnOpenStep DEF Kept, Bound
  <2>3. CASE OnMessage(h)
    BY <2>3, <1>1 DEF OnMessage, app
  <2> QED
    BY <1>3, <2>1, <2>2, <2>3
<1>4. ASSUME NEW h \in Handles, OnClose(h) PROVE Kept'
  <2>1. /\ handle \in [Handles -> Handle]
        /\ handle' = [handle EXCEPT ![h] =
             IF @.live THEN [@ EXCEPT !.ws = "none", !.via = None, !.timer = TRUE] ELSE NoHandle]
    BY <1>4 DEF OnClose, Typed, HandlesOK
  <2>2. handle'[h].live => handle'[h].timer
    BY <2>1 DEF Handle, NoHandle
  <2> QED
    BY <2>1, <2>2 DEF Kept, Bound
<1>5. ASSUME NEW h \in Handles, NEW s \in Sessions, Accept(h, s) PROVE Kept'
  BY <1>5, AcceptStep DEF Kept, Bound
<1>6. ASSUME NEW s \in Sessions, Gateway(s) PROVE Kept'
  BY <1>1, <1>6, GatewayStep
<1>7. ASSUME NEW u \in Users, Publish(u) PROVE Kept'
  BY <1>1, <1>7, PublishStep
<1>8. CASE UNCHANGED vars
  BY <1>1, <1>8 DEF vars, app
<1> QED
  BY <1>2, <1>3, <1>4, <1>5, <1>6, <1>7, <1>8 DEF Next, Client

\* Only messages differ.
SameLife(x, y) ==
  /\ y.loop = x.loop /\ y.pump = x.pump /\ y.up = x.up
  /\ y.user = x.user /\ y.subscribed = x.subscribed

\* The client end of a session is still there.
HoldsOn(g) ==
  /\ Bound(g)
  /\ g \in Handles
  /\ handle'[g].ws \in {"opening", "open"}
  /\ handle'[g].via = handle[g].via /\ handle'[g].user = handle[g].user

LEMMA BridgeKept ==
  ASSUME NEW s \in Sessions, Bridge(s), SameLife(session[s], session'[s]),
         \A g \in Handles : Bound(g) /\ handle[g].via = s => HoldsOn(g)
  PROVE  Bridge(s)'
BY DEF Bridge, SameLife, HoldsOn, Runs, Bound

\* A step of a session that leaves it as it was, or further from the app.
LEMMA BridgedAlone ==
  ASSUME Typed, Bridged, NEW s \in Sessions, UNCHANGED handle,
         \A q \in Sessions \ {s} : session'[q] = session[q],
         session'[s].subscribed => session'[s].loop,
         session'[s].up => /\ session[s].up /\ session'[s].loop /\ session'[s].pump
                           /\ session'[s].user = session[s].user
  PROVE  Bridged'
<1>1. ASSUME NEW q \in Sessions \ {s} PROVE Bridge(q)'
  BY <1>1 DEF Bridged, Bridge, Runs, Bound
<1>2. Bridge(s)'
  BY DEF Bridged, Bridge, Runs, Bound
<1> QED
  BY <1>1, <1>2 DEF Bridged

LEMMA BridgedGateway ==
  ASSUME Typed, Bridged, NEW s \in Sessions, Gateway(s)
  PROVE  Bridged'
<1>t. session \in [Sessions -> Session] /\ UNCHANGED handle /\ Bridge(s)
  BY GatewayStep DEF Typed, SessionsOK, Bridged
<1>r. CASE session' = Returned(s)
  BY <1>r, <1>t, BridgedAlone DEF Returned, UpAfter, Session
<1>1. CASE Subscribed(s)
  BY <1>1, <1>t, BridgedAlone DEF Subscribed, Session, Bridge, Runs
<1>2. CASE Forward(s) /\ session' # Returned(s)
  <2> DEFINE rest == [session[s] EXCEPT !.ch = Tail(@)]
             put  == [rest EXCEPT !.wire = Append(@, Head(session[s].ch))]
  <2>1. session' = [session EXCEPT ![s] = put] \/ session' = [session EXCEPT ![s] = rest]
    BY <1>2 DEF Forward
  <2>2. SameLife(session[s], session'[s]) /\ \A q \in Sessions \ {s} : session'[q] = session[q]
    BY <1>t, <2>1 DEF SameLife, Session
  <2> QED
    BY <1>t, <2>2, BridgedAlone DEF SameLife, Bridge, Runs
<1>3. CASE PumpEnds(s)
  BY <1>3, <1>t, BridgedAlone DEF PumpEnds, Session, Bridge, Runs
<1>4. CASE Disturb(s)
  <2>1. \/ \E quiet \in BOOLEAN :
             session' = [session EXCEPT ![s] = [@ EXCEPT !.up = FALSE, !.quiet = quiet]]
        \/ session' = [session EXCEPT ![s].subscribed = FALSE]
    BY <1>4 DEF Disturb
  <2>2. ASSUME NEW quiet \in BOOLEAN,
               session' = [session EXCEPT ![s] = [@ EXCEPT !.up = FALSE, !.quiet = quiet]]
        PROVE  Bridged'
    BY <1>t, <2>2, BridgedAlone DEF Session, Bridge
  <2>3. CASE session' = [session EXCEPT ![s].subscribed = FALSE]
    BY <1>t, <2>3, BridgedAlone DEF Session, Bridge, Runs
  <2> QED
    BY <2>1, <2>2, <2>3
<1>5. CASE Quit(s)
  BY <1>5, <1>r DEF Quit
<1> QED
  BY <1>r, <1>1, <1>2, <1>3, <1>4, <1>5 DEF Gateway

LEMMA BridgedClient ==
  ASSUME Typed, Bridged, OwnEnds, NEW h \in Handles, Client(h)
  PROVE  Bridged'
<1>b. ASSUME NEW s \in Sessions PROVE Bridge(s)
  BY <1>b DEF Bridged
<1>1. CASE Reopen(h)
  <2>1. ASSUME NEW s \in Sessions PROVE Bridge(s)'
    <3>1. \A g \in Handles : Bound(g) => HoldsOn(g)
      BY <1>1, ReopenStep DEF Bound, HoldsOn
    <3> QED
      BY <1>1, <1>b, <3>1, ReopenStep, BridgeKept DEF SameLife
  <2> QED
    BY <2>1 DEF Bridged
<1>2. CASE OnOpen(h)
  <2>1. ASSUME NEW s \in Sessions PROVE Bridge(s)'
    <3>1. \A g \in Handles : Bound(g) => HoldsOn(g)
      BY <1>2, OnOpenStep DEF Bound, HoldsOn
    <3> QED
      BY <1>2, <1>b, <3>1, OnOpenStep, BridgeKept DEF SameLife
  <2> QED
    BY <2>1 DEF Bridged
<1>3. CASE OnMessage(h)
  <2>1. /\ handle[h].via \in Sessions
        /\ session' = [session EXCEPT ![handle[h].via].wire = Tail(@)]
        /\ session \in [Sessions -> Session]
        /\ UNCHANGED handle
    BY <1>3, OnMessageStep DEF OnMessage, Typed, SessionsOK
  <2>2. ASSUME NEW s \in Sessions PROVE Bridge(s)'
    <3>1. SameLife(session[s], session'[s])
      BY <2>1 DEF SameLife, Session
    <3>2. \A g \in Handles : Bound(g) => HoldsOn(g)
      BY <2>1 DEF Bound, HoldsOn
    <3> QED
      BY <1>b, <3>1, <3>2, BridgeKept
  <2> QED
    BY <2>2 DEF Bridged
<1>4. CASE OnClose(h)
  <2> DEFINE v == handle[h].via
  <2>1. /\ \A q \in Sessions \ {v} : session'[q] = session[q]
        /\ \A g \in Handles \ {h} : handle'[g] = handle[g]
    BY <1>4, OnCloseStep
  <2>2. ASSUME NEW s \in Sessions \ {v} PROVE Bridge(s)'
    <3>1. \A g \in Handles : Bound(g) /\ handle[g].via = s => HoldsOn(g)
      BY <2>1, <2>2 DEF HoldsOn, Bound
    <3> QED
      BY <1>b, <2>1, <2>2, <3>1, BridgeKept DEF SameLife
  <2>3. ASSUME NEW s \in Sessions, s = v PROVE Bridge(s)'
    <3>1. session' = [session EXCEPT ![s] = [@ EXCEPT !.up = FALSE, !.wire = <<>>]]
      BY <1>4, <2>3, LiveAssumption DEF OnClose
    <3>2. /\ ~session'[s].up
          /\ session'[s].loop = session[s].loop
          /\ session'[s].subscribed = session[s].subscribed
      BY <3>1 DEF Typed, SessionsOK, Session
    <3> QED
      BY <1>b, <3>2 DEF Bridge
  <2> QED
    BY <2>2, <2>3 DEF Bridged
<1> QED
  BY <1>1, <1>2, <1>3, <1>4 DEF Client

LEMMA BridgedNext ==
  ASSUME Typed, Bridged, OwnEnds, [Next]_vars
  PROVE  Bridged'
<1>b. ASSUME NEW s \in Sessions PROVE Bridge(s)
  BY <1>b DEF Bridged
<1>1. ASSUME NEW h \in Handles, NEW u \in Users, Change(h, u) PROVE Bridged'
  <2> DEFINE v == handle[current].via
  <2>1. /\ handle[h] = NoHandle
        /\ \A q \in Handles \ {h, current} : handle'[q] = handle[q]
    BY <1>1, ChangeStep
  <2>2. session' = Parted(v) /\ session \in [Sessions -> Session]
    BY <1>1 DEF Change, Typed, SessionsOK
  <2>3. ASSUME NEW s \in Sessions, s # v PROVE Bridge(s)'
    <3>1. session'[s] = session[s]
      BY <2>2, <2>3 DEF Parted
    <3>2. \A g \in Handles : Bound(g) /\ handle[g].via = s => HoldsOn(g)
      BY <2>1, <2>3 DEF HoldsOn, Bound, NoHandle
    <3> QED
      BY <1>b, <3>1, <3>2, BridgeKept DEF SameLife
  <2>4. ASSUME NEW s \in Sessions, s = v PROVE Bridge(s)'
    <3>1. session' = [session EXCEPT ![s].up = FALSE]
      BY <2>2, <2>4, LiveAssumption DEF Parted
    <3>2. /\ ~session'[s].up
          /\ session'[s].loop = session[s].loop
          /\ session'[s].subscribed = session[s].subscribed
      BY <2>2, <3>1 DEF Session
    <3> QED
      BY <1>b, <3>2 DEF Bridge
  <2> QED
    BY <2>3, <2>4 DEF Bridged
<1>2. ASSUME NEW h \in Handles, NEW s \in Sessions, Accept(h, s) PROVE Bridged'
  <2>1. /\ handle[h].via = None
        /\ handle'[h].ws = "opening" /\ handle'[h].via = s
        /\ handle'[h].user = handle[h].user
        /\ \A g \in Handles \ {h} : handle'[g] = handle[g]
        /\ \A q \in Sessions \ {s} : session'[q] = session[q]
    BY <1>2, AcceptStep DEF Accept
  <2>2. /\ session'[s].user = handle[h].user
        /\ session'[s].loop /\ session'[s].pump /\ ~session'[s].subscribed
    BY <1>2 DEF Accept, NoSession, Typed, SessionsOK
  <2>3. ASSUME NEW q \in Sessions \ {s} PROVE Bridge(q)'
    <3>1. \A g \in Handles : Bound(g) /\ handle[g].via = q => HoldsOn(g)
      BY <2>1, LiveAssumption DEF HoldsOn, Bound
    <3> QED
      BY <1>b, <2>1, <3>1, BridgeKept DEF SameLife
  <2>4. Bridge(s)'
    BY <2>1, <2>2 DEF Bridge, Runs, Bound
  <2> QED
    BY <2>3, <2>4 DEF Bridged
<1>3. ASSUME NEW u \in Users, Publish(u) PROVE Bridged'
  <2>1. UNCHANGED handle
    BY <1>3 DEF Publish, app
  <2>2. ASSUME NEW s \in Sessions PROVE Bridge(s)'
    <3>1. SameLife(session[s], session'[s])
      BY <1>3 DEF Publish, SameLife, Typed, SessionsOK, Session
    <3>2. \A g \in Handles : Bound(g) => HoldsOn(g)
      BY <2>1 DEF HoldsOn, Bound
    <3> QED
      BY <1>b, <3>1, <3>2, BridgeKept
  <2> QED
    BY <2>2 DEF Bridged
<1>4. CASE UNCHANGED vars
  BY <1>4 DEF vars, app, Bridged, Bridge, Runs, Bound
<1> QED
  BY <1>1, <1>2, <1>3, <1>4, BridgedClient, BridgedGateway DEF Next

LEMMA BridgedInit == Init => OwnEnds /\ Kept /\ Bridged
<1> SUFFICES ASSUME Init PROVE OwnEnds /\ Kept /\ Bridged
  OBVIOUS
<1>1. PICK u \in Users :
        handle = [h \in Handles |-> IF h = current THEN Connected(u) ELSE NoHandle]
  BY DEF Init
<1>2. \A h \in Handles : /\ handle[h].via = None
                         /\ handle[h].live => handle[h].ws = "opening"
  BY <1>1 DEF Connected, NoHandle
<1>3. \A s \in Sessions : ~session[s].up /\ ~session[s].subscribed
  BY DEF Init, NoSession
<1> QED
  BY <1>2, <1>3 DEF OwnEnds, Kept, Bound, Bridged, Bridge

\* The safety half of Reconnects: the app always has a reconnect scheduled, a
\* socket the gateway may take, or one that a session of the same user serves
\* until it is cut; then its close event is due, unless the cut was silent
\* (live.js:24-28, live.ts:44-47, main.go:54-76).
NeverStranded ==
  LET c == handle[current] IN
  \/ c.timer
  \/ c.ws = "opening" /\ c.via = None
  \/ /\ c.ws \in {"opening", "open"}
     /\ c.via \in Sessions
     /\ session[c.via].up => Runs(c.via) /\ session[c.via].user = c.user

THEOREM AppNeverStranded == Spec => []NeverStranded
<1> DEFINE Inv == Typed /\ OwnEnds /\ Kept /\ Bridged
<1>1. Init => OwnEnds /\ Kept /\ Bridged
  BY BridgedInit
<1>2. Spec => []Inv
  BY <1>1, TypedInit, TypedNext, OwnEndsNext, KeptNext, BridgedNext, PTL DEF Spec
<1>3. Inv => NeverStranded
  <2> SUFFICES ASSUME Inv PROVE NeverStranded
    OBVIOUS
  <2> DEFINE c == handle[current]
  <2>1. /\ HandleOK(c) /\ c.live /\ current \in Handles
        /\ c.via \in Sessions \cup {None}
    BY DEF Typed, HandlesOK, OneLive, RestOK, HandleOK, Handle
  <2>2. c.timer \/ c.ws \in {"opening", "open"}
    BY <2>1 DEF Kept, Bound
  <2>3. ASSUME c.ws \in {"opening", "open"}, c.via \in Sessions, session[c.via].up
        PROVE  Runs(c.via) /\ session[c.via].user = c.user
    <3>1. PICK g \in Handles : handle[g].via = c.via /\ handle[g].user = session[c.via].user
      BY <2>3 DEF Bridged, Bridge
    <3>2. g = current
      BY <2>1, <2>3, <3>1, LiveAssumption DEF OwnEnds
    <3> QED
      BY <2>3, <3>1, <3>2 DEF Bridged, Bridge
  <2> QED
    BY <2>1, <2>2, <2>3 DEF NeverStranded, HandleOK
<1> QED
  BY <1>2, <1>3, PTL

\* The safety half of SessionEnds: when one goroutine of serveWS has gone the
\* socket has too, which is what ends the other, and Redis keeps no
\* subscription that no loop reads (main.go:58-64, 69-76).
THEOREM GoroutinesGoTogether ==
  Spec => [](\A s \in Sessions : /\ ~Runs(s) => ~session[s].up
                                 /\ session[s].subscribed => session[s].loop)
<1> DEFINE Inv == Typed /\ OwnEnds /\ Bridged
<1>1. Init => OwnEnds /\ Bridged
  BY BridgedInit
<1>2. Spec => []Inv
  BY <1>1, TypedInit, TypedNext, OwnEndsNext, BridgedNext, PTL DEF Spec
<1>3. Inv => \A s \in Sessions : /\ ~Runs(s) => ~session[s].up
                                 /\ session[s].subscribed => session[s].loop
  BY DEF Bridged, Bridge
<1> QED
  BY <1>2, <1>3, PTL
================================================================================
