------------------------ MODULE ClientSessionProofs ------------------------
(***************************************************************************)
(* Proofs about ClientSession, for any interfaces, profiles and numbers of *)
(* polls, requests, moves and faults: a client has one connection, a       *)
(* command is carried out as often as its caller is told, and one drop of  *)
(* a live connection does not fail an operation.                           *)
(***************************************************************************)
EXTENDS ClientSession, TLAPS

-----------------------------------------------------------------------------
(* One connection. *)

\* A session s with one connection at most, and its key.
Sound(s) ==
  /\ {"conn", "open", "key", "wire", "frames"} \subseteq DOMAIN s
  /\ s.open \subseteq {s.conn}
  /\ s.key # 0 => s.key = s.conn

SessionSound == Sound(session)

LEMMA NoSessionSound ==
  /\ Sound(NoSession) /\ NoSession.conn = 0 /\ NoSession.key = 0 /\ NoSession.open = {}
  /\ "alive" \in DOMAIN NoSession
  BY DEF Sound, NoSession

\* Closing leaves nothing open.
LEMMA ClosedSound ==
  ASSUME NEW s, Sound(s)
  PROVE  Sound(Closed(s)) /\ Closed(s).open = {} /\ Closed(s).key = 0
  <1>1. s.open \ {s.conn} = {}
    BY DEF Sound
  <1>2. Closed(s) = [NoSession EXCEPT !.open = {}]
    BY <1>1 DEF Closed
  <1>3. /\ DOMAIN Closed(s) = DOMAIN NoSession
        /\ Closed(s).open = {} /\ Closed(s).conn = NoSession.conn
        /\ Closed(s).key = NoSession.key
    BY <1>2, NoSessionSound DEF Sound
  <1>4. QED
    BY <1>3, NoSessionSound DEF Sound

\* What is changed on the way keeps the connection, its key and what is open.
LEMMA WaySound ==
  ASSUME NEW s, NEW t, Sound(s), DOMAIN t = DOMAIN s,
         t.conn = s.conn, t.open = s.open, t.key = s.key
  PROVE  Sound(t)
  BY DEF Sound

LEMMA OutcomeFields ==
  ASSUME NEW s, NEW o, NEW reply
  PROVE  /\ Goes(s, o).session = s /\ Ends(s, o, reply).session = s
         /\ Goes(s, o).op = o /\ Ends(s, o, reply).op = Idle
         /\ Goes(s, o).reply = "none" /\ Ends(s, o, reply).reply = reply
         /\ Goes(s, o).of = o /\ Ends(s, o, reply).of = o
  BY DEF Goes, Ends

\* An exception keeps the session or closes it.
LEMMA FailedSound ==
  ASSUME NEW s, NEW o, NEW error, Sound(s)
  PROVE  Sound(Failed(s, o, error).session)
  <1>1. Failed(s, o, error).session \in {s, Closed(s)}
    BY OutcomeFields DEF Failed
  <1>2. QED
    BY <1>1, ClosedSound

LEMMA RegisterReadSound ==
  ASSUME NEW s, NEW o, NEW f, Sound(s)
  PROVE  Sound(RegisterRead(s, o, f).session)
  <1>1. \/ \E error : RegisterRead(s, o, f) = Failed(s, Hurt(o), error)
        \/ \E next : RegisterRead(s, o, f) = Goes(s, next)
        \/ RegisterRead(s, o, f) = Ends(s, o, "ok")
    BY DEF RegisterRead
  <1>2. QED
    BY <1>1, FailedSound, OutcomeFields

LEMMA AnsweredSound ==
  ASSUME NEW s, NEW o, NEW f, Sound(s)
  PROVE  Sound(Answered(s, o, f).session)
  <1>1. Sound(Connected(s, o, f).session)
    <2>1. CASE f.body = "ok"
      <3> DEFINE t == [s EXCEPT !.key = s.conn, !.sequence = 1]
      <3>1. /\ DOMAIN t = DOMAIN s
            /\ t.conn = s.conn /\ t.open = s.open /\ t.key = s.conn
        BY DEF Sound
      <3>2. Sound(t)
        BY <3>1 DEF Sound
      <3>3. Connected(s, o, f) = Goes(t, [o EXCEPT !.at = "send"])
        BY <2>1 DEF Connected
      <3> HIDE DEF t
      <3>4. QED
        BY <3>2, <3>3, OutcomeFields
    <2>2. CASE f.body # "ok"
      <3>1. \E error : Connected(s, o, f) = Failed(s, Hurt(o), error)
        BY <2>2 DEF Connected
      <3>2. QED
        BY <3>1, FailedSound
    <2>3. QED
      BY <2>1, <2>2
  <1>2. \/ Answered(s, o, f) = Connected(s, o, f)
        \/ Answered(s, o, f) = RegisterRead(s, o, f)
        \/ Answered(s, o, f) = Goes(s, [o EXCEPT !.at = "listening", !.seen = @ \cup {f.body}])
        \/ Answered(s, o, f) = Ends(s, o, "ok")
        \/ Answered(s, o, f) = Failed(s, Hurt(o), "connection")
    BY DEF Answered
  <1>3. QED
    BY <1>1, <1>2, RegisterReadSound, FailedSound, OutcomeFields

-----------------------------------------------------------------------------
(* The steps keep it. *)

LEMMA OpenSound ==
  ASSUME Sound(session), Open
  PROVE  Sound(session')
  <1> DEFINE s == Ensured(session)
  <1>1. s.open = {} /\ s.key = 0 /\ Sound(s)
    BY ClosedSound DEF Ensured
  <1> HIDE DEF s
  <1>2. PICK c \in 1..3 \ s.open :
          session' = Goes([s EXCEPT !.conn = c, !.alive = TRUE, !.open = @ \cup {c}],
                          [op EXCEPT !.at = "connect"]).session
    BY DEF Open, Outcome, s
  <1> DEFINE t == [s EXCEPT !.conn = c, !.alive = TRUE, !.open = @ \cup {c}]
  <1>3. DOMAIN t = DOMAIN s /\ t.conn = c /\ t.open = s.open \cup {c} /\ t.key = s.key
    BY <1>1 DEF Sound
  <1>4. Sound(t)
    BY <1>1, <1>3 DEF Sound
  <1> HIDE DEF t
  <1>5. session' = t
    BY <1>2, OutcomeFields DEF t
  <1>6. QED
    BY <1>4, <1>5

LEMMA OpenFailsSound ==
  ASSUME Sound(session), OpenFails
  PROVE  Sound(session')
  <1>1. Sound(Ensured(session))
    BY ClosedSound DEF Ensured
  <1>2. \/ session' = Failed(Ensured(session), Hurt(op), "connection").session
        \/ session' = Goes(Ensured(session), [Hurt(op) EXCEPT !.tries = @ + 1]).session
    BY DEF OpenFails, Outcome
  <1>3. QED
    BY <1>1, <1>2, FailedSound, OutcomeFields

LEMMA SendSound ==
  ASSUME Sound(session), Send
  PROVE  Sound(session')
  <1> DEFINE connecting == op.at = "connect"
             id == IF connecting THEN 0 ELSE session.sequence
             type == IF connecting THEN "CONNECT" ELSE TypeOf(op.kind)
             sent == [session EXCEPT !.sequence = IF connecting THEN @ ELSE @ + 1,
                        !.wire = Append(@, [type |-> type, id |-> id, request |-> op.request])]
  <1>1. \/ session' = Failed(session, op, "connection").session
        \/ session' = Goes(sent, [op EXCEPT !.at = IF connecting THEN "connecting" ELSE "sent",
                                             !.awaits = id, !.seen = {}]).session
    BY DEF Send, Outcome
  <1>2. /\ DOMAIN sent = DOMAIN session /\ sent.conn = session.conn
        /\ sent.open = session.open /\ sent.key = session.key
    BY DEF Sound
  <1> HIDE DEF sent, type, id, connecting
  <1>3. Sound(sent)
    BY <1>2, WaySound
  <1>4. QED
    BY <1>1, <1>3, FailedSound, OutcomeFields

LEMMA AnswerSound ==
  ASSUME Sound(session), Answer
  PROVE  Sound(session')
  <1>1. PICK body \in Bodies(Head(session.wire).type) :
          session' = [session EXCEPT
                        !.wire = Tail(@),
                        !.frames = Append(@, [type |-> Head(session.wire).type,
                                              id |-> Head(session.wire).id, body |-> body])]
    BY DEF Answer
  <1>2. /\ DOMAIN session' = DOMAIN session /\ session'.conn = session.conn
        /\ session'.open = session.open /\ session'.key = session.key
    BY <1>1 DEF Sound
  <1>3. QED
    BY <1>2 DEF Sound

LEMMA GateChangesSound ==
  ASSUME Sound(session), GateChanges
  PROVE  Sound(session')
  <1>1. \/ session' = session
        \/ session' = [session EXCEPT !.frames =
                         Append(@, [type |-> "EVENT", id |-> 0, body |-> "ok"])]
    BY DEF GateChanges
  <1>2. /\ DOMAIN session' = DOMAIN session /\ session'.conn = session.conn
        /\ session'.open = session.open /\ session'.key = session.key
    BY <1>1 DEF Sound
  <1>3. QED
    BY <1>2 DEF Sound

LEMMA DropSound ==
  ASSUME Sound(session), Drop
  PROVE  Sound(session')
  <1>1. PICK arriving \in {session.frames, <<>>} :
          session' = [session EXCEPT !.alive = FALSE, !.wire = <<>>, !.frames = arriving]
    BY DEF Drop
  <1>2. /\ DOMAIN session' = DOMAIN session /\ session'.conn = session.conn
        /\ session'.open = session.open /\ session'.key = session.key
    BY <1>1 DEF Sound
  <1>3. QED
    BY <1>2 DEF Sound

LEMMA ReceiveSound ==
  ASSUME Sound(session), Receive
  PROVE  Sound(session')
  <1> DEFINE s == [session EXCEPT !.frames = Tail(@)]
             f == Head(session.frames)
  <1>1. /\ DOMAIN s = DOMAIN session /\ s.conn = session.conn
        /\ s.open = session.open /\ s.key = session.key
    BY DEF Sound
  <1>2. \/ session' = Answered(s, op, f).session
        \/ session' = Goes(s, [op EXCEPT !.seen = IF Awaiting /\ op.kind = "nhk"
                                                   THEN @ \cup {f.body} ELSE @]).session
    BY DEF Receive, Outcome
  <1> HIDE DEF s, f
  <1>3. Sound(s)
    BY <1>1, WaySound
  <1>4. QED
    BY <1>2, <1>3, AnsweredSound, OutcomeFields

\* An exchange that ends without its answer.
LEMMA ExchangeEndsSound ==
  ASSUME Sound(session), ListenEnds \/ TimedOut \/ Broken
  PROVE  Sound(session')
  <1>1. ASSUME NEW o, StatusParsed(o)
        PROVE  Sound(session')
    <2>1. \/ session' = Ends(session, o, "ok").session
          \/ session' = Failed(session, Hurt(o), "connection").session
      BY <1>1 DEF StatusParsed, Outcome
    <2>2. QED
      BY <2>1, FailedSound, OutcomeFields
  <1>2. CASE session' = Failed(session, Hurt(op), "connection").session
    BY <1>2, FailedSound
  <1>3. \/ \E o : StatusParsed(o)
        \/ session' = Failed(session, Hurt(op), "connection").session
    BY DEF ListenEnds, TimedOut, Broken, Outcome
  <1>4. QED
    BY <1>1, <1>2, <1>3

LEMMA BeginSound ==
  ASSUME Sound(session), NEW c \in Callers, Begin(c)
  PROVE  Sound(session')
  <1>1. \E o : \/ session' = Ends(Closed(session), o, "ok").session
               \/ session' = Goes(session, o).session
    BY DEF Begin, Outcome
  <1>2. QED
    BY <1>1, ClosedSound, OutcomeFields

LEMMA SoundStep == SessionSound /\ [Next]_vars => SessionSound'
  <1> SUFFICES ASSUME Sound(session), [Next]_vars PROVE Sound(session')
    BY DEF SessionSound
  <1>1. ASSUME NEW c \in Callers, Begin(c) PROVE Sound(session')
    BY <1>1, BeginSound
  <1>2. CASE Open \/ OpenFails \/ Send \/ Receive \/ ListenEnds \/ TimedOut \/ Broken
    BY <1>2, OpenSound, OpenFailsSound, SendSound, ReceiveSound, ExchangeEndsSound
  <1>3. CASE Answer \/ GateChanges \/ Drop
    BY <1>3, AnswerSound, GateChangesSound, DropSound
  <1>4. CASE \/ PollBegins \/ PollGoesOn \/ UserAsks \/ UserGoesOn \/ Unload \/ Unloaded
             \/ UNCHANGED vars
    BY <1>4 DEF PollBegins, PollGoesOn, UserAsks, UserGoesOn, Unload, Unloaded, vars
  <1>5. QED
    BY <1>1, <1>2, <1>3, <1>4 DEF Next

\* client.py 468-496: whatever fails when, the client closes a connection before
\* it opens the next, and never signs with the key of another one.
THEOREM OneConnection == Spec => []OneSession
  <1>1. Init => SessionSound
    BY NoSessionSound DEF Init, SessionSound
  <1>2. SessionSound => OneSession
    BY DEF SessionSound, Sound, OneSession
  <1>3. QED
    BY SoundStep, <1>1, <1>2, PTL DEF Spec

-----------------------------------------------------------------------------
(* Code 14 comes only from an interface without DMP. *)

Honest(f) == device.dmp => f.body # "code14"
\* Frames come of a set whose members are honest.
Clean(frames) == \E S : frames \in Seq(S) /\ \A f \in S : Honest(f)

LEMMA CleanHead ==
  ASSUME NEW frames, Clean(frames), frames # <<>>
  PROVE  Honest(Head(frames)) /\ Clean(Tail(frames))
  <1>1. PICK S : frames \in Seq(S) /\ \A f \in S : Honest(f)
    BY DEF Clean
  <1>2. Head(frames) \in S /\ Tail(frames) \in Seq(S)
    BY <1>1
  <1>3. QED
    BY <1>1, <1>2 DEF Clean

LEMMA CleanAppend ==
  ASSUME NEW frames, Clean(frames), NEW f, Honest(f)
  PROVE  Clean(Append(frames, f))
  <1>1. PICK S : frames \in Seq(S) /\ \A g \in S : Honest(g)
    BY DEF Clean
  <1>2. frames \in Seq(S \cup {f})
    BY <1>1
  <1>3. Append(frames, f) \in Seq(S \cup {f})
    BY <1>2
  <1>4. \A g \in S \cup {f} : Honest(g)
    BY <1>1
  <1>5. QED
    BY <1>3, <1>4 DEF Clean

LEMMA CleanEmpty == Clean(<<>>)
  <1> DEFINE none == {}
  <1>1. <<>> \in Seq(none) /\ \A f \in none : Honest(f)
    OBVIOUS
  <1> HIDE DEF none
  <1>2. QED
    BY <1>1 DEF Clean

LEMMA BodiesHonest ==
  ASSUME NEW type, NEW body \in Bodies(type), device.dmp
  PROVE  body # "code14"
  BY DEF Bodies

\* What an operation makes of its step: clean frames and an honest reply.
Truthful(out) == Clean(out.session.frames) /\ (device.dmp => out.reply # "code14")

LEMMA ClosedClean == ASSUME NEW s PROVE Clean(Closed(s).frames)
  <1>1. Closed(s).frames = NoSession.frames
    BY DEF Closed, NoSession
  <1>2. QED
    BY <1>1, CleanEmpty DEF NoSession

LEMMA GoesTruthful ==
  ASSUME NEW s, NEW o, Clean(s.frames)
  PROVE  Truthful(Goes(s, o)) /\ Truthful(Ends(s, o, "ok"))
  BY OutcomeFields DEF Truthful

LEMMA FailedTruthful ==
  ASSUME NEW s, NEW o, NEW error, Clean(s.frames), device.dmp => error # "code14"
  PROVE  Truthful(Failed(s, o, error))
  <1>1. /\ Failed(s, o, error).session \in {s, Closed(s)}
        /\ Failed(s, o, error).reply \in {"none", error}
    BY OutcomeFields DEF Failed
  <1>2. QED
    BY <1>1, ClosedClean DEF Truthful

LEMMA AnsweredTruthful ==
  ASSUME NEW s, NEW o, NEW f, Clean(s.frames), Honest(f), "frames" \in DOMAIN s
  PROVE  Truthful(Answered(s, o, f))
  <1>1. Truthful(Connected(s, o, f))
    <2> DEFINE t == [s EXCEPT !.key = s.conn, !.sequence = 1]
    <2>1. t.frames = s.frames
      OBVIOUS
    <2>2. \/ Connected(s, o, f) = Goes(t, [o EXCEPT !.at = "send"])
          \/ Connected(s, o, f) = Failed(s, Hurt(o), "auth")
          \/ Connected(s, o, f) = Failed(s, Hurt(o), "connection")
      BY DEF Connected
    <2> HIDE DEF t
    <2>3. Clean(t.frames)
      BY <2>1
    <2>4. QED
      BY <2>2, <2>3, GoesTruthful, FailedTruthful
  <1>2. Truthful(RegisterRead(s, o, f))
    <2>1. \/ /\ f.body = "code14"
             /\ RegisterRead(s, o, f) = Failed(s, Hurt(o), "code14")
          \/ RegisterRead(s, o, f) = Failed(s, Hurt(o), "connection")
          \/ \E next : RegisterRead(s, o, f) = Goes(s, next)
          \/ RegisterRead(s, o, f) = Ends(s, o, "ok")
      BY DEF RegisterRead
    <2>2. QED
      BY <2>1, GoesTruthful, FailedTruthful DEF Honest
  <1>3. \/ Answered(s, o, f) = Connected(s, o, f)
        \/ Answered(s, o, f) = RegisterRead(s, o, f)
        \/ Answered(s, o, f) = Goes(s, [o EXCEPT !.at = "listening", !.seen = @ \cup {f.body}])
        \/ Answered(s, o, f) = Ends(s, o, "ok")
        \/ Answered(s, o, f) = Failed(s, Hurt(o), "connection")
    BY DEF Answered
  <1>4. QED
    BY <1>1, <1>2, <1>3, GoesTruthful, FailedTruthful

-----------------------------------------------------------------------------
(* How the poll leaves DMP. *)

Poll == caller["poll"]
PollTypes ==
  /\ DOMAIN caller = Callers /\ {"why", "reply"} \subseteq DOMAIN Poll
  /\ poller \in [mode : {"dmp", "nhk", "command"}, info : BOOLEAN]

\* Where the poll is says what it has learned.
PollInv ==
  /\ Poll.reply = "code14" => ~device.dmp
  /\ Poll.why \in {"fallback", "switch"} => ~device.dmp
  /\ Poll.why = "switch" => device.readable /\ poller.info

ModeInv == SessionSound /\ Clean(session.frames) /\ PollTypes /\ PollInv
           /\ DowngradeOnlyWithoutDmp

\* A step of an operation leaves the poll where it is, at most with a reply.
LEMMA OutcomeStep ==
  ASSUME ModeInv, SessionSound', NEW out, Outcome(out), Truthful(out)
  PROVE  ModeInv'
  <1>1. session' = out.session /\ device' = device /\ poller' = poller
    BY DEF Outcome, fixedVars
  <1>2. Clean(session.frames)'
    BY <1>1 DEF Truthful, Clean, Honest
  <1>3. /\ DOMAIN caller' = Callers /\ {"why", "reply"} \subseteq DOMAIN caller'["poll"]
        /\ caller'["poll"].why = caller["poll"].why
        /\ caller'["poll"].reply \in {caller["poll"].reply, out.reply}
    <2>1. CASE caller' = caller
      BY <2>1 DEF ModeInv, PollTypes, Poll
    <2>2. CASE caller' = [caller EXCEPT ![out.of.who].reply = out.reply,
                                        ![out.of.who].hurt = out.of.hurt]
      <3> DEFINE c1 == [caller EXCEPT ![out.of.who].reply = out.reply]
      <3>1. /\ DOMAIN c1 = Callers /\ {"why", "reply"} \subseteq DOMAIN c1["poll"]
            /\ c1["poll"].why = caller["poll"].why
            /\ c1["poll"].reply \in {caller["poll"].reply, out.reply}
        BY DEF ModeInv, PollTypes, Poll, Callers
      <3>2. caller' = [c1 EXCEPT ![out.of.who].hurt = out.of.hurt]
        BY <2>2
      <3> HIDE DEF c1
      <3>3. "poll" \in DOMAIN c1
        BY <3>1 DEF Callers
      <3>4. /\ DOMAIN caller' = DOMAIN c1 /\ DOMAIN caller'["poll"] = DOMAIN c1["poll"]
            /\ caller'["poll"].why = c1["poll"].why
            /\ caller'["poll"].reply = c1["poll"].reply
        BY <3>1, <3>2, <3>3
      <3>5. QED
        BY <3>1, <3>4
    <2>3. QED
      BY <2>1, <2>2 DEF Outcome
  <1>4. PollTypes'
    BY <1>1, <1>3 DEF ModeInv, PollTypes, Poll
  <1>5. PollInv'
    BY <1>1, <1>3 DEF ModeInv, PollInv, Poll, Truthful
  <1>6. DowngradeOnlyWithoutDmp'
    BY <1>1 DEF ModeInv, DowngradeOnlyWithoutDmp
  <1>7. QED
    BY <1>2, <1>4, <1>5, <1>6 DEF ModeInv

\* The steps of the operation that holds the lock.
LEMMA OperationStep ==
  ASSUME ModeInv, SessionSound',
         \/ \E c \in Callers : Begin(c)
         \/ Open \/ OpenFails \/ Send \/ Receive \/ ListenEnds \/ TimedOut \/ Broken
  PROVE  ModeInv'
  <1> SUFFICES \E out : Outcome(out) /\ Truthful(out)
    BY OutcomeStep
  <1>1. Clean(session.frames) /\ "frames" \in DOMAIN session
    BY DEF ModeInv, SessionSound, Sound
  <1>2. ASSUME NEW c \in Callers, Begin(c) PROVE \E out : Outcome(out) /\ Truthful(out)
    <2>1. PICK o : \/ Outcome(Ends(Closed(session), o, "ok"))
                   \/ Outcome(Goes(session, o))
      BY <1>2 DEF Begin
    <2>2. Clean(Closed(session).frames)
      BY ClosedClean
    <2>3. QED
      BY <1>1, <2>1, <2>2, GoesTruthful
  <1>3. CASE Open
    <2> DEFINE s == Ensured(session)
               t(c) == [s EXCEPT !.conn = c, !.alive = TRUE, !.open = @ \cup {c}]
    <2>1. Clean(s.frames)
      BY ClosedClean DEF Ensured
    <2>2. \A c : t(c).frames = s.frames
      OBVIOUS
    <2>3. PICK c \in 1..3 \ s.open : Outcome(Goes(t(c), [op EXCEPT !.at = "connect"]))
      BY <1>3 DEF Open
    <2> HIDE DEF s, t
    <2>4. Clean(t(c).frames)
      BY <2>1, <2>2
    <2>5. QED
      BY <2>3, <2>4, GoesTruthful
  <1>4. CASE OpenFails
    <2>1. Clean(Ensured(session).frames)
      BY ClosedClean DEF Ensured
    <2>2. \/ Outcome(Goes(Ensured(session), [Hurt(op) EXCEPT !.tries = @ + 1]))
          \/ Outcome(Failed(Ensured(session), Hurt(op), "connection"))
      BY <1>4 DEF OpenFails
    <2>3. QED
      BY <2>1, <2>2, GoesTruthful, FailedTruthful
  <1>5. CASE Send
    <2> DEFINE connecting == op.at = "connect"
               id == IF connecting THEN 0 ELSE session.sequence
               type == IF connecting THEN "CONNECT" ELSE TypeOf(op.kind)
               sent == [session EXCEPT !.sequence = IF connecting THEN @ ELSE @ + 1,
                          !.wire = Append(@, [type |-> type, id |-> id, request |-> op.request])]
    <2>1. sent.frames = session.frames
      OBVIOUS
    <2>2. \/ Outcome(Goes(sent, [op EXCEPT !.at = IF connecting THEN "connecting" ELSE "sent",
                                           !.awaits = id, !.seen = {}]))
          \/ Outcome(Failed(session, op, "connection"))
      BY <1>5 DEF Send
    <2> HIDE DEF connecting, id, type, sent
    <2>3. Clean(sent.frames)
      BY <1>1, <2>1
    <2>4. QED
      BY <1>1, <2>2, <2>3, GoesTruthful, FailedTruthful
  <1>6. CASE Receive
    <2> DEFINE s == [session EXCEPT !.frames = Tail(@)]
               f == Head(session.frames)
    <2>1. s.frames = Tail(session.frames) /\ "frames" \in DOMAIN s
      BY <1>1
    <2>2. \/ Outcome(Answered(s, op, f))
          \/ Outcome(Goes(s, [op EXCEPT !.seen = IF Awaiting /\ op.kind = "nhk"
                                                 THEN @ \cup {f.body} ELSE @]))
      BY <1>6 DEF Receive
    <2>3. session.frames # <<>>
      BY <1>6 DEF Receive
    <2>4. Honest(f) /\ Clean(Tail(session.frames))
      BY <1>1, <2>3, CleanHead
    <2> HIDE DEF s, f
    <2>5. Clean(s.frames)
      BY <2>1, <2>4
    <2>6. QED
      BY <2>1, <2>2, <2>4, <2>5, GoesTruthful, AnsweredTruthful
  <1>7. CASE ListenEnds \/ TimedOut \/ Broken
    <2>1. \/ \E o : StatusParsed(o)
          \/ Outcome(Failed(session, Hurt(op), "connection"))
      BY <1>7 DEF ListenEnds, TimedOut, Broken
    <2>2. ASSUME NEW o, StatusParsed(o) PROVE \E out : Outcome(out) /\ Truthful(out)
      <3>1. \/ Outcome(Ends(session, o, "ok"))
            \/ Outcome(Failed(session, Hurt(o), "connection"))
        BY <2>2 DEF StatusParsed
      <3>2. QED
        BY <1>1, <3>1, GoesTruthful, FailedTruthful
    <2>3. QED
      BY <1>1, <2>1, <2>2, FailedTruthful
  <1>8. QED
    BY <1>2, <1>3, <1>4, <1>5, <1>6, <1>7

\* The interface answers, reports or goes.
LEMMA InterfaceStep ==
  ASSUME ModeInv, SessionSound', Answer \/ GateChanges \/ Drop
  PROVE  ModeInv'
  <1>1. UNCHANGED <<device, caller, poller>>
    BY DEF Answer, GateChanges, Drop, callVars, fixedVars
  <1>2. Clean(session.frames) /\ "frames" \in DOMAIN session
    BY DEF ModeInv, SessionSound, Sound
  <1>3. \A S : Clean(S) => Clean(S)'
    BY <1>1 DEF Clean, Honest
  <1>4. Clean(session'.frames)
    <2>1. CASE Answer
      <3>1. PICK body \in Bodies(Head(session.wire).type) :
              session' = [session EXCEPT
                            !.wire = Tail(@),
                            !.frames = Append(@, [type |-> Head(session.wire).type,
                                                  id |-> Head(session.wire).id,
                                                  body |-> body])]
        BY <2>1 DEF Answer
      <3> DEFINE f == [type |-> Head(session.wire).type, id |-> Head(session.wire).id,
                       body |-> body]
      <3>2. session'.frames = Append(session.frames, f)
        BY <1>2, <3>1
      <3>3. Honest(f)
        BY BodiesHonest DEF Honest
      <3> HIDE DEF f
      <3>4. QED
        BY <1>2, <3>2, <3>3, CleanAppend
    <2>2. CASE GateChanges
      <3> DEFINE f == [type |-> "EVENT", id |-> 0, body |-> "ok"]
      <3>1. \/ session' = session
            \/ session' = [session EXCEPT !.frames = Append(@, f)]
        BY <2>2 DEF GateChanges
      <3>2. Honest(f)
        BY DEF Honest
      <3> HIDE DEF f
      <3>3. session'.frames \in {session.frames, Append(session.frames, f)}
        BY <1>2, <3>1
      <3>4. QED
        BY <1>2, <3>2, <3>3, CleanAppend
    <2>3. CASE Drop
      <3>1. PICK arriving \in {session.frames, <<>>} :
              session' = [session EXCEPT !.alive = FALSE, !.wire = <<>>, !.frames = arriving]
        BY <2>3 DEF Drop
      <3>2. session'.frames = arriving
        BY <1>2, <3>1
      <3>3. QED
        BY <1>2, <3>2, CleanEmpty
    <2>4. QED
      BY <2>1, <2>2, <2>3
  <1>5. Clean(session.frames)'
    BY <1>1, <1>4 DEF Clean, Honest
  <1>6. PollTypes' /\ PollInv' /\ DowngradeOnlyWithoutDmp'
    BY <1>1 DEF ModeInv, PollTypes, PollInv, Poll, DowngradeOnlyWithoutDmp
  <1>7. QED
    BY <1>5, <1>6 DEF ModeInv

-----------------------------------------------------------------------------
(* The callers. *)

LEMMA NoCallFields ==
  /\ {"why", "reply"} \subseteq DOMAIN NoCall /\ NoCall.reply = "none" /\ NoCall.why = "none"
  BY DEF NoCall

\* The poll has a next call, or none, which goes with what it knows.
LEMMA PollMoves ==
  ASSUME ModeInv, NEW call, caller' = [caller EXCEPT !["poll"] = call],
         {"why", "reply"} \subseteq DOMAIN call, call.reply = "none",
         device' = device, session' = session,
         poller' \in [mode : {"dmp", "nhk", "command"}, info : BOOLEAN],
         DowngradeOnlyWithoutDmp',
         call.why \in {"fallback", "switch"} => ~device.dmp,
         call.why = "switch" => device.readable /\ poller'.info
  PROVE  ModeInv'
  <1>1. DOMAIN caller' = Callers /\ caller'["poll"] = call
    BY DEF ModeInv, PollTypes, Callers
  <1>2. SessionSound' /\ Clean(session.frames)'
    BY DEF ModeInv, SessionSound, Clean, Honest
  <1>3. PollTypes' /\ PollInv'
    BY <1>1 DEF PollTypes, PollInv, Poll
  <1>4. QED
    BY <1>2, <1>3 DEF ModeInv

\* Another caller moves.
LEMMA OthersMove ==
  ASSUME ModeInv, UNCHANGED <<device, session, poller>>,
         DOMAIN caller' = Callers, caller'["poll"] = caller["poll"]
  PROVE  ModeInv'
  <1>1. SessionSound' /\ Clean(session.frames)' /\ DowngradeOnlyWithoutDmp'
    BY DEF ModeInv, SessionSound, Clean, Honest, DowngradeOnlyWithoutDmp
  <1>2. PollTypes' /\ PollInv'
    BY DEF ModeInv, PollTypes, PollInv, Poll
  <1>3. QED
    BY <1>1, <1>2 DEF ModeInv

LEMMA OtherCallersStep ==
  ASSUME ModeInv, UserAsks \/ UserGoesOn \/ Unload \/ Unloaded
  PROVE  ModeInv'
  <1>1. UNCHANGED <<device, session, poller>>
    BY DEF UserAsks, UserGoesOn, Unload, Unloaded, fixedVars
  <1>2. \E c \in {"user", "unload"} : \E call : caller' = [caller EXCEPT ![c] = call]
    BY DEF UserAsks, UserGoesOn, Unload, Unloaded, Calling
  <1>3. DOMAIN caller' = Callers /\ caller'["poll"] = caller["poll"]
    BY <1>2 DEF ModeInv, PollTypes, Callers
  <1>4. QED
    BY <1>1, <1>3, OthersMove

LEMMA PollBeginsStep ==
  ASSUME ModeInv, PollBegins
  PROVE  ModeInv'
  <1>1. UNCHANGED <<device, session, poller>>
    BY DEF PollBegins, fixedVars
  <1>2. CASE caller' = caller
    BY <1>1, <1>2, OthersMove DEF ModeInv, PollTypes
  <1>3. CASE caller' # caller
    <2>0. PICK why \in {"status", "prepare", "nhk"} : \E registers :
            caller' = [caller EXCEPT !["poll"] = [NoCall EXCEPT !.why = why,
                                          !.registers = registers, !.request = 0]]
      BY <1>3 DEF PollBegins, Calling
    <2>1. PICK registers :
            caller' = [caller EXCEPT !["poll"] = [NoCall EXCEPT !.why = why,
                                          !.registers = registers, !.request = 0]]
      BY <2>0
    <2> DEFINE call == [NoCall EXCEPT !.why = why, !.registers = registers, !.request = 0]
    <2>2. {"why", "reply"} \subseteq DOMAIN call /\ call.reply = "none" /\ call.why = why
      BY NoCallFields
    <2> HIDE DEF call
    <2>3. caller' = [caller EXCEPT !["poll"] = call]
      BY <2>1 DEF call
    <2>4. DowngradeOnlyWithoutDmp' /\ poller' \in [mode : {"dmp", "nhk", "command"},
                                                   info : BOOLEAN]
      BY <1>1 DEF ModeInv, PollTypes, DowngradeOnlyWithoutDmp
    <2>5. QED
      BY <1>1, <2>1, <2>2, <2>3, <2>4, PollMoves
  <1>4. QED
    BY <1>2, <1>3

\* What the job of a poll may do next.
Kept(step, p) ==
  step.poller \in {p, [p EXCEPT !.info = TRUE]} /\ step.why \notin {"fallback", "switch"}
LEMMA KeptSteps ==
  ASSUME NEW step, NEW p, step.why \notin {"fallback", "switch"},
         step.poller = p \/ step.poller = [p EXCEPT !.info = TRUE]
  PROVE  Kept(step, p)
  BY Zenon DEF Kept

LEMMA StepsCases ==
  ASSUME ModeInv, NEW step, step = Steps(Poll.why, Poll.reply, poller)
  PROVE  \/ Kept(step, poller)
         \/ /\ step.why = "fallback" /\ step.poller = poller /\ ~device.dmp
         \/ /\ step.why = "switch" /\ ~device.dmp /\ device.readable
            /\ \/ step.poller = poller /\ poller.info
               \/ step.poller = [poller EXCEPT !.info = TRUE]
         \/ /\ step.why = "none" /\ ~device.dmp /\ ~device.readable /\ device.actions
            /\ \/ step.poller = [poller EXCEPT !.mode = "command"] /\ poller.info
               \/ step.poller = [[poller EXCEPT !.info = TRUE] EXCEPT !.mode = "command"]
         \/ /\ Poll.why = "switch" /\ step.why = "none"
            /\ step.poller = [poller EXCEPT !.mode = "nhk"]
  <1> DEFINE known == [poller EXCEPT !.info = TRUE]
             Goes_(next, q) == [why |-> next, poller |-> q]
             Fallback(q) == CASE device.readable -> Goes_("switch", q)
                              [] ~device.readable /\ device.actions ->
                                    Goes_("none", [q EXCEPT !.mode = "command"])
                              [] OTHER -> Goes_("drop", q)
  <1>1. \/ \E next : /\ next \notin {"fallback", "switch"}
                     /\ step = Goes_(next, poller) \/ step = Goes_(next, known)
        \/ /\ Poll.reply = "code14"
           /\ IF poller.info THEN step = Fallback(poller) ELSE step = Goes_("fallback", poller)
        \/ Poll.why = "fallback" /\ step = Fallback(known)
        \/ Poll.why = "switch" /\ step = Goes_("none", [poller EXCEPT !.mode = "nhk"])
    <2> DEFINE plain == \E next : /\ next \notin {"fallback", "switch"}
                                  /\ step = Goes_(next, poller) \/ step = Goes_(next, known)
    <2>1. CASE Poll.why = "drop" \/ owner = "setup"
      <3>1. CASE Poll.why = "drop"
        <4>1. step = Goes_("none", poller)
          BY <3>1 DEF Steps
        <4>2. QED
          BY <4>1
      <3>2. CASE Poll.why # "drop" /\ owner = "setup"
        <4>1. \/ step = Goes_("identify", poller)
              \/ step = Goes_("confirm", poller) \/ step = Goes_("drop", poller)
          BY <3>2 DEF Steps
        <4>2. QED
          BY <4>1
      <3>3. QED
        BY <2>1, <3>1, <3>2
    <2>2. CASE Poll.why # "drop" /\ owner # "setup" /\ Poll.why # "switch"
               /\ Poll.reply # "code14" /\ Poll.why # "fallback"
      <3>1. \/ step = Goes_("none", poller) \/ step = Goes_("none", known)
            \/ step = Goes_("metadata", poller) \/ step = Goes_("drop", poller)
            \/ step = Goes_("nhk", known)
        BY <2>2 DEF Steps
      <3>2. QED
        BY <3>1
    <2>3. CASE Poll.why # "drop" /\ owner # "setup" /\ Poll.why = "switch"
      <3>1. \/ step = Goes_("none", [poller EXCEPT !.mode = "nhk"])
            \/ step = Goes_("drop", poller)
        BY <2>3 DEF Steps
      <3>2. QED
        BY <2>3, <3>1
    <2>4. CASE Poll.why # "drop" /\ owner # "setup" /\ Poll.why = "fallback"
      <3>1. step = Fallback(known) \/ step = Goes_("drop", poller)
        BY <2>4 DEF Steps
      <3>2. QED
        BY <2>4, <3>1
    <2>5. CASE /\ Poll.why # "drop" /\ owner # "setup" /\ Poll.why # "switch"
               /\ Poll.reply = "code14" /\ Poll.why # "fallback"
      <3>1. \/ step = Goes_("none", poller) \/ step = Goes_("drop", poller)
            \/ IF poller.info THEN step = Fallback(poller) ELSE step = Goes_("fallback", poller)
        BY <2>5 DEF Steps
      <3>2. QED
        BY <2>5, <3>1
    <2>6. QED
      BY <2>1, <2>2, <2>3, <2>4, <2>5
  <1>2. \A next, q : Goes_(next, q).why = next /\ Goes_(next, q).poller = q
    OBVIOUS
  <1>3. \A q : \/ device.readable /\ Fallback(q) = Goes_("switch", q)
               \/ /\ ~device.readable /\ device.actions
                  /\ Fallback(q) = Goes_("none", [q EXCEPT !.mode = "command"])
               \/ Fallback(q) = Goes_("drop", q)
    OBVIOUS
  <1>4. \/ Poll.reply = "code14" => ~device.dmp
    BY DEF ModeInv, PollInv
  <1>5. Poll.why = "fallback" => ~device.dmp
    BY DEF ModeInv, PollInv
  <1> HIDE DEF Goes_, Fallback
  <1>6. CASE \E next : /\ next \notin {"fallback", "switch"}
                       /\ step = Goes_(next, poller) \/ step = Goes_(next, known)
    <2>1. PICK next : /\ next \notin {"fallback", "switch"}
                      /\ step = Goes_(next, poller) \/ step = Goes_(next, known)
      BY <1>6
    <2>2. step.why = next /\ step.poller \in {poller, known}
      BY <1>2, <2>1
    <2>3. Kept(step, poller)
      BY <2>1, <2>2, KeptSteps
    <2>4. QED
      BY <2>3, Zenon
  <1>7. CASE Poll.reply = "code14"
             /\ IF poller.info THEN step = Fallback(poller) ELSE step = Goes_("fallback", poller)
    <2>0. ~device.dmp
      BY <1>4, <1>7
    <2>1. CASE ~poller.info
      <3>1. step = Goes_("fallback", poller)
        BY <1>7, <2>1
      <3>2. step.why = "fallback" /\ step.poller = poller
        BY <1>2, <3>1
      <3>3. QED
        BY <2>0, <3>2, Zenon
    <2>2. CASE poller.info
      <3>1. step = Fallback(poller)
        BY <1>7, <2>2
      <3>2. \/ device.readable /\ step.why = "switch" /\ step.poller = poller
            \/ /\ ~device.readable /\ device.actions /\ step.why = "none"
               /\ step.poller = [poller EXCEPT !.mode = "command"]
            \/ step.why = "drop" /\ step.poller = poller
        BY <1>2, <1>3, <3>1
      <3>3. step.why = "drop" /\ step.poller = poller => Kept(step, poller)
        BY KeptSteps
      <3>4. QED
        BY <2>0, <2>2, <3>2, <3>3, Zenon
    <2>3. QED
      BY <2>1, <2>2
  <1>8. CASE Poll.why = "fallback" /\ step = Fallback(known)
    <2>1. step = Fallback(known) /\ ~device.dmp
      BY <1>5, <1>8
    <2>2. \/ device.readable /\ step.why = "switch" /\ step.poller = known
          \/ /\ ~device.readable /\ device.actions /\ step.why = "none"
             /\ step.poller = [known EXCEPT !.mode = "command"]
          \/ step.why = "drop" /\ step.poller = known
      <3> DEFINE k == known
                 commanded == [k EXCEPT !.mode = "command"]
      <3>1. step = Fallback(k)
        BY <2>1
      <3>2. \/ device.readable /\ step = Goes_("switch", k)
            \/ /\ ~device.readable /\ device.actions
               /\ step = Goes_("none", commanded)
            \/ step = Goes_("drop", k)
        <4> HIDE DEF known
        <4>1. QED
          BY <1>3, <3>1, Zenon
      <3> HIDE DEF k, commanded
      <3>3. \/ device.readable /\ step.why = "switch" /\ step.poller = k
            \/ /\ ~device.readable /\ device.actions /\ step.why = "none"
               /\ step.poller = commanded
            \/ step.why = "drop" /\ step.poller = k
        BY <1>2, <3>2
      <3>4. QED
        BY <3>3, Zenon DEF k, commanded
    <2>3. step.why = "drop" /\ step.poller = known => Kept(step, poller)
      BY KeptSteps
    <2>4. QED
      BY <2>1, <2>2, <2>3, Zenon
  <1>9. CASE Poll.why = "switch" /\ step = Goes_("none", [poller EXCEPT !.mode = "nhk"])
    BY <1>2, <1>9
  <1>10. QED
    BY <1>1, <1>6, <1>7, <1>8, <1>9

LEMMA PollerFields ==
  ASSUME PollTypes
  PROVE  /\ [poller EXCEPT !.info = TRUE] = [mode |-> poller.mode, info |-> TRUE]
         /\ \A m : /\ [poller EXCEPT !.mode = m] = [mode |-> m, info |-> poller.info]
                   /\ [[poller EXCEPT !.info = TRUE] EXCEPT !.mode = m]
                        = [mode |-> m, info |-> TRUE]
  <1>1. PICK m0, i0 : poller = [mode |-> m0, info |-> i0]
    BY DEF PollTypes
  <1>2. \A j : [[mode |-> m0, info |-> i0] EXCEPT !.info = j] = [mode |-> m0, info |-> j]
    OBVIOUS
  <1>3. \A m, i : [[mode |-> m0, info |-> i] EXCEPT !.mode = m] = [mode |-> m, info |-> i]
    OBVIOUS
  <1>4. poller.mode = m0 /\ poller.info = i0
    BY <1>1
  <1>5. [poller EXCEPT !.info = TRUE] = [mode |-> m0, info |-> TRUE]
    BY <1>1, <1>2, Zenon
  <1>6. \A m : [poller EXCEPT !.mode = m] = [mode |-> m, info |-> i0]
    BY <1>1, <1>3, Zenon
  <1>7. \A m : [[poller EXCEPT !.info = TRUE] EXCEPT !.mode = m] = [mode |-> m, info |-> TRUE]
    BY <1>3, <1>5, Zenon
  <1>8. QED
    BY <1>4, <1>5, <1>6, <1>7, Zenon

LEMMA PollGoesOnStep ==
  ASSUME ModeInv, PollGoesOn
  PROVE  ModeInv'
  <1>1. PICK step \in {Steps(Poll.why, Poll.reply, poller)} :
          /\ poller' = step.poller
          /\ caller' = [caller EXCEPT !["poll"] =
                           IF step.why = "none" THEN NoCall ELSE [NoCall EXCEPT !.why = step.why]]
    BY DEF PollGoesOn, Poll
  <1> DEFINE call == IF step.why = "none" THEN NoCall ELSE [NoCall EXCEPT !.why = step.why]
  <1>2. {"why", "reply"} \subseteq DOMAIN call /\ call.reply = "none" /\ call.why = step.why
    BY NoCallFields
  <1>3. caller' = [caller EXCEPT !["poll"] = call]
    BY <1>1
  <1> HIDE DEF call
  <1>4. device' = device /\ session' = session
    BY DEF PollGoesOn, fixedVars
  <1>5. /\ poller \in [mode : {"dmp", "nhk", "command"}, info : BOOLEAN]
        /\ DowngradeOnlyWithoutDmp
        /\ Poll.why = "switch" => ~device.dmp /\ device.readable /\ poller.info
    BY DEF ModeInv, PollTypes, PollInv
  <1> DEFINE to(m, i) == [mode |-> m, info |-> i]
  <1>6. \/ Kept(step, poller)
        \/ step.why = "fallback" /\ step.poller = poller /\ ~device.dmp
        \/ /\ step.why = "switch" /\ ~device.dmp /\ device.readable
           /\ step.poller = to(poller.mode, TRUE)
        \/ /\ step.why = "none" /\ ~device.dmp /\ ~device.readable /\ device.actions
           /\ step.poller = to("command", TRUE)
        \/ /\ step.why = "none" /\ ~device.dmp /\ device.readable
           /\ step.poller = to("nhk", TRUE)
    <2>1. poller.info => poller = to(poller.mode, TRUE)
      BY <1>5
    <2>2. \A m : poller.info => [poller EXCEPT !.mode = m] = to(m, TRUE)
      BY <1>5, PollerFields DEF ModeInv
    <2>3. /\ [poller EXCEPT !.info = TRUE] = to(poller.mode, TRUE)
          /\ [[poller EXCEPT !.info = TRUE] EXCEPT !.mode = "command"] = to("command", TRUE)
      BY PollerFields DEF ModeInv
    <2> HIDE DEF to
    <2>4. QED
      BY <1>5, <2>1, <2>2, <2>3, StepsCases, Zenon
  <1>7. Kept(step, poller) => /\ step.poller \in {poller, to(poller.mode, TRUE)}
                              /\ step.why \notin {"fallback", "switch"}
    BY PollerFields DEF Kept, ModeInv
  <1>8. poller' \in [mode : {"dmp", "nhk", "command"}, info : BOOLEAN]
    <2>1. \A m \in {poller.mode, "command", "nhk"} :
            to(m, TRUE) \in [mode : {"dmp", "nhk", "command"}, info : BOOLEAN]
      BY <1>5
    <2>2. \/ poller' = poller
          \/ \E m \in {poller.mode, "command", "nhk"} : poller' = to(m, TRUE)
      BY <1>1, <1>6, <1>7
    <2> HIDE DEF to
    <2>3. QED
      BY <1>5, <2>1, <2>2
  <1>9. DowngradeOnlyWithoutDmp'
    BY <1>1, <1>4, <1>5, <1>6, <1>7 DEF DowngradeOnlyWithoutDmp
  <1>10. /\ step.why \in {"fallback", "switch"} => ~device.dmp
         /\ step.why = "switch" => device.readable /\ poller'.info
    BY <1>1, <1>6, <1>7
  <1>11. QED
    BY <1>2, <1>3, <1>4, <1>8, <1>9, <1>10, PollMoves

LEMMA ModeStep == ModeInv /\ [Next]_vars => ModeInv'
  <1> SUFFICES ASSUME ModeInv, [Next]_vars PROVE ModeInv'
    OBVIOUS
  <1>1. SessionSound'
    BY SoundStep DEF ModeInv
  <1>2. CASE UNCHANGED vars
    BY <1>2, OthersMove DEF vars, ModeInv, PollTypes
  <1>3. CASE Next
    BY <1>1, <1>3, OperationStep, InterfaceStep, PollBeginsStep, PollGoesOnStep,
       OtherCallersStep DEF Next
  <1>4. QED
    BY <1>2, <1>3

LEMMA ModeInit == Init => ModeInv
  <1> SUFFICES ASSUME Init PROVE ModeInv
    OBVIOUS
  <1>1. SessionSound
    BY NoSessionSound DEF Init, SessionSound
  <1>2. Clean(session.frames)
    BY CleanEmpty DEF Init, NoSession
  <1>3. DOMAIN caller = Callers /\ Poll = NoCall /\ poller = [mode |-> "dmp", info |-> FALSE]
    BY DEF Init, Poll, Callers
  <1>4. PollTypes /\ PollInv /\ DowngradeOnlyWithoutDmp
    BY <1>3, NoCallFields DEF PollTypes, PollInv, DowngradeOnlyWithoutDmp
  <1>5. QED
    BY <1>1, <1>2, <1>4 DEF ModeInv

\* coordinator.py 274-323: a poll leaves the richer DMP status for good only when
\* the interface said that it has none, and for what its INFO then offers.
THEOREM Downgrade == Spec => []DowngradeOnlyWithoutDmp
  <1>1. ModeInv => DowngradeOnlyWithoutDmp
    BY DEF ModeInv
  <1>2. QED
    BY ModeInit, ModeStep, <1>1, PTL DEF Spec

-----------------------------------------------------------------------------
(* A command on its way. *)

IsSequence(q) == \E S : q \in Seq(S)
\* A frame that reports a command as carried out.
Reports(f) == f.type = "CHANGE" /\ f.body = "ok"
Silent(frames) == IsSequence(frames) /\ \A i \in 1..Len(frames) : ~Reports(frames[i])
ReportsOnce(frames) ==
  /\ IsSequence(frames)
  /\ \A i, j \in 1..Len(frames) : Reports(frames[i]) /\ Reports(frames[j]) => i = j
NoChange(wire) == IsSequence(wire) /\ \A i \in 1..Len(wire) : wire[i].type # "CHANGE"
ChangeLast(wire, r) ==
  /\ IsSequence(wire)
  /\ \A i \in 1..Len(wire) : wire[i].type = "CHANGE" => i = Len(wire) /\ wire[i].request = r

LEMMA EmptyWay == /\ Silent(<<>>) /\ ReportsOnce(<<>>) /\ NoChange(<<>>)
                  /\ \A r : ChangeLast(<<>>, r)
  <1>1. IsSequence(<<>>)
    <2> DEFINE none == {}
    <2>1. <<>> \in Seq(none)
      OBVIOUS
    <2> HIDE DEF none
    <2>2. QED
      BY <2>1 DEF IsSequence
  <1>2. QED
    BY <1>1 DEF Silent, ReportsOnce, NoChange, ChangeLast

LEMMA AppendSequence ==
  ASSUME NEW q, IsSequence(q), NEW m
  PROVE  /\ IsSequence(Append(q, m)) /\ Len(q) \in Nat /\ Len(Append(q, m)) = Len(q) + 1
         /\ Append(q, m)[Len(q) + 1] = m
         /\ \A i \in 1..Len(q) : Append(q, m)[i] = q[i]
  <1>1. PICK S : q \in Seq(S)
    BY DEF IsSequence
  <1> DEFINE T == S \cup {m}
  <1>2. q \in Seq(T) /\ m \in T
    BY <1>1
  <1> HIDE DEF T
  <1>3. Append(q, m) \in Seq(T)
    BY <1>2
  <1>4. QED
    BY <1>2, <1>3 DEF IsSequence

LEMMA TailSequence ==
  ASSUME NEW q, IsSequence(q), q # <<>>
  PROVE  /\ IsSequence(Tail(q)) /\ Len(q) \in Nat /\ Len(q) >= 1 /\ Len(Tail(q)) = Len(q) - 1
         /\ Head(q) = q[1]
         /\ \A i \in 1..Len(Tail(q)) : Tail(q)[i] = q[i + 1]
  <1>1. PICK S : q \in Seq(S)
    BY DEF IsSequence
  <1>2. Tail(q) \in Seq(S) /\ Len(Tail(q)) = Len(q) - 1 /\ Len(q) \in Nat /\ Len(q) >= 1
    BY <1>1
  <1>3. \A i \in 1..Len(Tail(q)) : Tail(q)[i] = q[i + 1]
    BY <1>1, <1>2
  <1>4. QED
    BY <1>1, <1>2, <1>3 DEF IsSequence

LEMMA FramesGrow ==
  ASSUME NEW frames, ReportsOnce(frames), NEW f
  PROVE  /\ ~Reports(f) => /\ ReportsOnce(Append(frames, f))
                           /\ Silent(frames) => Silent(Append(frames, f))
         /\ Silent(frames) => ReportsOnce(Append(frames, f))
  <1>1. /\ IsSequence(Append(frames, f)) /\ Len(frames) \in Nat
        /\ Len(Append(frames, f)) = Len(frames) + 1
        /\ Append(frames, f)[Len(frames) + 1] = f
        /\ \A i \in 1..Len(frames) : Append(frames, f)[i] = frames[i]
    BY AppendSequence DEF ReportsOnce
  <1>2. \A i \in 1..(Len(frames) + 1) : i \in 1..Len(frames) \/ i = Len(frames) + 1
    BY <1>1
  <1>3. QED
    BY <1>1, <1>2 DEF ReportsOnce, Silent

LEMMA FramesShrink ==
  ASSUME NEW frames, ReportsOnce(frames), frames # <<>>
  PROVE  /\ ReportsOnce(Tail(frames))
         /\ Silent(frames) => Silent(Tail(frames))
         /\ Reports(Head(frames)) => ~Silent(frames) /\ Silent(Tail(frames))
  <1>1. /\ IsSequence(Tail(frames)) /\ Len(frames) \in Nat /\ Len(frames) >= 1
        /\ Len(Tail(frames)) = Len(frames) - 1 /\ Head(frames) = frames[1]
        /\ \A i \in 1..Len(Tail(frames)) : Tail(frames)[i] = frames[i + 1]
    BY TailSequence DEF ReportsOnce
  <1>2. 1 \in 1..Len(frames) /\ \A i \in 1..Len(Tail(frames)) :
          i + 1 \in 1..Len(frames) /\ i \in Nat /\ i + 1 # 1
    BY <1>1
  <1>3. ReportsOnce(Tail(frames))
    <2> SUFFICES ASSUME NEW i \in 1..Len(Tail(frames)), NEW j \in 1..Len(Tail(frames)),
                        Reports(Tail(frames)[i]), Reports(Tail(frames)[j])
                 PROVE  i = j
      BY <1>1 DEF ReportsOnce
    <2>1. i + 1 = j + 1
      BY <1>1, <1>2 DEF ReportsOnce
    <2>2. QED
      BY <1>2, <2>1
  <1>4. Silent(frames) => Silent(Tail(frames))
    BY <1>1, <1>2 DEF Silent
  <1>5. ASSUME Reports(Head(frames)) PROVE ~Silent(frames) /\ Silent(Tail(frames))
    <2>1. ~Silent(frames)
      BY <1>1, <1>2, <1>5 DEF Silent
    <2>2. \A i \in 1..Len(Tail(frames)) : ~Reports(Tail(frames)[i])
      BY <1>1, <1>2, <1>5 DEF ReportsOnce
    <2>3. QED
      BY <1>1, <2>1, <2>2 DEF Silent
  <1>6. QED
    BY <1>3, <1>4, <1>5

LEMMA WireGrows ==
  ASSUME NEW wire, NoChange(wire), NEW m
  PROVE  /\ ChangeLast(Append(wire, m), m.request)
         /\ m.type # "CHANGE" => NoChange(Append(wire, m))
  <1>1. /\ IsSequence(Append(wire, m)) /\ Len(wire) \in Nat
        /\ Len(Append(wire, m)) = Len(wire) + 1
        /\ Append(wire, m)[Len(wire) + 1] = m
        /\ \A i \in 1..Len(wire) : Append(wire, m)[i] = wire[i]
    BY AppendSequence DEF NoChange
  <1>2. \A i \in 1..(Len(wire) + 1) : i \in 1..Len(wire) \/ i = Len(wire) + 1
    BY <1>1
  <1>3. QED
    BY <1>1, <1>2 DEF NoChange, ChangeLast

LEMMA WireShrinks ==
  ASSUME NEW wire, NEW r, ChangeLast(wire, r), wire # <<>>
  PROVE  /\ ChangeLast(Tail(wire), r)
         /\ NoChange(wire) => NoChange(Tail(wire)) /\ Head(wire).type # "CHANGE"
         /\ Head(wire).type = "CHANGE" => /\ Head(wire).request = r
                                          /\ NoChange(Tail(wire)) /\ ~NoChange(wire)
  <1>1. /\ IsSequence(Tail(wire)) /\ Len(wire) \in Nat /\ Len(wire) >= 1
        /\ Len(Tail(wire)) = Len(wire) - 1 /\ Head(wire) = wire[1]
        /\ \A i \in 1..Len(Tail(wire)) : Tail(wire)[i] = wire[i + 1]
    BY TailSequence DEF ChangeLast
  <1>2. 1 \in 1..Len(wire) /\ \A i \in 1..Len(Tail(wire)) :
          i + 1 \in 1..Len(wire) /\ i \in Nat /\ (i + 1 = Len(wire) => i = Len(Tail(wire)))
    <2>1. \A n \in Nat : n >= 1 => 1 \in 1..n /\ \A i \in 1..(n - 1) :
            i + 1 \in 1..n /\ i \in Nat /\ (i + 1 = n => i = n - 1)
      OBVIOUS
    <2>2. QED
      BY <1>1, <2>1, Zenon
  <1>3. ChangeLast(Tail(wire), r)
    BY <1>1, <1>2 DEF ChangeLast
  <1>4. NoChange(wire) => NoChange(Tail(wire)) /\ Head(wire).type # "CHANGE"
    BY <1>1, <1>2 DEF NoChange
  <1>5. ASSUME Head(wire).type = "CHANGE"
        PROVE  Head(wire).request = r /\ NoChange(Tail(wire)) /\ ~NoChange(wire)
    <2>1. Len(wire) = 1 /\ Head(wire).request = r
      BY <1>1, <1>2, <1>5 DEF ChangeLast
    <2>2. Len(Tail(wire)) = 0
      BY <1>1, <2>1
    <2>3. QED
      BY <1>1, <1>2, <1>5, <2>1, <2>2 DEF NoChange
  <1>6. QED
    BY <1>3, <1>4, <1>5

LEMMA NoChangeIsLast == ASSUME NEW wire, NoChange(wire), NEW r PROVE ChangeLast(wire, r)
  BY DEF NoChange, ChangeLast
LEMMA SilentOnce == ASSUME NEW frames, Silent(frames) PROVE ReportsOnce(frames)
  BY DEF Silent, ReportsOnce

-----------------------------------------------------------------------------
(* Who asked for what is on its way. *)

Commands == {"command", "rename", "reboot"}
User == caller["user"]
CallFields == {"why", "reply", "hurt", "request"}
OpFields == {"who", "kind", "at", "attempt", "request", "hurt"}
SessionFields == {"conn", "alive", "key", "wire", "frames"}

RequestShapes ==
  /\ SessionFields \subseteq DOMAIN session /\ OpFields \subseteq DOMAIN op
  /\ DOMAIN caller = Callers /\ \A c \in Callers : CallFields \subseteq DOMAIN caller[c]

\* Operation o is the one its caller waits for.
Serves(o) ==
  /\ o.who \in Callers /\ caller[o.who].why # "none" /\ caller[o.who].reply = "none"
  /\ o.kind = KindOf(caller[o.who].why) /\ o.request = caller[o.who].request
OpInv ==
  /\ op.at # "idle" => Serves(op)
  /\ op.at = "listening" => op.kind = "nhk"

\* A command was sent and its answer is awaited: only then is one on its way, not
\* carried out yet, or its report.
Carrying == op.at = "sent" /\ op.kind = "command"
WayInv ==
  /\ ChangeLast(session.wire, op.request)
  /\ ~NoChange(session.wire) => Carrying /\ carried[op.request] = 0
  /\ ReportsOnce(session.frames)
  /\ ~Silent(session.frames) => Carrying /\ carried[op.request] = 1

\* The request of the user's call is the latest; it is carried out once the call
\* has come past its command, and was not before the command is sent.
UserInv ==
  /\ User.why = "none" => User.reply = "none"
  /\ User.why # "none" => User.request = requests /\ requests > 0
  /\ User.why \in Commands /\ User.reply = "none" /\ ~Carrying => carried[User.request] = 0
  /\ User.why \in Commands /\ User.reply = "ok" => carried[User.request] = 1
  /\ User.why = "verify" => carried[User.request] = 1
CountInv ==
  /\ requests \in 0..MaxRequests /\ carried \in [0..MaxRequests -> {0, 1}]
  /\ \A r \in 0..MaxRequests : r > requests => carried[r] = 0
  /\ done \subseteq 1..requests /\ \A r \in done : carried[r] = 1
  /\ \A c \in Callers \ {"user"} : caller[c].why \notin Commands

CommandInv == RequestShapes /\ OpInv /\ WayInv /\ UserInv /\ CountInv

LEMMA KindsOfCommands ==
  /\ \A why : KindOf(why) = "command" <=> why \in Commands
  /\ \A why : KindOf(why) \in Kinds
  /\ \A kind \in Kinds : TypeOf(kind) = "CHANGE" <=> kind = "command"
  <1>1. \A kind \in Kinds : TypeOf(kind) = "CHANGE" <=> kind = "command"
    BY DEF TypeOf, Kinds
  <1>2. ASSUME NEW why
        PROVE  KindOf(why) \in Kinds /\ (KindOf(why) = "command" <=> why \in Commands)
    BY DEF KindOf, Kinds, Commands
  <1>3. QED
    BY <1>1, <1>2

\* The reply to an operation is its caller's, and nothing else of it changes.
LEMMA OutcomeCaller ==
  ASSUME RequestShapes, NEW out, Outcome(out), out.reply # "none" => out.of.who \in Callers
  PROVE  /\ DOMAIN caller' = Callers
         /\ \A c \in Callers :
               /\ CallFields \subseteq DOMAIN caller'[c]
               /\ caller'[c].why = caller[c].why /\ caller'[c].request = caller[c].request
               /\ IF out.reply # "none" /\ c = out.of.who
                  THEN caller'[c].reply = out.reply /\ caller'[c].hurt = out.of.hurt
                  ELSE caller'[c].reply = caller[c].reply
  <1>1. CASE out.reply = "none"
    BY <1>1 DEF Outcome, RequestShapes
  <1>2. CASE out.reply # "none"
    <2> DEFINE w == out.of.who
               c1 == [caller EXCEPT ![w].reply = out.reply]
    <2>1. w \in Callers /\ caller' = [c1 EXCEPT ![w].hurt = out.of.hurt]
      BY <1>2 DEF Outcome
    <2>2. DOMAIN c1 = Callers /\ \A c \in Callers : DOMAIN c1[c] = DOMAIN caller[c]
      BY DEF RequestShapes
    <2>3. /\ c1[w].reply = out.reply /\ c1[w].why = caller[w].why
          /\ c1[w].request = caller[w].request
          /\ \A c \in Callers \ {w} : c1[c] = caller[c]
      BY <2>1 DEF RequestShapes, CallFields
    <2> HIDE DEF c1
    <2>4. DOMAIN caller' = Callers /\ \A c \in Callers : DOMAIN caller'[c] = DOMAIN caller[c]
      BY <2>1, <2>2
    <2>5. /\ caller'[w].reply = out.reply /\ caller'[w].why = caller[w].why
          /\ caller'[w].request = caller[w].request /\ caller'[w].hurt = out.of.hurt
          /\ \A c \in Callers \ {w} : caller'[c] = caller[c]
      BY <2>1, <2>2, <2>3 DEF RequestShapes, CallFields
    <2> HIDE DEF w
    <2>6. QED
      BY <1>2, <2>1, <2>4, <2>5 DEF RequestShapes, w
  <1>3. QED
    BY <1>1, <1>2

LEMMA CarryingUser ==
  ASSUME CommandInv, Carrying
  PROVE  /\ op.who = "user" /\ User.why \in Commands /\ User.reply = "none"
         /\ op.request = User.request /\ op.request = requests /\ op.request \in 1..MaxRequests
         /\ Serves(op)
  <1>1. Serves(op) /\ op.kind = "command"
    BY DEF CommandInv, OpInv, Carrying
  <1>2. caller[op.who].why \in Commands
    BY <1>1, KindsOfCommands DEF Serves
  <1>3. op.who = "user"
    BY <1>1, <1>2 DEF Serves, CommandInv, CountInv
  <1>4. QED
    BY <1>1, <1>2, <1>3 DEF Serves, User, CommandInv, UserInv, CountInv

\* What is on its way while no command is.
LEMMA QuietWay ==
  ASSUME CommandInv, ~Carrying
  PROVE  NoChange(session.wire) /\ Silent(session.frames)
  BY DEF CommandInv, WayInv

LEMMA ClosedQuiet ==
  ASSUME NEW t
  PROVE  /\ NoChange(Closed(t).wire) /\ Silent(Closed(t).frames)
         /\ SessionFields \subseteq DOMAIN Closed(t) /\ Closed(t).key = 0
  <1>1. /\ DOMAIN Closed(t) = DOMAIN NoSession
        /\ Closed(t).wire = <<>> /\ Closed(t).frames = <<>> /\ Closed(t).key = 0
    BY DEF Closed, NoSession
  <1>2. SessionFields \subseteq DOMAIN NoSession
    BY DEF NoSession, SessionFields
  <1>3. QED
    BY <1>1, <1>2, EmptyWay

\* Operation o goes on.
LEMMA GoesStep ==
  ASSUME CommandInv, NEW t, NEW o, Outcome(Goes(t, o)),
         SessionFields \subseteq DOMAIN t, OpFields \subseteq DOMAIN o,
         o.at # "idle" => Serves(o), o.at = "listening" => o.kind = "nhk",
         Carrying => o.at = "sent" /\ o.kind = "command",
         ChangeLast(t.wire, o.request), ReportsOnce(t.frames),
         ~NoChange(t.wire) =>
            o.at = "sent" /\ o.kind = "command" /\ carried[o.request] = 0,
         ~Silent(t.frames) =>
            o.at = "sent" /\ o.kind = "command" /\ carried[o.request] = 1
  PROVE  CommandInv'
  <1>1. session' = t /\ op' = o /\ UNCHANGED <<caller, carried, done, requests>>
    BY OutcomeFields DEF Outcome
  <1>2. RequestShapes'
    BY <1>1 DEF CommandInv, RequestShapes
  <1>3. OpInv'
    BY <1>1 DEF OpInv, Serves
  <1>4. WayInv'
    BY <1>1 DEF WayInv, Carrying
  <1>5. UserInv'
    BY <1>1 DEF CommandInv, UserInv, User, Carrying
  <1>6. CountInv'
    BY <1>1 DEF CommandInv, CountInv
  <1>7. QED
    BY <1>2, <1>3, <1>4, <1>5, <1>6 DEF CommandInv

\* Operation o ends with its caller's reply.
LEMMA EndsStep ==
  ASSUME CommandInv, NEW t, NEW o, NEW reply, reply # "none", Outcome(Ends(t, o, reply)),
         SessionFields \subseteq DOMAIN t, Serves(o),
         Carrying => o.who = "user",
         NoChange(t.wire), Silent(t.frames),
         reply = "ok" /\ o.kind = "command" => carried[o.request] = 1
  PROVE  CommandInv'
  <1>1. session' = t /\ op' = Idle /\ UNCHANGED <<carried, done, requests>>
    BY OutcomeFields DEF Outcome
  <1>2. /\ DOMAIN caller' = Callers
        /\ \A c \in Callers :
               /\ CallFields \subseteq DOMAIN caller'[c]
               /\ caller'[c].why = caller[c].why /\ caller'[c].request = caller[c].request
               /\ IF c = o.who THEN caller'[c].reply = reply
                  ELSE caller'[c].reply = caller[c].reply
    BY OutcomeFields, OutcomeCaller DEF CommandInv, Serves
  <1>3. OpFields \subseteq DOMAIN Idle /\ Idle.at = "idle"
    BY DEF Idle, OpFields
  <1>4. RequestShapes'
    BY <1>1, <1>2, <1>3 DEF RequestShapes
  <1>5. OpInv'
    BY <1>1, <1>3 DEF OpInv
  <1>6. WayInv'
    BY <1>1, NoChangeIsLast, SilentOnce DEF WayInv
  <1>7. UserInv'
    <2>1. "user" \in Callers
      BY DEF Callers
    <2>2. CASE o.who = "user"
      <3>1. User.why \in Commands /\ reply = "ok" => carried[User.request] = 1
        BY <2>2, KindsOfCommands DEF Serves, User
      <3>2. User.why # "none" /\ User'.reply = reply
        BY <1>2, <2>1, <2>2 DEF Serves, User
      <3>3. User'.why = User.why /\ User'.request = User.request
        BY <1>2, <2>1 DEF User
      <3>4. QED
        BY <1>1, <3>1, <3>2, <3>3 DEF CommandInv, UserInv
    <2>3. CASE o.who # "user"
      <3>1. User'.why = User.why /\ User'.request = User.request /\ User'.reply = User.reply
        BY <1>2, <2>1, <2>3 DEF User
      <3>2. QED
        BY <1>1, <2>3, <3>1 DEF CommandInv, UserInv
    <2>4. QED
      BY <2>2, <2>3
  <1>8. CountInv'
    BY <1>1, <1>2 DEF CommandInv, CountInv
  <1>9. QED
    BY <1>4, <1>5, <1>6, <1>7, <1>8 DEF CommandInv

\* What a step keeps of the operation: whom it serves.
SameCall(o) ==
  /\ OpFields \subseteq DOMAIN o
  /\ o.who = op.who /\ o.kind = op.kind /\ o.request = op.request

LEMMA SameServes ==
  ASSUME CommandInv, NEW o, SameCall(o), op.at # "idle"
  PROVE  Serves(o)
  BY DEF CommandInv, OpInv, SameCall, Serves

LEMMA HurtFields ==
  ASSUME NEW o, OpFields \subseteq DOMAIN o
  PROVE  /\ DOMAIN Hurt(o) = DOMAIN o /\ Hurt(o).hurt = TRUE
         /\ Hurt(o).who = o.who /\ Hurt(o).kind = o.kind /\ Hurt(o).request = o.request
         /\ Hurt(o).at = o.at /\ Hurt(o).attempt = o.attempt
  BY DEF Hurt, OpFields

LEMMA AgainFields ==
  ASSUME NEW o, OpFields \subseteq DOMAIN o
  PROVE  /\ OpFields \subseteq DOMAIN Again(o) /\ Again(o).hurt = o.hurt
         /\ Again(o).who = o.who /\ Again(o).kind = o.kind /\ Again(o).request = o.request
         /\ Again(o).at = "ensure" /\ Again(o).attempt = 2
  BY DEF Again, OpFields

LEMMA ReadingIsNoCommand == \A o : Reading(o) => o.kind # "command"
  BY DEF Reading

\* An operation that fails.
LEMMA FailedStep ==
  ASSUME CommandInv, op.at # "idle", NEW s, NEW o, NEW error \in Errors,
         Outcome(Failed(s, o, error)), SessionFields \subseteq DOMAIN s, SameCall(o),
         op.kind # "command" => NoChange(s.wire) /\ Silent(s.frames)
  PROVE  CommandInv'
  <1>1. Serves(o) /\ error # "none" /\ error # "ok"
    BY SameServes DEF Errors
  <1>2. Carrying => o.who = "user" /\ o.kind = "command"
    BY CarryingUser DEF SameCall, Carrying
  <1>3. /\ NoChange(Closed(s).wire) /\ Silent(Closed(s).frames)
        /\ SessionFields \subseteq DOMAIN Closed(s)
    BY ClosedQuiet
  <1>4. CASE Failed(s, o, error) = Ends(Closed(s), o, error)
    BY <1>1, <1>2, <1>3, <1>4, EndsStep
  <1>5. CASE Reading(o) /\ Failed(s, o, error) = Ends(s, o, error)
    <2>1. NoChange(s.wire) /\ Silent(s.frames)
      BY <1>5, ReadingIsNoCommand DEF SameCall
    <2>2. QED
      BY <1>1, <1>2, <1>5, <2>1, EndsStep
  <1>6. CASE Reading(o) /\ Failed(s, o, error) = Goes(Closed(s), Again(o))
    <2> DEFINE a == Again(o)
               t == Closed(s)
    <2>1. o.kind # "command" /\ ~Carrying
      BY <1>2, <1>6, ReadingIsNoCommand
    <2>2. /\ OpFields \subseteq DOMAIN a /\ a.who = o.who /\ a.kind = o.kind
          /\ a.request = o.request /\ a.at = "ensure"
      BY AgainFields DEF SameCall
    <2>3. Serves(a)
      BY <1>1, <2>2 DEF Serves
    <2>4. ChangeLast(t.wire, a.request) /\ ReportsOnce(t.frames)
      BY <1>3, NoChangeIsLast, SilentOnce
    <2>5. Outcome(Goes(t, a))
      BY <1>6
    <2> HIDE DEF a, t
    <2>6. NoChange(t.wire) /\ Silent(t.frames) /\ SessionFields \subseteq DOMAIN t
      BY <1>3 DEF t
    <2>7. QED
      BY <2>1, <2>2, <2>3, <2>4, <2>5, <2>6, GoesStep
  <1>7. QED
    BY <1>4, <1>5, <1>6 DEF Failed

\* An operation that goes on while no command is on its way, in a session with
\* none either.
LEMMA QuietStep ==
  ASSUME CommandInv, ~Carrying, NEW t, NEW o, Outcome(Goes(t, o)),
         SessionFields \subseteq DOMAIN t, OpFields \subseteq DOMAIN o,
         o.at # "idle" => Serves(o), o.at = "listening" => o.kind = "nhk",
         NoChange(t.wire), Silent(t.frames)
  PROVE  CommandInv'
  BY GoesStep, NoChangeIsLast, SilentOnce

-----------------------------------------------------------------------------
(* The steps of an operation keep it. *)

LEMMA OpenCommand ==
  ASSUME CommandInv, Open
  PROVE  CommandInv'
  <1> DEFINE s == Ensured(session)
  <1>1. /\ NoChange(s.wire) /\ Silent(s.frames) /\ SessionFields \subseteq DOMAIN s
    BY ClosedQuiet DEF Ensured
  <1> HIDE DEF s
  <1>2. PICK c \in 1..3 \ s.open :
          Outcome(Goes([s EXCEPT !.conn = c, !.alive = TRUE, !.open = @ \cup {c}],
                       [op EXCEPT !.at = "connect"]))
    BY DEF Open, s
  <1> DEFINE t == [s EXCEPT !.conn = c, !.alive = TRUE, !.open = @ \cup {c}]
             o == [op EXCEPT !.at = "connect"]
  <1>3. DOMAIN t = DOMAIN s /\ t.wire = s.wire /\ t.frames = s.frames
    OBVIOUS
  <1>4. SameCall(o) /\ o.at = "connect"
    BY DEF SameCall, OpFields, CommandInv, RequestShapes
  <1>5. op.at = "ensure" /\ ~Carrying
    BY DEF Open, Carrying
  <1>6. Outcome(Goes(t, o))
    BY <1>2
  <1> HIDE DEF t, o
  <1>7. Serves(o) /\ OpFields \subseteq DOMAIN o
    BY <1>4, <1>5, SameServes DEF SameCall
  <1>8. QED
    BY <1>1, <1>3, <1>4, <1>5, <1>6, <1>7, QuietStep

LEMMA OpenFailsCommand ==
  ASSUME CommandInv, OpenFails
  PROVE  CommandInv'
  <1> DEFINE s == Ensured(session)
             o == [Hurt(op) EXCEPT !.tries = @ + 1]
  <1>1. /\ NoChange(s.wire) /\ Silent(s.frames) /\ SessionFields \subseteq DOMAIN s
    BY ClosedQuiet DEF Ensured
  <1>2. OpFields \subseteq DOMAIN op /\ op.at = "ensure" /\ ~Carrying
    BY DEF CommandInv, RequestShapes, OpenFails, Carrying
  <1>3. SameCall(Hurt(op)) /\ Hurt(op).at = "ensure"
    BY <1>2, HurtFields DEF SameCall
  <1>4. SameCall(o) /\ o.at = "ensure"
    BY <1>3 DEF SameCall, OpFields
  <1>5. Outcome(Goes(s, o)) \/ Outcome(Failed(s, Hurt(op), "connection"))
    BY DEF OpenFails
  <1> HIDE DEF s, o
  <1>6. CASE Outcome(Goes(s, o))
    <2>1. Serves(o) /\ OpFields \subseteq DOMAIN o
      BY <1>2, <1>4, SameServes DEF SameCall
    <2>2. QED
      BY <1>1, <1>2, <1>4, <1>6, <2>1, QuietStep
  <1>7. CASE Outcome(Failed(s, Hurt(op), "connection"))
    BY <1>1, <1>2, <1>3, <1>7, FailedStep DEF Errors
  <1>8. QED
    BY <1>5, <1>6, <1>7

LEMMA SendCommand ==
  ASSUME CommandInv, Send
  PROVE  CommandInv'
  <1> DEFINE connecting == op.at = "connect"
             id == IF connecting THEN 0 ELSE session.sequence
             type == IF connecting THEN "CONNECT" ELSE TypeOf(op.kind)
             m == [type |-> type, id |-> id, request |-> op.request]
             t == [session EXCEPT !.sequence = IF connecting THEN @ ELSE @ + 1,
                        !.wire = Append(@, m)]
             o == [op EXCEPT !.at = IF connecting THEN "connecting" ELSE "sent",
                             !.awaits = id, !.seen = {}]
  <1>1. Outcome(Goes(t, o)) \/ Outcome(Failed(session, op, "connection"))
    BY DEF Send
  <1>2. op.at \in {"connect", "send", "ensure"} /\ op.at # "idle" /\ ~Carrying
    BY DEF Send, Carrying
  <1>3. /\ OpFields \subseteq DOMAIN op /\ SessionFields \subseteq DOMAIN session
        /\ NoChange(session.wire) /\ Silent(session.frames)
    BY <1>2, QuietWay DEF CommandInv, RequestShapes
  <1>4. /\ DOMAIN t = DOMAIN session /\ t.frames = session.frames
        /\ t.wire = Append(session.wire, m)
    BY <1>3 DEF SessionFields
  <1>5. /\ SameCall(o) /\ o.at = IF connecting THEN "connecting" ELSE "sent"
    BY <1>3 DEF SameCall, OpFields
  <1>6. m.type = type /\ m.request = op.request
    OBVIOUS
  <1>7. type = "CHANGE" => ~connecting /\ op.kind = "command"
    BY <1>2, KindsOfCommands DEF CommandInv, OpInv, Serves
  <1> HIDE DEF t, o, m, type, id
  <1>8. /\ ChangeLast(t.wire, op.request)
        /\ m.type # "CHANGE" => NoChange(t.wire)
    BY <1>3, <1>4, <1>6, WireGrows
  <1>9. CASE Outcome(Goes(t, o))
    <2>1. Serves(o) /\ o.request = op.request /\ OpFields \subseteq DOMAIN o
      BY <1>2, <1>5, SameServes DEF SameCall
    <2>2. ~NoChange(t.wire) => o.at = "sent" /\ o.kind = "command"
      BY <1>5, <1>6, <1>7, <1>8 DEF SameCall
    <2>3. o.kind = "command" => carried[o.request] = 0
      <3>1. SUFFICES ASSUME o.kind = "command" PROVE carried[o.request] = 0
        OBVIOUS
      <3>2. caller[o.who].why \in Commands /\ o.who \in Callers
        BY <2>1, <3>1, KindsOfCommands DEF Serves
      <3>3. o.who = "user"
        BY <3>2 DEF CommandInv, CountInv
      <3>4. QED
        BY <1>2, <2>1, <3>2, <3>3 DEF Serves, CommandInv, UserInv, User
    <2>4. ReportsOnce(t.frames) /\ Silent(t.frames)
      BY <1>3, <1>4, SilentOnce
    <2>5. ChangeLast(t.wire, o.request) /\ SessionFields \subseteq DOMAIN t
      BY <1>3, <1>4, <1>8, <2>1
    <2>6. o.at # "listening"
      BY <1>5
    <2>7. QED
      BY <1>2, <1>9, <2>1, <2>2, <2>3, <2>4, <2>5, <2>6, GoesStep
  <1>10. CASE Outcome(Failed(session, op, "connection"))
    BY <1>2, <1>3, <1>10, FailedStep DEF SameCall, Errors
  <1>11. QED
    BY <1>1, <1>9, <1>10

\* The frames of an exchange that took frame f of session t.
LEMMA RegisterReadCommand ==
  ASSUME CommandInv, NEW t, NEW f, Outcome(RegisterRead(t, op, f)),
         op.at = "sent", op.kind = "status", SessionFields \subseteq DOMAIN t,
         NoChange(t.wire), Silent(t.frames)
  PROVE  CommandInv'
  <1> DEFINE next == [op EXCEPT !.left = @ - 1, !.at = "send"]
  <1>1. /\ OpFields \subseteq DOMAIN op /\ SameCall(Hurt(op)) /\ SameCall(op) /\ ~Carrying
    BY HurtFields DEF CommandInv, RequestShapes, SameCall, Carrying
  <1>2. SameCall(next) /\ next.at = "send"
    BY <1>1 DEF SameCall, OpFields
  <1>3. \/ Outcome(Failed(t, Hurt(op), "code14"))
        \/ Outcome(Failed(t, Hurt(op), "connection"))
        \/ Outcome(Goes(t, next))
        \/ Outcome(Ends(t, op, "ok"))
    BY DEF RegisterRead
  <1> HIDE DEF next
  <1>4. CASE Outcome(Failed(t, Hurt(op), "code14")) \/ Outcome(Failed(t, Hurt(op), "connection"))
    BY <1>1, <1>4, FailedStep DEF Errors
  <1>5. CASE Outcome(Goes(t, next))
    <2>1. Serves(next) /\ OpFields \subseteq DOMAIN next
      BY <1>2, SameServes DEF SameCall
    <2>2. QED
      BY <1>1, <1>2, <1>5, <2>1, QuietStep
  <1>6. CASE Outcome(Ends(t, op, "ok"))
    <2>1. Serves(op)
      BY <1>1, SameServes
    <2>2. QED
      BY <1>1, <1>6, <2>1, EndsStep
  <1>7. QED
    BY <1>3, <1>4, <1>5, <1>6

LEMMA ConnectedCommand ==
  ASSUME CommandInv, NEW t, NEW f, Outcome(Connected(t, op, f)),
         op.at = "connecting", SessionFields \subseteq DOMAIN t,
         NoChange(t.wire), Silent(t.frames)
  PROVE  CommandInv'
  <1> DEFINE s == [t EXCEPT !.key = t.conn, !.sequence = 1]
             o == [op EXCEPT !.at = "send"]
  <1>1. /\ OpFields \subseteq DOMAIN op /\ SameCall(Hurt(op)) /\ ~Carrying
    BY HurtFields DEF CommandInv, RequestShapes, SameCall, Carrying
  <1>2. SameCall(o) /\ o.at = "send"
    BY <1>1 DEF SameCall, OpFields
  <1>3. DOMAIN s = DOMAIN t /\ s.wire = t.wire /\ s.frames = t.frames
    BY DEF SessionFields
  <1>4. \/ Outcome(Goes(s, o))
        \/ Outcome(Failed(t, Hurt(op), "auth")) \/ Outcome(Failed(t, Hurt(op), "connection"))
    BY DEF Connected
  <1> HIDE DEF s, o
  <1>5. CASE Outcome(Failed(t, Hurt(op), "auth")) \/ Outcome(Failed(t, Hurt(op), "connection"))
    BY <1>1, <1>5, FailedStep DEF Errors
  <1>6. CASE Outcome(Goes(s, o))
    <2>1. Serves(o) /\ OpFields \subseteq DOMAIN o
      BY <1>2, SameServes DEF SameCall
    <2>2. QED
      BY <1>1, <1>2, <1>3, <1>6, <2>1, QuietStep
  <1>7. QED
    BY <1>4, <1>5, <1>6

\* The awaited answer f was taken from the frames, which left those of t.
LEMMA AnsweredCommand ==
  ASSUME CommandInv, NEW t, NEW f, Outcome(Answered(t, op, f)), Matches(f),
         SessionFields \subseteq DOMAIN t,
         ~Carrying => NoChange(t.wire) /\ Silent(t.frames),
         Carrying /\ f.body = "ok" =>
            carried[op.request] = 1 /\ NoChange(t.wire) /\ Silent(t.frames)
  PROVE  CommandInv'
  <1>1. /\ OpFields \subseteq DOMAIN op /\ SameCall(Hurt(op)) /\ SameCall(op)
        /\ op.at \in {"connecting", "sent"} /\ op.at # "idle"
    BY HurtFields DEF CommandInv, RequestShapes, SameCall, Matches
  <1>2. Serves(op)
    BY <1>1, SameServes
  <1>3. CASE op.at = "connecting"
    <2>1. ~Carrying /\ Outcome(Connected(t, op, f))
      BY <1>3 DEF Carrying, Answered
    <2>2. QED
      BY <1>3, <2>1, ConnectedCommand
  <1>4. CASE op.at = "sent" /\ op.kind = "status"
    <2>1. ~Carrying /\ Outcome(RegisterRead(t, op, f))
      BY <1>4 DEF Carrying, Answered
    <2>2. QED
      BY <1>4, <2>1, RegisterReadCommand
  <1>5. CASE op.at = "sent" /\ op.kind = "nhk"
    <2> DEFINE o == [op EXCEPT !.at = "listening", !.seen = @ \cup {f.body}]
    <2>1. ~Carrying /\ Outcome(Goes(t, o))
      BY <1>5 DEF Carrying, Answered
    <2>2. SameCall(o) /\ o.at = "listening"
      BY <1>1 DEF SameCall, OpFields
    <2> HIDE DEF o
    <2>3. Serves(o) /\ o.kind = "nhk" /\ OpFields \subseteq DOMAIN o
      BY <1>1, <1>5, <2>2, SameServes DEF SameCall
    <2>4. QED
      BY <2>1, <2>2, <2>3, QuietStep
  <1>6. CASE op.at = "sent" /\ op.kind \notin {"status", "nhk"}
    <2>1. \/ f.body = "ok" /\ Outcome(Ends(t, op, "ok"))
          \/ Outcome(Failed(t, Hurt(op), "connection"))
      BY <1>6 DEF Answered
    <2>2. CASE f.body = "ok" /\ Outcome(Ends(t, op, "ok"))
      <3>1. NoChange(t.wire) /\ Silent(t.frames)
        BY <2>2
      <3>2. op.kind = "command" => carried[op.request] = 1
        BY <1>6, <2>2 DEF Carrying
      <3>3. Carrying => op.who = "user"
        BY CarryingUser
      <3>4. QED
        BY <1>2, <2>2, <3>1, <3>2, <3>3, EndsStep
    <2>3. CASE Outcome(Failed(t, Hurt(op), "connection"))
      BY <1>1, <2>3, FailedStep DEF Errors, Carrying
    <2>4. QED
      BY <2>1, <2>2, <2>3
  <1>7. QED
    BY <1>1, <1>3, <1>4, <1>5, <1>6

LEMMA ReceiveCommand ==
  ASSUME CommandInv, Receive
  PROVE  CommandInv'
  <1> DEFINE f == Head(session.frames)
             t == [session EXCEPT !.frames = Tail(@)]
             o == [op EXCEPT !.seen = IF Awaiting /\ op.kind = "nhk"
                                        THEN @ \cup {f.body} ELSE @]
  <1>1. /\ session.frames # <<>>
        /\ \/ Matches(f) /\ Outcome(Answered(t, op, f))
           \/ Outcome(Goes(t, o))
    BY DEF Receive
  <1>2. /\ OpFields \subseteq DOMAIN op /\ SessionFields \subseteq DOMAIN session
        /\ ReportsOnce(session.frames) /\ ChangeLast(session.wire, op.request)
    BY DEF CommandInv, RequestShapes, WayInv
  <1>3. /\ DOMAIN t = DOMAIN session /\ t.wire = session.wire
        /\ t.frames = Tail(session.frames)
    BY <1>2 DEF SessionFields
  <1>4. SameCall(o) /\ o.at = op.at
    BY <1>2 DEF SameCall, OpFields
  <1>5. /\ ReportsOnce(t.frames)
        /\ Silent(session.frames) => Silent(t.frames)
        /\ Reports(f) => ~Silent(session.frames) /\ Silent(t.frames)
    BY <1>1, <1>2, <1>3, FramesShrink
  <1> HIDE DEF t, o, f
  <1>6. CASE Matches(f) /\ Outcome(Answered(t, op, f))
    <2>1. ~Carrying => NoChange(t.wire) /\ Silent(t.frames)
      BY <1>3, <1>5, QuietWay
    <2>2. ASSUME Carrying, f.body = "ok"
          PROVE  carried[op.request] = 1 /\ NoChange(t.wire) /\ Silent(t.frames)
      <3>1. Reports(f)
        BY <1>6, <2>2, KindsOfCommands DEF Matches, Reports, Carrying, Kinds
      <3>2. carried[op.request] = 1 /\ Silent(t.frames)
        BY <1>5, <3>1 DEF CommandInv, WayInv
      <3>3. NoChange(session.wire)
        BY <3>2 DEF CommandInv, WayInv
      <3>4. QED
        BY <1>3, <3>2, <3>3
    <2>3. SessionFields \subseteq DOMAIN t
      BY <1>2, <1>3
    <2>4. QED
      BY <1>6, <2>1, <2>2, <2>3, AnsweredCommand
  <1>7. CASE Outcome(Goes(t, o))
    <2>1. OpFields \subseteq DOMAIN o /\ SessionFields \subseteq DOMAIN t
      BY <1>2, <1>3, <1>4 DEF SameCall
    <2>2. o.at # "idle" => Serves(o)
      BY <1>4, SameServes
    <2>3. o.at = "listening" => o.kind = "nhk"
      BY <1>4 DEF SameCall, CommandInv, OpInv
    <2>4. (Carrying <=> o.at = "sent" /\ o.kind = "command") /\ o.request = op.request
      BY <1>4 DEF Carrying, SameCall
    <2>5. /\ ~NoChange(t.wire) => Carrying /\ carried[o.request] = 0
          /\ ~Silent(t.frames) => Carrying /\ carried[o.request] = 1
      BY <1>3, <1>5, <2>4 DEF CommandInv, WayInv
    <2>6. ChangeLast(t.wire, o.request)
      BY <1>2, <1>3, <2>4
    <2>7. QED
      BY <1>5, <1>7, <2>1, <2>2, <2>3, <2>4, <2>5, <2>6, GoesStep
  <1>8. QED
    BY <1>1, <1>6, <1>7

LEMMA StatusParsedCommand ==
  ASSUME CommandInv, NEW o, StatusParsed(o), SameCall(o),
         op.at # "idle", op.kind = "nhk"
  PROVE  CommandInv'
  <1>1. /\ ~Carrying /\ Serves(o) /\ SessionFields \subseteq DOMAIN session
        /\ NoChange(session.wire) /\ Silent(session.frames)
    BY QuietWay, SameServes DEF Carrying, CommandInv, RequestShapes
  <1>2. SameCall(Hurt(o)) /\ o.kind # "command"
    BY HurtFields DEF SameCall
  <1>3. Outcome(Ends(session, o, "ok")) \/ Outcome(Failed(session, Hurt(o), "connection"))
    BY DEF StatusParsed
  <1>4. CASE Outcome(Ends(session, o, "ok"))
    BY <1>1, <1>2, <1>4, EndsStep
  <1>5. CASE Outcome(Failed(session, Hurt(o), "connection"))
    BY <1>1, <1>2, <1>5, FailedStep DEF Errors
  <1>6. QED
    BY <1>3, <1>4, <1>5

LEMMA ExchangeEndsCommand ==
  ASSUME CommandInv, ListenEnds \/ TimedOut \/ Broken
  PROVE  CommandInv'
  <1>1. /\ op.at # "idle" /\ SessionFields \subseteq DOMAIN session
        /\ SameCall(op) /\ SameCall(Hurt(op))
    BY HurtFields DEF ListenEnds, TimedOut, Broken, Awaiting, SameCall, CommandInv,
                      RequestShapes
  <1>2. CASE ListenEnds
    BY <1>1, <1>2, StatusParsedCommand DEF ListenEnds, CommandInv, OpInv
  <1>3. CASE TimedOut /\ op.kind = "nhk" /\ StatusParsed(Hurt(op))
    BY <1>1, <1>3, StatusParsedCommand
  <1>4. CASE Outcome(Failed(session, Hurt(op), "connection"))
    <2>1. op.kind # "command" => NoChange(session.wire) /\ Silent(session.frames)
      BY QuietWay DEF Carrying
    <2>2. QED
      BY <1>1, <1>4, <2>1, FailedStep DEF Errors
  <1>5. QED
    BY <1>2, <1>3, <1>4 DEF TimedOut, Broken

LEMMA BeginCommand ==
  ASSUME CommandInv, NEW c \in Callers, Begin(c)
  PROVE  CommandInv'
  <1> DEFINE o == [Idle EXCEPT !.who = c, !.kind = KindOf(caller[c].why), !.at = "ensure",
                               !.total = caller[c].registers, !.left = caller[c].registers,
                               !.request = caller[c].request]
  <1>1. /\ caller[c].why # "none" /\ caller[c].reply = "none" /\ op = Idle
        /\ \/ o.kind = "close" /\ Outcome(Ends(Closed(session), o, "ok"))
           \/ Outcome(Goes(session, o))
    BY DEF Begin
  <1>2. /\ OpFields \subseteq DOMAIN o /\ o.who = c /\ o.kind = KindOf(caller[c].why)
        /\ o.request = caller[c].request /\ o.at = "ensure"
    BY DEF Idle, OpFields
  <1>3. ~Carrying /\ SessionFields \subseteq DOMAIN session
    BY <1>1 DEF Idle, Carrying, CommandInv, RequestShapes
  <1> HIDE DEF o
  <1>4. Serves(o)
    BY <1>1, <1>2 DEF Serves
  <1>5. CASE o.kind = "close" /\ Outcome(Ends(Closed(session), o, "ok"))
    BY <1>3, <1>4, <1>5, ClosedQuiet, EndsStep
  <1>6. CASE Outcome(Goes(session, o))
    BY <1>2, <1>3, <1>4, <1>6, QuietWay, QuietStep
  <1>7. QED
    BY <1>1, <1>5, <1>6

-----------------------------------------------------------------------------
(* The interface and the network keep it. *)

\* A request leaves the wire for its answer, which reports nothing carried out.
LEMMA AnswerElse ==
  ASSUME CommandInv, NEW f, ~Reports(f), session.wire # <<>>,
         SessionFields \subseteq DOMAIN session',
         session'.wire = Tail(session.wire), session'.frames = Append(session.frames, f),
         UNCHANGED <<op, caller, carried, done, requests>>
  PROVE  CommandInv'
  <1>1. /\ ChangeLast(Tail(session.wire), op.request)
        /\ NoChange(session.wire) => NoChange(Tail(session.wire))
    BY WireShrinks DEF CommandInv, WayInv
  <1>2. /\ ReportsOnce(Append(session.frames, f))
        /\ Silent(session.frames) => Silent(Append(session.frames, f))
    BY FramesGrow DEF CommandInv, WayInv
  <1>3. WayInv'
    BY <1>1, <1>2 DEF CommandInv, WayInv, Carrying
  <1>4. RequestShapes' /\ OpInv' /\ UserInv' /\ CountInv'
    BY DEF CommandInv, RequestShapes, OpInv, Serves, UserInv, User, Carrying, CountInv
  <1>5. QED
    BY <1>3, <1>4 DEF CommandInv

\* The interface carries the command out and reports it.
LEMMA AnswerCarries ==
  ASSUME CommandInv, NEW f, session.wire # <<>>, Head(session.wire).type = "CHANGE",
         SessionFields \subseteq DOMAIN session',
         session'.wire = Tail(session.wire), session'.frames = Append(session.frames, f),
         carried' = [carried EXCEPT ![Head(session.wire).request] = @ + 1],
         UNCHANGED <<op, caller, done, requests>>
  PROVE  CommandInv'
  <1>1. /\ Head(session.wire).request = op.request /\ NoChange(Tail(session.wire))
        /\ ~NoChange(session.wire)
    BY WireShrinks DEF CommandInv, WayInv
  <1>2. Carrying /\ carried[op.request] = 0
    BY <1>1 DEF CommandInv, WayInv
  <1>3. /\ op.request \in 1..MaxRequests /\ op.request = requests
        /\ User.why \in Commands /\ User.reply = "none" /\ op.request = User.request
    BY <1>2, CarryingUser
  <1>4. Silent(session.frames)
    BY <1>2 DEF CommandInv, WayInv
  <1>5. /\ carried \in [0..MaxRequests -> {0, 1}] /\ op.request \in 0..MaxRequests
        /\ carried' = [carried EXCEPT ![op.request] = 1]
    <2>1. carried' = [carried EXCEPT ![op.request] = @ + 1]
      BY <1>1
    <2>2. carried[op.request] + 1 = 1
      BY <1>2
    <2>3. op.request \in 0..MaxRequests
      BY <1>3, SessionAssumption
    <2>4. QED
      BY <2>1, <2>2, <2>3 DEF CommandInv, CountInv
  <1>6. /\ carried' \in [0..MaxRequests -> {0, 1}] /\ carried'[op.request] = 1
        /\ \A r \in 0..MaxRequests : r # op.request => carried'[r] = carried[r]
    BY <1>5
  <1>7. WayInv'
    <2>1. ReportsOnce(session'.frames)
      BY <1>4, FramesGrow DEF CommandInv, WayInv
    <2>2. ChangeLast(session'.wire, op'.request) /\ NoChange(session'.wire)
      BY <1>1, NoChangeIsLast
    <2>3. QED
      BY <1>2, <1>6, <2>1, <2>2 DEF WayInv, Carrying
  <1>8. RequestShapes' /\ OpInv'
    BY DEF CommandInv, RequestShapes, OpInv, Serves
  <1>9. UserInv'
    BY <1>2, <1>3 DEF CommandInv, UserInv, User, Carrying, Commands
  <1>10. CountInv'
    <2>1. \A r \in done : carried[r] = 1 /\ r \in 0..MaxRequests
      BY SessionAssumption DEF CommandInv, CountInv
    <2>2. \A r \in done : carried'[r] = 1
      BY <1>2, <1>6, <2>1
    <2>3. \A r \in 0..MaxRequests : r > requests => r # op.request
      BY <1>3
    <2>4. \A r \in 0..MaxRequests : r > requests => carried'[r] = 0
      BY <1>6, <2>3 DEF CommandInv, CountInv
    <2>5. QED
      BY <1>6, <2>2, <2>4 DEF CommandInv, CountInv
  <1>11. QED
    BY <1>7, <1>8, <1>9, <1>10 DEF CommandInv

LEMMA AnswerCommand ==
  ASSUME CommandInv, Answer
  PROVE  CommandInv'
  <1> DEFINE r == Head(session.wire)
  <1>1. PICK body \in Bodies(r.type) :
          /\ session' = [session EXCEPT
                           !.wire = Tail(@),
                           !.frames = Append(@, [type |-> r.type, id |-> r.id, body |-> body])]
          /\ carried' = IF r.type = "CHANGE" /\ body = "ok"
                        THEN [carried EXCEPT ![r.request] = @ + 1] ELSE carried
    BY DEF Answer
  <1>2. session.wire # <<>> /\ UNCHANGED <<op, caller, done, requests>>
    BY DEF Answer, callVars
  <1> DEFINE f == [type |-> r.type, id |-> r.id, body |-> body]
  <1>3. f.type = r.type /\ f.body = body
    OBVIOUS
  <1>4. /\ DOMAIN session' = DOMAIN session /\ session'.wire = Tail(session.wire)
        /\ session'.frames = Append(session.frames, f)
    BY <1>1 DEF CommandInv, RequestShapes, SessionFields
  <1>5. SessionFields \subseteq DOMAIN session'
    BY <1>4 DEF CommandInv, RequestShapes
  <1> HIDE DEF f
  <1>6. CASE r.type = "CHANGE" /\ body = "ok"
    BY <1>1, <1>2, <1>4, <1>5, <1>6, AnswerCarries
  <1>7. CASE ~(r.type = "CHANGE" /\ body = "ok")
    <2>1. ~Reports(f) /\ carried' = carried
      BY <1>1, <1>3, <1>7 DEF Reports
    <2>2. QED
      BY <1>2, <1>4, <1>5, <2>1, AnswerElse
  <1>8. QED
    BY <1>6, <1>7

\* Steps that leave the requests alone, and put nothing new on the way.
LEMMA WayStep ==
  ASSUME CommandInv, SessionFields \subseteq DOMAIN session', SameCall(op'), op'.at = op.at,
         ChangeLast(session'.wire, op.request), ReportsOnce(session'.frames),
         NoChange(session.wire) => NoChange(session'.wire),
         Silent(session.frames) => Silent(session'.frames),
         UNCHANGED <<caller, carried, done, requests>>
  PROVE  CommandInv'
  <1>1. Carrying' <=> Carrying
    BY DEF Carrying, SameCall
  <1>2. RequestShapes' /\ OpInv'
    BY DEF CommandInv, RequestShapes, OpInv, Serves, SameCall
  <1>3. WayInv'
    BY <1>1 DEF CommandInv, WayInv, SameCall
  <1>4. UserInv' /\ CountInv'
    BY <1>1 DEF CommandInv, UserInv, User, CountInv
  <1>5. QED
    BY <1>2, <1>3, <1>4 DEF CommandInv

LEMMA GateChangesCommand ==
  ASSUME CommandInv, GateChanges
  PROVE  CommandInv'
  <1> DEFINE f == [type |-> "EVENT", id |-> 0, body |-> "ok"]
  <1>1. /\ UNCHANGED <<op, carried, caller, done, requests>>
        /\ session' = session \/ session' = [session EXCEPT !.frames = Append(@, f)]
    BY DEF GateChanges, callVars
  <1>2. ~Reports(f)
    BY DEF Reports
  <1>3. /\ DOMAIN session' = DOMAIN session /\ session'.wire = session.wire
        /\ \/ session'.frames = session.frames
           \/ session'.frames = Append(session.frames, f)
    BY <1>1 DEF CommandInv, RequestShapes, SessionFields
  <1> HIDE DEF f
  <1>4. /\ ReportsOnce(session'.frames)
        /\ Silent(session.frames) => Silent(session'.frames)
    BY <1>2, <1>3, FramesGrow DEF CommandInv, WayInv
  <1>5. SameCall(op') /\ op'.at = op.at /\ SessionFields \subseteq DOMAIN session'
    BY <1>1, <1>3 DEF SameCall, CommandInv, RequestShapes
  <1>6. QED
    BY <1>1, <1>3, <1>4, <1>5, WayStep DEF CommandInv, WayInv

LEMMA DropCommand ==
  ASSUME CommandInv, Drop
  PROVE  CommandInv'
  <1>1. /\ UNCHANGED <<carried, caller, done, requests>>
        /\ \E b \in BOOLEAN : op' = [op EXCEPT !.hurt = b]
    BY DEF Drop, callVars
  <1>2. PICK arriving \in {session.frames, <<>>} :
          session' = [session EXCEPT !.alive = FALSE, !.wire = <<>>, !.frames = arriving]
    BY DEF Drop
  <1>3. /\ DOMAIN session' = DOMAIN session /\ session'.wire = <<>>
        /\ session'.frames \in {session.frames, <<>>}
    BY <1>2 DEF CommandInv, RequestShapes, SessionFields
  <1>4. SameCall(op') /\ op'.at = op.at
    BY <1>1 DEF SameCall, CommandInv, RequestShapes, OpFields
  <1>5. /\ ReportsOnce(session'.frames)
        /\ Silent(session.frames) => Silent(session'.frames)
        /\ NoChange(session'.wire) /\ ChangeLast(session'.wire, op.request)
    BY <1>3, EmptyWay DEF CommandInv, WayInv
  <1>6. SessionFields \subseteq DOMAIN session'
    BY <1>3 DEF CommandInv, RequestShapes
  <1>7. QED
    BY <1>1, <1>4, <1>5, <1>6, WayStep

-----------------------------------------------------------------------------
(* The callers keep it. *)

LEMMA NoCallAny ==
  /\ CallFields \subseteq DOMAIN NoCall
  /\ NoCall.why = "none" /\ NoCall.reply = "none"
  BY DEF NoCall, CallFields

\* A caller that asked for no command goes on to something else than a command.
LEMMA OtherCalls ==
  ASSUME CommandInv, NEW c \in Callers \ {"user"}, NEW call,
         caller' = [caller EXCEPT ![c] = call],
         CallFields \subseteq DOMAIN call, call.why \notin Commands,
         op.at # "idle" => op.who # c,
         UNCHANGED <<session, op, carried, done, requests>>
  PROVE  CommandInv'
  <1>1. /\ DOMAIN caller' = Callers /\ caller'[c] = call
        /\ \A d \in Callers : d # c => caller'[d] = caller[d]
    BY DEF CommandInv, RequestShapes
  <1>2. RequestShapes'
    BY <1>1 DEF CommandInv, RequestShapes
  <1>3. OpInv'
    BY <1>1 DEF CommandInv, OpInv, Serves
  <1>4. WayInv'
    BY DEF CommandInv, WayInv, Carrying
  <1>5. User' = User
    BY <1>1 DEF User, Callers
  <1>6. UserInv'
    BY <1>5 DEF CommandInv, UserInv, Carrying
  <1>7. CountInv'
    BY <1>1 DEF CommandInv, CountInv
  <1>8. QED
    BY <1>2, <1>3, <1>4, <1>6, <1>7 DEF CommandInv

LEMMA IdleServes == ASSUME CommandInv, op = Idle PROVE op.at = "idle" /\ ~Carrying
  BY DEF Idle, Carrying

\* A reply is there: the operation of this caller is over.
LEMMA RepliedServes ==
  ASSUME CommandInv, NEW c \in Callers, caller[c].reply # "none"
  PROVE  op.at # "idle" => op.who # c
  BY DEF CommandInv, OpInv, Serves

LEMMA StepsAreNoCommands ==
  ASSUME NEW why, NEW reply, NEW p
  PROVE  Steps(why, reply, p).why \notin Commands
  <1> DEFINE L == {"none", "drop", "identify", "confirm", "metadata", "fallback", "switch",
                   "nhk"}
  <1>1. \E w \in L : \E q : Steps(why, reply, p) = [why |-> w, poller |-> q]
    BY DEF Steps
  <1>2. PICK w \in L : \E q : Steps(why, reply, p) = [why |-> w, poller |-> q]
    BY <1>1
  <1>3. Steps(why, reply, p).why = w
    BY <1>2
  <1>4. QED
    BY <1>3 DEF Commands

LEMMA PollBeginsCommand ==
  ASSUME CommandInv, PollBegins
  PROVE  CommandInv'
  <1>1. UNCHANGED <<session, op, carried, done, requests>> /\ op = Idle
    BY DEF PollBegins, Calling
  <1>2. \/ UNCHANGED caller
        \/ \E why \in {"status", "prepare", "nhk"}, registers \in {0, Core, Core + Extended} :
              caller' = [caller EXCEPT !["poll"] = [NoCall EXCEPT !.why = why,
                                          !.registers = registers, !.request = 0]]
    BY DEF PollBegins, Calling
  <1>3. CASE UNCHANGED caller
    BY <1>1, <1>3 DEF CommandInv, RequestShapes, OpInv, Serves, WayInv, UserInv, User,
                      Carrying, CountInv
  <1>4. ASSUME NEW why \in {"status", "prepare", "nhk"}, NEW registers,
               caller' = [caller EXCEPT !["poll"] = [NoCall EXCEPT !.why = why,
                                          !.registers = registers, !.request = 0]]
        PROVE  CommandInv'
    <2> DEFINE call == [NoCall EXCEPT !.why = why, !.registers = registers, !.request = 0]
    <2>1. CallFields \subseteq DOMAIN call /\ call.why \notin Commands
      BY DEF NoCall, CallFields, Commands
    <2>2. caller' = [caller EXCEPT !["poll"] = call]
      BY <1>4
    <2> HIDE DEF call
    <2>3. QED
      BY <1>1, <2>1, <2>2, IdleServes, OtherCalls DEF Callers
  <1>5. QED
    BY <1>2, <1>3, <1>4

LEMMA PollGoesOnCommand ==
  ASSUME CommandInv, PollGoesOn
  PROVE  CommandInv'
  <1> DEFINE why == Steps(caller["poll"].why, caller["poll"].reply, poller).why
             call == IF why = "none" THEN NoCall ELSE [NoCall EXCEPT !.why = why]
  <1>1. /\ caller["poll"].reply # "none" /\ caller' = [caller EXCEPT !["poll"] = call]
        /\ UNCHANGED <<session, op, carried, done, requests>>
    BY DEF PollGoesOn
  <1>2. why \notin Commands
    BY StepsAreNoCommands
  <1> HIDE DEF why
  <1>3. CallFields \subseteq DOMAIN call /\ call.why \notin Commands
    BY <1>2, NoCallAny DEF NoCall, CallFields, Commands
  <1> HIDE DEF call
  <1>4. "poll" \in Callers \ {"user"}
    BY DEF Callers
  <1>5. QED
    BY <1>1, <1>3, <1>4, RepliedServes, OtherCalls

LEMMA UnloadCommand ==
  ASSUME CommandInv, Unload \/ Unloaded
  PROVE  CommandInv'
  <1>1. UNCHANGED <<session, op, carried, done, requests>> /\ "unload" \in Callers \ {"user"}
    BY DEF Unload, Unloaded, Callers
  <1>2. CASE Unload
    <2> DEFINE call == [NoCall EXCEPT !.why = "unload", !.registers = 0, !.request = 0]
    <2>1. CallFields \subseteq DOMAIN call /\ call.why \notin Commands
      BY DEF NoCall, CallFields, Commands
    <2>2. caller' = [caller EXCEPT !["unload"] = call] /\ op = Idle
      BY <1>2 DEF Unload, Calling
    <2> HIDE DEF call
    <2>3. QED
      BY <1>1, <2>1, <2>2, IdleServes, OtherCalls
  <1>3. CASE Unloaded
    <2>1. caller["unload"].reply # "none" /\ caller' = [caller EXCEPT !["unload"] = NoCall]
      BY <1>3 DEF Unloaded
    <2>2. NoCall.why \notin Commands
      BY NoCallAny DEF Commands
    <2>3. QED
      BY <1>1, <2>1, <2>2, NoCallAny, RepliedServes, OtherCalls
  <1>4. QED
    BY <1>2, <1>3

\* The user's call changes while no operation serves it.
LEMMA UserCalls ==
  ASSUME CommandInv, NEW call, caller' = [caller EXCEPT !["user"] = call],
         CallFields \subseteq DOMAIN call, call.reply = "none",
         op.at # "idle" => op.who # "user",
         UNCHANGED <<session, op, carried>>,
         requests' \in {requests, requests + 1}, requests' \in 0..MaxRequests,
         call.why # "none" => call.request = requests' /\ requests' > 0,
         call.why \in Commands => requests' = requests + 1,
         call.why = "verify" => carried[call.request] = 1,
         done' = done \/ \E r \in 1..requests : done' = done \cup {r} /\ carried[r] = 1
  PROVE  CommandInv'
  <1>1. /\ DOMAIN caller' = Callers /\ User' = call
        /\ \A d \in Callers : d # "user" => caller'[d] = caller[d]
    BY DEF CommandInv, RequestShapes, Callers, User
  <1>2. RequestShapes'
    BY <1>1 DEF CommandInv, RequestShapes, User
  <1>3. OpInv'
    BY <1>1 DEF CommandInv, OpInv, Serves
  <1>4. WayInv'
    BY DEF CommandInv, WayInv, Carrying
  <1>5. CountInv'
    <2>1. requests \in Nat /\ done \subseteq 1..requests
      BY DEF CommandInv, CountInv
    <2>2. done' \subseteq 1..requests
      BY <2>1
    <2>3. 1..requests \subseteq 1..requests' /\ \A r : r > requests' => r > requests \/ r \notin Nat
      BY <2>1
    <2>4. \A r \in 0..MaxRequests : r > requests' => carried'[r] = 0
      BY <2>3 DEF CommandInv, CountInv
    <2>5. \A r \in done' : carried'[r] = 1
      BY DEF CommandInv, CountInv
    <2>6. QED
      BY <1>1, <2>2, <2>3, <2>4, <2>5 DEF CommandInv, CountInv
  <1>6. UserInv'
    <2>1. call.why \in Commands => carried[call.request] = 0
      <3>1. SUFFICES ASSUME call.why \in Commands PROVE carried[call.request] = 0
        OBVIOUS
      <3>2. call.request = requests + 1 /\ call.request \in 0..MaxRequests
        BY <3>1 DEF Commands
      <3>3. requests + 1 > requests
        BY DEF CommandInv, CountInv
      <3>4. QED
        BY <3>2, <3>3 DEF CommandInv, CountInv
    <2>2. QED
      BY <1>1, <2>1 DEF UserInv
  <1>7. QED
    BY <1>2, <1>3, <1>4, <1>5, <1>6 DEF CommandInv

LEMMA UserAsksCommand ==
  ASSUME CommandInv, UserAsks
  PROVE  CommandInv'
  <1>1. /\ UNCHANGED <<session, op, carried, done>> /\ requests' = requests + 1
        /\ requests < MaxRequests
    BY DEF UserAsks
  <1>2. PICK why \in Scripts \ {"unload"} : Calling("user", why, 0, requests + 1)
    BY DEF UserAsks
  <1> DEFINE call == [NoCall EXCEPT !.why = why, !.registers = 0, !.request = requests + 1]
  <1>3. op = Idle /\ caller' = [caller EXCEPT !["user"] = call]
    BY <1>2 DEF Calling
  <1>4. /\ CallFields \subseteq DOMAIN call /\ call.reply = "none"
        /\ call.why = why /\ call.request = requests + 1
    BY DEF NoCall, CallFields
  <1>5. why # "none" /\ why # "verify"
    BY SessionAssumption
  <1>6. requests + 1 \in 0..MaxRequests /\ requests + 1 > 0
    BY <1>1, SessionAssumption DEF CommandInv, CountInv
  <1> HIDE DEF call
  <1>7. QED
    BY <1>1, <1>3, <1>4, <1>5, <1>6, IdleServes, UserCalls

LEMMA UserGoesOnCommand ==
  ASSUME CommandInv, UserGoesOn
  PROVE  CommandInv'
  <1> DEFINE call(step) == IF step = "none" THEN NoCall
                           ELSE [NoCall EXCEPT !.why = step, !.request = User.request]
             Reply(step) == caller' = [caller EXCEPT !["user"] = call(step)]
             Completes == done' = done \cup {User.request}
  <1>1. /\ User.reply # "none" /\ UNCHANGED <<session, op, carried, requests>>
        /\ \/ Reply("drop") /\ UNCHANGED done
           \/ User.reply = "ok" /\ User.why = "command" /\ Completes /\ Reply("none")
           \/ User.reply = "ok" /\ User.why = "rename" /\ Reply("verify") /\ UNCHANGED done
           \/ User.reply = "ok" /\ User.why = "verify" /\ Completes /\ Reply("none")
           \/ User.reply = "ok" /\ User.why = "reboot" /\ Completes /\ Reply("drop")
           \/ Reply("none") /\ UNCHANGED done
    BY DEF UserGoesOn, User
  <1>2. \E step \in {"drop", "none", "verify"} :
          /\ Reply(step)
          /\ step = "verify" => User.reply = "ok" /\ User.why = "rename"
          /\ \/ UNCHANGED done
             \/ Completes /\ User.reply = "ok" /\ User.why \in Commands \cup {"verify"}
    BY <1>1 DEF Commands
  <1>3. PICK step \in {"drop", "none", "verify"} :
          /\ Reply(step)
          /\ step = "verify" => User.reply = "ok" /\ User.why = "rename"
          /\ \/ UNCHANGED done
             \/ Completes /\ User.reply = "ok" /\ User.why \in Commands \cup {"verify"}
    BY <1>2
  <1>4. op.at # "idle" => op.who # "user"
    BY <1>1, RepliedServes DEF User, Callers
  <1>5. /\ CallFields \subseteq DOMAIN call(step) /\ call(step).reply = "none"
        /\ call(step).why = step
        /\ step # "none" => call(step).request = User.request
    BY NoCallAny DEF NoCall, CallFields
  <1>6. User.request = requests /\ requests > 0 /\ requests \in 0..MaxRequests
    BY <1>1 DEF CommandInv, UserInv, CountInv
  <1>7. /\ step = "verify" => carried[User.request] = 1
        /\ done' = done \/ \E r \in 1..requests : done' = done \cup {r} /\ carried[r] = 1
    <2>1. User.reply = "ok" /\ User.why \in Commands \cup {"verify"} => carried[User.request] = 1
      BY DEF CommandInv, UserInv
    <2>2. User.request \in 1..requests
      BY <1>6
    <2>3. QED
      BY <1>3, <2>1, <2>2 DEF Commands
  <1>8. step \notin Commands
    BY DEF Commands
  <1>9. caller' = [caller EXCEPT !["user"] = call(step)]
    BY <1>3
  <1> HIDE DEF call
  <1>10. QED
    BY <1>1, <1>4, <1>5, <1>6, <1>7, <1>8, <1>9, UserCalls

LEMMA CommandStep == CommandInv /\ [Next]_vars => CommandInv'
  <1> SUFFICES ASSUME CommandInv, [Next]_vars PROVE CommandInv'
    OBVIOUS
  <1>1. ASSUME NEW c \in Callers, Begin(c) PROVE CommandInv'
    BY <1>1, BeginCommand
  <1>2. CASE Open \/ OpenFails \/ Send \/ Receive \/ ListenEnds \/ TimedOut \/ Broken
    BY <1>2, OpenCommand, OpenFailsCommand, SendCommand, ReceiveCommand, ExchangeEndsCommand
  <1>3. CASE Answer \/ GateChanges \/ Drop
    BY <1>3, AnswerCommand, GateChangesCommand, DropCommand
  <1>4. CASE PollBegins \/ PollGoesOn \/ UserAsks \/ UserGoesOn \/ Unload \/ Unloaded
    BY <1>4, PollBeginsCommand, PollGoesOnCommand, UserAsksCommand, UserGoesOnCommand,
       UnloadCommand
  <1>5. CASE UNCHANGED vars
    BY <1>5 DEF vars, CommandInv, RequestShapes, OpInv, Serves, WayInv, UserInv, User,
                Carrying, CountInv
  <1>6. QED
    BY <1>1, <1>2, <1>3, <1>4, <1>5 DEF Next

LEMMA CommandInit == Init => CommandInv
  <1> SUFFICES ASSUME Init PROVE CommandInv
    OBVIOUS
  <1>1. /\ session = NoSession /\ op = Idle /\ done = {} /\ requests = 0
        /\ carried = [r \in 0..MaxRequests |-> 0] /\ caller = [c \in Callers |-> NoCall]
    BY DEF Init
  <1>2. RequestShapes
    BY <1>1, NoCallAny DEF RequestShapes, SessionFields, OpFields, NoSession, Idle
  <1>3. OpInv
    BY <1>1 DEF OpInv, Idle
  <1>4. WayInv
    BY <1>1, EmptyWay DEF WayInv, NoSession
  <1>5. User.why = "none" /\ User.reply = "none"
    BY <1>1, NoCallAny DEF User, Callers
  <1>6. UserInv
    BY <1>5 DEF UserInv, Commands
  <1>7. CountInv
    BY <1>1, NoCallAny, SessionAssumption DEF CountInv, Commands
  <1>8. QED
    BY <1>2, <1>3, <1>4, <1>6, <1>7 DEF CommandInv

\* client.py 388-399: a write is sent on one session and never again, so that the
\* interface carries no command out twice; one that is reported as completed was
\* carried out (administration.py 129-179).
THEOREM CommandsOnce == Spec => []CarriedAsReported
  <1>1. CommandInv => CarriedAsReported
    BY DEF CommandInv, CountInv, CarriedAsReported
  <1>2. QED
    BY CommandInit, CommandStep, <1>1, PTL DEF Spec

-----------------------------------------------------------------------------
(* A connection lost before a read began is forgiven. *)

\* The second attempt of an operation that met no fault has a live connection, or
\* opens one: its failure can only be a fault it meets.
Fresh(s, o) ==
  o.at # "idle" /\ o.attempt = 2 /\ ~o.hurt => s.alive \/ (o.at = "ensure" /\ s.key = 0)
HurtInv == CommandInv /\ op.attempt \in {1, 2} /\ Fresh(session, op)

\* What a caller may never get: the failure of a read that met no fault.
Forgiven(c) ==
  caller[c].reply = "none" /\ caller'[c].reply \in Errors
  /\ KindOf(caller[c].why) \in {"status", "nhk", "info"} => caller'[c].hurt

\* An outcome that keeps the invariant and gives no caller that.
Forgiving(out) ==
  /\ out.op.attempt \in {1, 2} /\ Fresh(out.session, out.op)
  /\ out.reply # "none" => SameCall(out.of)
  /\ out.reply \in Errors /\ Reading(out.of) => out.of.hurt

ForgivenStep == HurtInv' /\ \A c \in Callers : Forgiven(c)

LEMMA ForgivingStep ==
  ASSUME HurtInv, CommandInv', NEW out, Outcome(out), Forgiving(out), op.at = "idle" => out.reply = "none"
  PROVE  ForgivenStep
  <1>1. session' = out.session /\ op' = out.op
    BY DEF Outcome
  <1>2. HurtInv'
    BY <1>1 DEF HurtInv, Forgiving, Fresh
  <1>3. out.reply # "none" => Serves(out.of) /\ SameCall(out.of)
    BY SameServes DEF HurtInv, Forgiving
  <1>4. \A c \in Callers :
          IF out.reply # "none" /\ c = out.of.who
          THEN caller'[c].reply = out.reply /\ caller'[c].hurt = out.of.hurt
          ELSE caller'[c].reply = caller[c].reply
    BY <1>3, OutcomeCaller DEF HurtInv, CommandInv, Serves
  <1>5. ASSUME NEW c \in Callers, caller[c].reply = "none", caller'[c].reply \in Errors,
               KindOf(caller[c].why) \in {"status", "nhk", "info"}
        PROVE  caller'[c].hurt
    <2>1. out.reply # "none" /\ c = out.of.who /\ out.reply \in Errors
          /\ caller'[c].hurt = out.of.hurt
      BY <1>4, <1>5 DEF Errors
    <2>2. Reading(out.of)
      BY <1>3, <1>5, <2>1 DEF Serves, Reading
    <2>3. QED
      BY <2>1, <2>2 DEF Forgiving
  <1>6. QED
    BY <1>2, <1>5 DEF Forgiven, ForgivenStep

LEMMA GoesForgiving ==
  ASSUME NEW s, NEW o, o.attempt \in {1, 2}, Fresh(s, o)
  PROVE  Forgiving(Goes(s, o))
  BY OutcomeFields DEF Forgiving, Errors

LEMMA EndsForgiving ==
  ASSUME NEW s, NEW o, SameCall(o)
  PROVE  Forgiving(Ends(s, o, "ok"))
  <1>1. Idle.attempt = 1 /\ Idle.at = "idle"
    BY DEF Idle
  <1>2. QED
    BY <1>1, OutcomeFields DEF Forgiving, Fresh, Errors

\* An operation fails after a fault, or on its first attempt.
LEMMA FailedForgiving ==
  ASSUME NEW s, NEW o, NEW error, SameCall(o), o.attempt \in {1, 2},
         o.hurt \/ (error # "auth" /\ o.attempt = 1)
  PROVE  Forgiving(Failed(s, o, error))
  <1>1. Idle.attempt = 1 /\ Idle.at = "idle"
    BY DEF Idle
  <1>2. CASE Reading(o) /\ error # "auth" /\ o.attempt = 1
    <2>1. Failed(s, o, error) = Goes(Closed(s), Again(o))
      BY <1>2 DEF Failed
    <2>2. Again(o).attempt = 2 /\ Again(o).at = "ensure" /\ Closed(s).key = 0
      BY AgainFields, ClosedQuiet DEF SameCall
    <2>3. Fresh(Closed(s), Again(o))
      BY <2>2 DEF Fresh
    <2>4. QED
      BY <2>1, <2>2, <2>3, GoesForgiving
  <1>3. CASE ~(Reading(o) /\ error # "auth" /\ o.attempt = 1)
    <2>1. \/ Failed(s, o, error) = Ends(s, o, error)
          \/ Failed(s, o, error) = Ends(Closed(s), o, error)
      BY <1>3 DEF Failed
    <2>2. Reading(o) => o.hurt
      BY <1>3
    <2>3. QED
      BY <1>1, <2>1, <2>2, OutcomeFields DEF Forgiving, Fresh
  <1>4. QED
    BY <1>2, <1>3

LEMMA HurtCall ==
  ASSUME HurtInv
  PROVE  /\ SameCall(op) /\ SameCall(Hurt(op)) /\ Hurt(op).hurt
         /\ Hurt(op).attempt \in {1, 2} /\ OpFields \subseteq DOMAIN op
         /\ SameCall(Hurt(Hurt(op))) /\ Hurt(Hurt(op)).hurt
         /\ Hurt(Hurt(op)).attempt \in {1, 2}
  <1>1. OpFields \subseteq DOMAIN op
    BY DEF HurtInv, CommandInv, RequestShapes
  <1>2. /\ DOMAIN Hurt(op) = DOMAIN op /\ Hurt(op).hurt = TRUE
        /\ Hurt(op).who = op.who /\ Hurt(op).kind = op.kind /\ Hurt(op).request = op.request
        /\ Hurt(op).attempt = op.attempt
    BY <1>1, HurtFields
  <1>3. /\ DOMAIN Hurt(Hurt(op)) = DOMAIN op /\ Hurt(Hurt(op)).hurt = TRUE
        /\ Hurt(Hurt(op)).who = op.who /\ Hurt(Hurt(op)).kind = op.kind
        /\ Hurt(Hurt(op)).request = op.request /\ Hurt(Hurt(op)).attempt = op.attempt
    BY <1>1, <1>2, HurtFields
  <1>4. QED
    BY <1>1, <1>2, <1>3 DEF SameCall, HurtInv

LEMMA BeginForgiven ==
  ASSUME HurtInv, NEW c \in Callers, Begin(c)
  PROVE  ForgivenStep
  <1> DEFINE o == [Idle EXCEPT !.who = c, !.kind = KindOf(caller[c].why), !.at = "ensure",
                               !.total = caller[c].registers, !.left = caller[c].registers,
                               !.request = caller[c].request]
  <1>1. CommandInv'
    BY BeginCommand DEF HurtInv
  <1>2. \/ Outcome(Ends(Closed(session), o, "ok"))
        \/ Outcome(Goes(session, o))
    BY DEF Begin
  <1>3. o.attempt = 1 /\ o.who = c /\ caller[c].reply = "none"
    BY DEF Idle, Begin
  <1> HIDE DEF o
  <1>4. CASE Outcome(Goes(session, o))
    <2>1. Forgiving(Goes(session, o))
      BY <1>3, GoesForgiving DEF Fresh
    <2>2. Goes(session, o).reply = "none"
      BY OutcomeFields
    <2>3. QED
      BY <1>1, <1>4, <2>1, <2>2, ForgivingStep
  <1>5. CASE Outcome(Ends(Closed(session), o, "ok"))
    <2>1. session' = Closed(session) /\ op' = Idle
      BY <1>5, OutcomeFields DEF Outcome
    <2>2. HurtInv'
      BY <1>1, <2>1 DEF HurtInv, Fresh, Idle
    <2>3. \A d \in Callers : caller'[d].reply = "ok" \/ caller'[d].reply = caller[d].reply
      BY <1>3, <1>5, OutcomeFields, OutcomeCaller DEF HurtInv, CommandInv
    <2>4. QED
      BY <2>2, <2>3 DEF ForgivenStep, Forgiven, Errors
  <1>6. QED
    BY <1>2, <1>4, <1>5

LEMMA OpenForgiven ==
  ASSUME HurtInv, Open \/ OpenFails
  PROVE  ForgivenStep
  <1>1. CommandInv' /\ op.at = "ensure" /\ op.attempt \in {1, 2}
    BY OpenCommand, OpenFailsCommand DEF HurtInv, Open, OpenFails
  <1>2. CASE Open
    <2> DEFINE s == Ensured(session)
               o == [op EXCEPT !.at = "connect"]
    <2>1. "alive" \in DOMAIN s
      BY ClosedQuiet DEF Ensured, SessionFields
    <2> HIDE DEF s
    <2>2. PICK d \in 1..3 \ s.open :
            Outcome(Goes([s EXCEPT !.conn = d, !.alive = TRUE, !.open = @ \cup {d}], o))
      BY <1>2 DEF Open, s
    <2> DEFINE t == [s EXCEPT !.conn = d, !.alive = TRUE, !.open = @ \cup {d}]
    <2>3. t.alive = TRUE
      BY <2>1
    <2>4. o.attempt = op.attempt
      BY HurtCall DEF OpFields
    <2>5. Outcome(Goes(t, o))
      BY <2>2
    <2> HIDE DEF t, o
    <2>6. Forgiving(Goes(t, o))
      BY <1>1, <2>3, <2>4, GoesForgiving DEF Fresh
    <2>7. QED
      BY <1>1, <2>5, <2>6, ForgivingStep
  <1>3. CASE OpenFails
    <2> DEFINE s == Ensured(session)
               o == [Hurt(op) EXCEPT !.tries = @ + 1]
    <2>1. Outcome(Goes(s, o)) \/ Outcome(Failed(s, Hurt(op), "connection"))
      BY <1>3 DEF OpenFails
    <2>2. o.hurt = TRUE /\ o.attempt \in {1, 2}
      BY HurtCall, HurtFields DEF OpFields
    <2> HIDE DEF s, o
    <2>3. Forgiving(Goes(s, o)) /\ Forgiving(Failed(s, Hurt(op), "connection"))
      BY <2>2, HurtCall, GoesForgiving, FailedForgiving DEF Fresh
    <2>4. QED
      BY <1>1, <2>1, <2>3, ForgivingStep
  <1>4. QED
    BY <1>2, <1>3

LEMMA SendForgiven ==
  ASSUME HurtInv, Send
  PROVE  ForgivenStep
  <1> DEFINE connecting == op.at = "connect"
             id == IF connecting THEN 0 ELSE session.sequence
             type == IF connecting THEN "CONNECT" ELSE TypeOf(op.kind)
             m == [type |-> type, id |-> id, request |-> op.request]
             t == [session EXCEPT !.sequence = IF connecting THEN @ ELSE @ + 1,
                        !.wire = Append(@, m)]
             o == [op EXCEPT !.at = IF connecting THEN "connecting" ELSE "sent",
                             !.awaits = id, !.seen = {}]
  <1>1. CommandInv' /\ op.at # "idle"
    BY SendCommand DEF HurtInv, Send
  <1>2. \/ session.alive /\ Outcome(Goes(t, o))
        \/ ~session.alive /\ Outcome(Failed(session, op, "connection"))
    BY DEF Send
  <1>3. t.alive = session.alive /\ o.attempt = op.attempt
    BY HurtCall DEF OpFields, HurtInv, CommandInv, RequestShapes, SessionFields
  <1> HIDE DEF t, o
  <1>4. CASE session.alive /\ Outcome(Goes(t, o))
    <2>1. t.alive
      BY <1>3, <1>4
    <2>2. Fresh(t, o)
      BY <2>1 DEF Fresh
    <2>3. o.attempt \in {1, 2}
      BY <1>3 DEF HurtInv
    <2>4. Forgiving(Goes(t, o))
      BY <2>2, <2>3, GoesForgiving
    <2>5. QED
      BY <1>1, <1>4, <2>4, ForgivingStep
  <1>5. CASE ~session.alive /\ Outcome(Failed(session, op, "connection"))
    <2>1. op.at # "ensure" \/ session.key # 0
      BY DEF Send, Usable
    <2>2. op.attempt = 1 \/ op.hurt
      BY <1>1, <1>5, <2>1 DEF HurtInv, Fresh
    <2>3. Forgiving(Failed(session, op, "connection"))
      BY <2>2, HurtCall, FailedForgiving DEF HurtInv
    <2>4. QED
      BY <1>1, <1>5, <2>3, ForgivingStep
  <1>6. QED
    BY <1>2, <1>4, <1>5

LEMMA AnsweredForgiving ==
  ASSUME HurtInv, NEW t, NEW f, Matches(f), t.alive = session.alive
  PROVE  Forgiving(Answered(t, op, f))
  <1>1. op.attempt = 2 /\ ~op.hurt => t.alive
    BY DEF HurtInv, Fresh, Matches
  <1>2. op.attempt \in {1, 2} /\ OpFields \subseteq DOMAIN op /\ SameCall(op)
    BY HurtCall DEF HurtInv
  <1>3. ASSUME NEW o, NEW s, o.attempt = op.attempt, o.hurt = op.hurt, s.alive = t.alive
        PROVE  Forgiving(Goes(s, o))
    BY <1>1, <1>2, <1>3, GoesForgiving DEF Fresh
  <1>4. ASSUME NEW error PROVE Forgiving(Failed(t, Hurt(op), error))
    BY HurtCall, FailedForgiving
  <1>5. Forgiving(Connected(t, op, f))
    <2> DEFINE s == [t EXCEPT !.key = t.conn, !.sequence = 1]
               o == [op EXCEPT !.at = "send"]
    <2>1. \/ Connected(t, op, f) = Goes(s, o)
          \/ \E error : Connected(t, op, f) = Failed(t, Hurt(op), error)
      BY DEF Connected
    <2>2. s.alive = t.alive /\ o.attempt = op.attempt /\ o.hurt = op.hurt
      BY <1>2 DEF OpFields
    <2> HIDE DEF s, o
    <2>3. Forgiving(Goes(s, o))
      BY <1>3, <2>2
    <2>4. QED
      BY <1>4, <2>1, <2>3
  <1>6. Forgiving(RegisterRead(t, op, f))
    <2> DEFINE o == [op EXCEPT !.left = @ - 1, !.at = "send"]
    <2>1. \/ RegisterRead(t, op, f) = Goes(t, o)
          \/ RegisterRead(t, op, f) = Ends(t, op, "ok")
          \/ \E error : RegisterRead(t, op, f) = Failed(t, Hurt(op), error)
      BY DEF RegisterRead
    <2>2. o.attempt = op.attempt /\ o.hurt = op.hurt
      BY <1>2 DEF OpFields
    <2> HIDE DEF o
    <2>3. Forgiving(Goes(t, o))
      BY <1>3, <2>2
    <2>4. QED
      BY <1>2, <1>4, <2>1, <2>3, EndsForgiving
  <1>7. Forgiving(Goes(t, [op EXCEPT !.at = "listening", !.seen = @ \cup {f.body}]))
    <2> DEFINE o == [op EXCEPT !.at = "listening", !.seen = @ \cup {f.body}]
    <2>1. o.attempt = op.attempt /\ o.hurt = op.hurt
      BY <1>2 DEF OpFields
    <2> HIDE DEF o
    <2>2. Forgiving(Goes(t, o))
      BY <1>3, <2>1
    <2>3. QED
      BY <2>2 DEF o
  <1>8. \/ Answered(t, op, f) = Connected(t, op, f)
        \/ Answered(t, op, f) = RegisterRead(t, op, f)
        \/ Answered(t, op, f) = Goes(t, [op EXCEPT !.at = "listening", !.seen = @ \cup {f.body}])
        \/ Answered(t, op, f) = Ends(t, op, "ok")
        \/ Answered(t, op, f) = Failed(t, Hurt(op), "connection")
    BY DEF Answered
  <1>9. QED
    BY <1>2, <1>4, <1>5, <1>6, <1>7, <1>8, EndsForgiving

LEMMA ReceiveForgiven ==
  ASSUME HurtInv, Receive
  PROVE  ForgivenStep
  <1> DEFINE f == Head(session.frames)
             t == [session EXCEPT !.frames = Tail(@)]
             o == [op EXCEPT !.seen = IF Awaiting /\ op.kind = "nhk"
                                        THEN @ \cup {f.body} ELSE @]
  <1>1. \/ Matches(f) /\ Outcome(Answered(t, op, f))
        \/ Outcome(Goes(t, o))
    BY DEF Receive
  <1>2. CommandInv'
    BY ReceiveCommand DEF HurtInv
  <1>3. t.alive = session.alive /\ t.key = session.key
    BY DEF HurtInv, CommandInv, RequestShapes, SessionFields
  <1>4. o.attempt = op.attempt /\ o.hurt = op.hurt /\ o.at = op.at
    BY HurtCall DEF OpFields
  <1> HIDE DEF f, t, o
  <1>5. CASE Matches(f) /\ Outcome(Answered(t, op, f))
    <2>1. Forgiving(Answered(t, op, f))
      BY <1>3, <1>5, AnsweredForgiving
    <2>2. op.at # "idle"
      BY <1>5 DEF Matches
    <2>3. QED
      BY <1>2, <1>5, <2>1, <2>2, ForgivingStep
  <1>6. CASE Outcome(Goes(t, o))
    <2>1. Fresh(t, o) /\ o.attempt \in {1, 2}
      BY <1>3, <1>4 DEF HurtInv, Fresh
    <2>2. Forgiving(Goes(t, o)) /\ Goes(t, o).reply = "none"
      BY <2>1, GoesForgiving, OutcomeFields
    <2>3. QED
      BY <1>2, <1>6, <2>2, ForgivingStep
  <1>7. QED
    BY <1>1, <1>5, <1>6

LEMMA ExchangeEndsForgiven ==
  ASSUME HurtInv, ListenEnds \/ TimedOut \/ Broken
  PROVE  ForgivenStep
  <1>1. CommandInv' /\ op.at # "idle"
    BY ExchangeEndsCommand DEF HurtInv, ListenEnds, TimedOut, Broken, Awaiting
  <1>2. \/ Outcome(Failed(session, Hurt(op), "connection"))
        \/ Outcome(Failed(session, Hurt(Hurt(op)), "connection"))
        \/ Outcome(Ends(session, op, "ok"))
        \/ Outcome(Ends(session, Hurt(op), "ok"))
    BY DEF ListenEnds, TimedOut, Broken, StatusParsed
  <1>3. /\ Forgiving(Failed(session, Hurt(op), "connection"))
        /\ Forgiving(Failed(session, Hurt(Hurt(op)), "connection"))
        /\ Forgiving(Ends(session, op, "ok")) /\ Forgiving(Ends(session, Hurt(op), "ok"))
    BY HurtCall, FailedForgiving, EndsForgiving
  <1>4. QED
    BY <1>1, <1>2, <1>3, ForgivingStep

\* The interface and the network reply to no caller.
LEMMA InterfaceForgiven ==
  ASSUME HurtInv, Answer \/ GateChanges \/ Drop
  PROVE  ForgivenStep
  <1>1. CommandInv' /\ UNCHANGED caller
    BY AnswerCommand, GateChangesCommand, DropCommand
       DEF HurtInv, Answer, GateChanges, Drop, callVars
  <1>2. CASE Answer \/ GateChanges
    <2>1. UNCHANGED op
      BY <1>2 DEF Answer, GateChanges
    <2>2. session'.alive = session.alive /\ session'.key = session.key
      BY <1>2 DEF Answer, GateChanges, HurtInv, CommandInv, RequestShapes, SessionFields
    <2>3. HurtInv'
      BY <1>1, <2>1, <2>2 DEF HurtInv, Fresh
    <2>4. QED
      BY <1>1, <2>3 DEF ForgivenStep, Forgiven, Errors
  <1>3. CASE Drop
    <2>1. op' = [op EXCEPT !.hurt = op # Idle]
      BY <1>3 DEF Drop
    <2>2. op'.attempt = op.attempt /\ op'.at = op.at
      BY <2>1, HurtCall DEF OpFields
    <2>3. ASSUME op.at # "idle"
          PROVE  op'.hurt
      <3>1. op # Idle
        BY <2>3 DEF Idle
      <3>2. (op # Idle) = TRUE
        BY <3>1
      <3>3. op' = [op EXCEPT !.hurt = TRUE]
        BY <2>1, <3>2, Zenon
      <3>4. QED
        BY <3>3, HurtCall DEF OpFields
    <2>4. HurtInv'
      BY <1>1, <2>2, <2>3 DEF HurtInv, Fresh
    <2>5. QED
      BY <1>1, <2>4 DEF ForgivenStep, Forgiven, Errors
  <1>4. QED
    BY <1>2, <1>3

\* A caller that makes its call, or comes to its next, has no reply yet.
LEMMA CallersForgiven ==
  ASSUME HurtInv, CommandInv', UNCHANGED <<session, op>>, NEW c \in Callers, NEW call,
         call.reply = "none", caller' = [caller EXCEPT ![c] = call]
  PROVE  ForgivenStep
  <1>1. HurtInv'
    BY DEF HurtInv, Fresh
  <1>2. \A d \in Callers : caller'[d].reply = "none" \/ caller'[d] = caller[d]
    BY DEF HurtInv, CommandInv, RequestShapes
  <1>3. QED
    BY <1>1, <1>2 DEF ForgivenStep, Forgiven, Errors

LEMMA CallingForgiven ==
  ASSUME HurtInv, \/ PollBegins \/ PollGoesOn \/ UserAsks \/ UserGoesOn \/ Unload \/ Unloaded
                  \/ UNCHANGED vars
  PROVE  ForgivenStep
  <1>1. CommandInv' /\ UNCHANGED <<session, op>>
    <2>1. CommandInv'
      BY CommandStep DEF HurtInv, Next
    <2>2. UNCHANGED <<session, op>>
      BY DEF PollBegins, PollGoesOn, UserAsks, UserGoesOn, Unload, Unloaded, vars
    <2>3. QED
      BY <2>1, <2>2
  <1>2. \A why, registers, request :
          [NoCall EXCEPT !.why = why, !.registers = registers, !.request = request].reply
             = "none"
    BY DEF NoCall
  <1>3. \A why, request :
          /\ [NoCall EXCEPT !.why = why].reply = "none"
          /\ [NoCall EXCEPT !.why = why, !.request = request].reply = "none"
    BY DEF NoCall
  <1>4. {"poll", "user", "unload"} = Callers /\ NoCall.reply = "none"
    BY NoCallAny DEF Callers
  <1>5. \/ UNCHANGED caller
        \/ \E c \in Callers : \E call :
              call.reply = "none" /\ caller' = [caller EXCEPT ![c] = call]
    <2>1. ASSUME NEW c \in Callers, NEW why, NEW registers, NEW request,
                 Calling(c, why, registers, request)
          PROVE  \E d \in Callers : \E call :
                    call.reply = "none" /\ caller' = [caller EXCEPT ![d] = call]
      BY <1>2, <2>1 DEF Calling
    <2>2. CASE PollBegins \/ UserAsks \/ Unload
      BY <1>4, <2>1, <2>2 DEF PollBegins, UserAsks, Unload
    <2>3. CASE PollGoesOn
      <3>1. \E why : caller' = [caller EXCEPT !["poll"] =
                       IF why = "none" THEN NoCall ELSE [NoCall EXCEPT !.why = why]]
        BY <2>3 DEF PollGoesOn
      <3>2. QED
        BY <1>3, <1>4, <3>1
    <2>4. CASE UserGoesOn
      <3>1. \E why, request : caller' = [caller EXCEPT !["user"] =
               IF why = "none" THEN NoCall
               ELSE [NoCall EXCEPT !.why = why, !.request = request]]
        BY <2>4 DEF UserGoesOn
      <3>2. QED
        BY <1>3, <1>4, <3>1
    <2>5. CASE Unloaded
      BY <1>4, <2>5 DEF Unloaded
    <2>6. QED
      BY <2>2, <2>3, <2>4, <2>5 DEF vars
  <1>6. CASE UNCHANGED caller
    BY <1>1, <1>6 DEF ForgivenStep, Forgiven, HurtInv, Fresh, Errors
  <1>7. QED
    BY <1>1, <1>5, <1>6, CallersForgiven

LEMMA NextForgiven ==
  ASSUME HurtInv, [Next]_vars
  PROVE  ForgivenStep
  <1>1. ASSUME NEW c \in Callers, Begin(c) PROVE ForgivenStep
    BY <1>1, BeginForgiven
  <1>2. CASE Open \/ OpenFails \/ Send \/ Receive \/ ListenEnds \/ TimedOut \/ Broken
    BY <1>2, OpenForgiven, SendForgiven, ReceiveForgiven, ExchangeEndsForgiven
  <1>3. CASE Answer \/ GateChanges \/ Drop
    BY <1>3, InterfaceForgiven
  <1>4. CASE \/ PollBegins \/ PollGoesOn \/ UserAsks \/ UserGoesOn \/ Unload \/ Unloaded
             \/ UNCHANGED vars
    BY <1>4, CallingForgiven
  <1>5. QED
    BY <1>1, <1>2, <1>3, <1>4 DEF Next

\* client.py 367-386: a read that fails met a fault while it ran.  A connection
\* lost before it began costs it an attempt, and the second is on a new one.
THEOREM DropForgiven == Spec => OneDropIsForgiven
  <1>1. Init => HurtInv
    BY CommandInit DEF Init, HurtInv, Fresh, Idle
  <1>2. HurtInv /\ [Next]_vars => HurtInv'
    BY NextForgiven DEF ForgivenStep
  <1>3. ASSUME HurtInv, [Next]_vars
        PROVE  [\A c \in Callers :
                   caller[c].reply = "none" /\ caller'[c].reply \in Errors
                   /\ KindOf(caller[c].why) \in {"status", "nhk", "info"}
                      => caller'[c].hurt]_vars
    BY <1>3, NextForgiven DEF ForgivenStep, Forgiven
  <1>4. QED
    BY <1>1, <1>2, <1>3, PTL DEF Spec, OneDropIsForgiven

=============================================================================
