--------------------------- MODULE ClientSession ---------------------------
(***************************************************************************)
(* One device client (client.py) and those who call it: the coordinator's  *)
(* poll with its ways out of DMP polling (coordinator.py), commands, the   *)
(* administration requests (controllers/administration.py), the connection *)
(* test of the config flow, and the close at unload.                       *)
(*                                                                         *)
(* A client operation holds the client's lock from Begin to its end; the   *)
(* callers, executor threads all, interleave between operations.  The      *)
(* interface answers the requests of a connection in order; it may be      *)
(* silent, refuse, answer with an error, or go.                            *)
(*                                                                         *)
(* A request's id has the low byte of the session's number in it: the      *)
(* interface may give each session the same one, so the id is its sequence *)
(* number alone.                                                           *)
(***************************************************************************)
EXTENDS Naturals, Sequences, FiniteSets

CONSTANTS Devices,      \* what interfaces may offer: [dmp, readable, actions]
          Core,         \* number of registers of CORE_STATUS_PROFILE
          Extended,     \* number of registers of the optional profiles
          OPEN_TRIES,   \* times _open_locked tries to connect, 3 in the code
          Scripts,      \* what the callers ask for
          MaxPolls, MaxRequests, \* bounds: polls; commands and administration requests
          MaxMoves,     \* bound: changes of the gate
          MaxFaults,    \* bound: faults of the interface and the network
          Budget        \* bound: all of these together, a request counting double

ASSUME SessionAssumption ==
    /\ Devices \subseteq [dmp : BOOLEAN, readable : BOOLEAN, actions : BOOLEAN]
    /\ {Core, OPEN_TRIES} \subseteq Nat \ {0}
    /\ {Extended, MaxPolls, MaxRequests, MaxMoves, MaxFaults, Budget} \subseteq Nat
    /\ Scripts \subseteq {"command", "rename", "reboot", "logs", "reconnect", "unload"}

VARIABLES device,    \* the interface: what its INFO offers
          owner,     \* "entry": a coordinator's client; "setup": the config flow's
          session,   \* the client's connection and what is on its way there
          op,        \* the operation that holds the lock, or Idle
          door,      \* changes of the gate so far
          carried,   \* how often the interface carried each request out
          caller,    \* what each caller is about
          poller,    \* status_polling_supported, _use_nhk_status; is device_info read
          done,      \* requests reported as completed
          unloaded,  \* the entry's platforms are unloaded
          polls, requests, faults  \* so far

callVars == <<caller, poller, done, unloaded, polls, requests>>
Affordable == polls + 2 * requests + door + faults < Budget
Fault == Affordable /\ faults < MaxFaults /\ faults' = faults + 1
fixedVars == <<device, owner>>
vars == <<device, owner, session, op, door, carried, caller, poller, done, unloaded,
          polls, requests, faults>>

Callers == {"poll", "user", "unload"}
Errors == {"connection", "code14", "auth"}

\* The client operation behind each step of a caller.
KindOf(why) ==
    CASE why = "status" -> "status"
      [] why \in {"switch", "nhk", "confirm"} -> "nhk"
      [] why \in {"command", "rename", "reboot"} -> "command"
      [] why \in {"drop", "reconnect", "unload"} -> "close"
      [] OTHER -> "info"
TypeOf(kind) == [status |-> "T4_REQUEST", nhk |-> "STATUS", info |-> "INFO",
                 command |-> "CHANGE", close |-> "none"][kind]
Reading(o) == o.kind \in {"status", "nhk", "info"}

\* conn and alive: _transport; open: the connections not closed at this end.
NoSession == [conn |-> 0, alive |-> FALSE, open |-> {}, key |-> 0, sequence |-> 1,
              wire |-> <<>>, frames |-> <<>>]
\* seen: the bodies of the exchange's frames; hurt: did anything go wrong since
\* the operation began.
Idle == [who |-> "none", kind |-> "close", at |-> "idle", attempt |-> 1, tries |-> 0,
         total |-> 0, left |-> 0, awaits |-> 0, request |-> 0, seen |-> {},
         hurt |-> FALSE]
NoCall == [why |-> "none", reply |-> "none", hurt |-> FALSE, registers |-> 0, request |-> 0]

---------------------------------------------------------------------------
(* The session *)

\* _close_locked: the dispatcher closes the transport, which clears its buffer.
Closed(s) == [NoSession EXCEPT !.open = s.open \ {s.conn}]

\* What an operation o comes to: it goes on, or its caller has a reply.
Goes(s, o) == [session |-> s, op |-> o, reply |-> "none", of |-> o]
Ends(s, o, reply) == [session |-> s, op |-> Idle, reply |-> reply, of |-> o]
Again(o) == [o EXCEPT !.at = "ensure", !.attempt = 2, !.tries = 0, !.left = o.total,
                      !.seen = {}]

FailedRetryingAll(s, o, error) ==  \* mutant: a write is tried on a second session too
    IF error = "auth" THEN Ends(Closed(s), o, error)
    ELSE IF o.attempt = 1 THEN Goes(Closed(s), Again(o))
    ELSE Ends(Closed(s), o, error)

FailedKeepingSession(s, o, error) ==  \* mutant: the second attempt is on the old session
    IF Reading(o) /\ error = "auth" THEN Ends(s, o, error)
    ELSE IF Reading(o) /\ o.attempt = 1 THEN Goes(s, Again(o))
    ELSE Ends(Closed(s), o, error)

FailedForever(s, o, error) ==  \* mutant: the attempts are not counted
    IF Reading(o) /\ error = "auth" THEN Ends(s, o, error)
    ELSE IF Reading(o) THEN Goes(Closed(s), [Again(o) EXCEPT !.attempt = 1])
    ELSE Ends(Closed(s), o, error)

\* An exception leaves the operation.  _run_with_reconnect tries a read once
\* more on a new session, but lets a refusal through, which leaves the
\* connection; _run_command_once closes it and never tries again.
Failed(s, o, error) ==
    IF Reading(o) /\ error = "auth" THEN Ends(s, o, error)
    ELSE IF Reading(o) /\ o.attempt = 1 THEN Goes(Closed(s), Again(o))
    ELSE Ends(Closed(s), o, error)

Hurt(o) == [o EXCEPT !.hurt = TRUE]

Outcome(out) ==
    /\ session' = out.session
    /\ op' = out.op
    /\ IF out.reply = "none" THEN UNCHANGED caller
       ELSE caller' = [caller EXCEPT ![out.of.who].reply = out.reply,
                                      ![out.of.who].hurt = out.of.hurt]
    /\ UNCHANGED <<fixedVars, door, carried, poller, done, unloaded, polls, requests>>

\* A caller takes the lock.
Begin(c) ==
    /\ op = Idle
    /\ caller[c].why # "none" /\ caller[c].reply = "none"
    /\ UNCHANGED faults
    /\ LET o == [Idle EXCEPT !.who = c, !.kind = KindOf(caller[c].why), !.at = "ensure",
                             !.total = caller[c].registers, !.left = caller[c].registers,
                             !.request = caller[c].request]
       IN Outcome(IF o.kind = "close" THEN Ends(Closed(session), o, "ok") ELSE Goes(session, o))

EnsuredLeavingOpen(s) ==  \* mutant: a connection without a key is not closed first
    s
\* _ensure_connected_locked finds no usable session: what there is of one is closed.
Ensured(s) == Closed(s)
Usable == session.conn # 0 /\ session.key # 0

\* _open_locked: a transport and its dispatcher.
Open ==
    /\ op.at = "ensure" /\ ~Usable
    /\ UNCHANGED faults
    /\ \E s \in {Ensured(session)} : \E c \in 1..3 \ s.open :
          /\ \A b \in 1..3 \ s.open : c <= b
          /\ Outcome(Goes([s EXCEPT !.conn = c, !.alive = TRUE, !.open = @ \cup {c}],
                          [op EXCEPT !.at = "connect"]))
OpenFails ==
    /\ Fault
    /\ op.at = "ensure" /\ ~Usable
    /\ Outcome(IF op.tries + 1 < OPEN_TRIES
               THEN Goes(Ensured(session), [Hurt(op) EXCEPT !.tries = @ + 1])
               ELSE Failed(Ensured(session), Hurt(op), "connection"))

\* A request leaves: CONNECT with id 0, or a signed one with the next id.  On a
\* dispatcher whose reader has failed, or a socket that has, it is an OSError.
Send ==
    /\ op.at \in {"connect", "send"} \/ (op.at = "ensure" /\ Usable)
    /\ UNCHANGED faults
    /\ LET connecting == op.at = "connect"
           id == IF connecting THEN 0 ELSE session.sequence
           type == IF connecting THEN "CONNECT" ELSE TypeOf(op.kind)
           sent == [session EXCEPT !.sequence = IF connecting THEN @ ELSE @ + 1,
                        !.wire = Append(@, [type |-> type, id |-> id, request |-> op.request])]
       IN Outcome(IF session.alive
                  THEN Goes(sent, [op EXCEPT !.at = IF connecting THEN "connecting" ELSE "sent",
                                             !.awaits = id, !.seen = {}])
                  ELSE Failed(session, op, "connection"))

---------------------------------------------------------------------------
(* The interface and the network *)

\* What the interface may answer; without DMP it answers Code 14.
Bodies(type) ==
    CASE type = "CONNECT" -> {"ok", "refused", "incomplete"}
      [] type = "T4_REQUEST" -> IF device.dmp THEN {"ok", "empty", "error"} ELSE {"code14"}
      [] type = "STATUS" -> IF device.readable THEN {"ok", "error"} ELSE {"error"}
      [] OTHER -> {"ok", "error"}

Answer ==
    /\ session.wire # <<>>
    /\ LET r == Head(session.wire)
       IN \E body \in Bodies(r.type) :
             /\ session' = [session EXCEPT
                               !.wire = Tail(@),
                               !.frames = Append(@, [type |-> r.type, id |-> r.id,
                                                     body |-> body])]
             /\ IF body \in {"ok", "code14"} THEN UNCHANGED faults ELSE Fault
             /\ carried' = IF r.type = "CHANGE" /\ body = "ok"
                           THEN [carried EXCEPT ![r.request] = @ + 1] ELSE carried
    /\ UNCHANGED <<fixedVars, op, door, callVars>>

\* The gate changes, and an interface that reports its state says so.
GateChanges ==
    /\ door < MaxMoves /\ Affordable
    /\ door' = door + 1
    /\ session' = IF session.alive /\ session.key # 0 /\ device.readable
                  THEN [session EXCEPT !.frames =
                           Append(@, [type |-> "EVENT", id |-> 0, body |-> "ok"])]
                  ELSE session
    /\ UNCHANGED <<fixedVars, op, carried, callVars, faults>>

\* The connection goes: frames on the way may still arrive.
Drop ==
    /\ Fault
    /\ session.alive
    /\ \E arriving \in {session.frames, <<>>} :
          session' = [session EXCEPT !.alive = FALSE, !.wire = <<>>, !.frames = arriving]
    /\ op' = [op EXCEPT !.hurt = op # Idle]
    /\ UNCHANGED <<fixedVars, door, carried, callVars>>

---------------------------------------------------------------------------
(* The answers *)

Awaiting == op.at \in {"connecting", "sent", "listening"}
Matches(f) ==
    /\ op.at \in {"connecting", "sent"}
    /\ f.type = IF op.at = "connecting" THEN "CONNECT" ELSE TypeOf(op.kind)
    /\ f.id = op.awaits

\* _connect_locked, with the answer
Connected(s, o, f) ==
    CASE f.body = "ok" -> Goes([s EXCEPT !.key = s.conn, !.sequence = 1],
                               [o EXCEPT !.at = "send"])
      [] f.body = "refused" -> Failed(s, Hurt(o), "auth")
      [] OTHER -> Failed(s, Hurt(o), "connection")

\* A register of _read_status_locked: the first Core ones are required; an
\* answer without payload leaves its register out.
RegisterRead(s, o, f) ==
    LET position == o.total - o.left + 1
        next == [o EXCEPT !.left = @ - 1, !.at = "send"]
    IN IF f.body \in {"error", "code14"} /\ position <= Core
       THEN Failed(s, Hurt(o), IF f.body = "code14" THEN "code14" ELSE "connection")
       ELSE IF next.left > 0 THEN Goes(s, next) ELSE Ends(s, o, "ok")
\* What the operation makes of the awaited answer f.
Answered(s, o, f) ==
    CASE o.at = "connecting" -> Connected(s, o, f)
      [] o.at = "sent" /\ o.kind = "status" -> RegisterRead(s, o, f)
      [] o.at = "sent" /\ o.kind = "nhk" ->
            Goes(s, [o EXCEPT !.at = "listening", !.seen = @ \cup {f.body}])
      [] OTHER -> IF f.body = "ok" THEN Ends(s, o, "ok") ELSE Failed(s, Hurt(o), "connection")

\* The reader takes a frame: the awaited answer goes on with its operation; any
\* other is kept beside the pending exchange.  A client nobody listens to has
\* no reader between exchanges.
Receive ==
    /\ session.frames # <<>>
    /\ UNCHANGED faults
    /\ Awaiting \/ owner = "entry"
    /\ LET f == Head(session.frames)
           s == [session EXCEPT !.frames = Tail(@)]
       IN IF Matches(f) THEN Outcome(Answered(s, op, f))
          ELSE Outcome(Goes(s, [op EXCEPT !.seen = IF Awaiting /\ op.kind = "nhk"
                                                       THEN @ \cup {f.body} ELSE @]))

\* _read_nhk_status_locked, with the frames of its exchange, answered or not:
\* one with a state is needed, and none may be an error.
StatusParsed(o) ==
    Outcome(IF "ok" \in o.seen /\ "error" \notin o.seen THEN Ends(session, o, "ok")
            ELSE Failed(session, Hurt(o), "connection"))

ListenEnds == op.at = "listening" /\ StatusParsed(op) /\ UNCHANGED faults

\* The deadline of an exchange passes.
TimedOut ==
    /\ Fault
    /\ op.at \in {"connecting", "sent"}
    /\ IF op.at = "sent" /\ op.kind = "nhk" THEN StatusParsed(Hurt(op))
       ELSE Outcome(Failed(session, Hurt(op), "connection"))

\* The reader failed: that is seen before a matched response is.
Broken ==
    /\ Awaiting /\ ~session.alive
    /\ UNCHANGED faults
    /\ Outcome(Failed(session, Hurt(op), "connection"))

---------------------------------------------------------------------------
(* The callers *)

StepsDowngradingOnAnyError(why, reply, p) ==
    \* mutant: any failure of a status read leads to the fallback
    IF why = "status" /\ owner = "entry" /\ reply = "connection"
    THEN [why |-> IF p.info /\ device.actions THEN "none" ELSE "fallback",
          poller |-> IF p.info /\ device.actions THEN [p EXCEPT !.mode = "command"] ELSE p]
    ELSE IF why = "fallback" /\ reply = "ok"
    THEN [why |-> "none", poller |-> [mode |-> "command", info |-> TRUE]]
    ELSE [why |-> IF reply = "ok" THEN "none" ELSE "drop", poller |-> p]

\* What the executor job of a poll, or of a connection test, does after the
\* reply to its last client operation: _read_status_and_maybe_info with the
\* close of _async_update_data, and test_connection with the close of
\* _test_route.
Steps(why, reply, p) ==
    LET known == [p EXCEPT !.info = TRUE]
        Goes_(step, q) == [why |-> step, poller |-> q]
        Fallback(q) == CASE device.readable -> Goes_("switch", q)
                         [] ~device.readable /\ device.actions ->
                               Goes_("none", [q EXCEPT !.mode = "command"])
                         [] OTHER -> Goes_("drop", q)
    IN IF why = "drop" THEN Goes_("none", p)
       ELSE IF owner = "setup" THEN
            CASE why = "status" /\ reply = "code14" -> Goes_("identify", p)
              [] why = "identify" /\ reply = "ok" /\ device.readable -> Goes_("confirm", p)
              [] OTHER -> Goes_("drop", p)
       ELSE CASE why = "metadata" -> Goes_("none", IF reply = "ok" THEN known ELSE p)
              [] why = "status" /\ reply = "ok" -> Goes_(IF p.info THEN "none" ELSE "metadata", p)
              [] why = "status" /\ reply = "code14" ->
                     IF p.info THEN Fallback(p) ELSE Goes_("fallback", p)
              [] why = "fallback" /\ reply = "ok" -> Fallback(known)
              [] why = "switch" /\ reply = "ok" -> Goes_("none", [p EXCEPT !.mode = "nhk"])
              [] why = "prepare" /\ reply = "ok" ->
                     Goes_(IF p.mode = "nhk" THEN "nhk" ELSE "none", known)
              [] why = "nhk" /\ reply = "ok" -> Goes_("none", p)
              [] OTHER -> Goes_("drop", p)

\* What waits for the lock does nothing: a call is made when the lock is free.
Calling(c, why, registers, request) ==
    /\ op = Idle
    /\ caller' = [caller EXCEPT ![c] = [NoCall EXCEPT !.why = why, !.registers = registers,
                                                   !.request = request]]

PollBegins ==
    /\ caller["poll"] = NoCall /\ ~unloaded /\ polls < MaxPolls /\ Affordable
    /\ owner = "setup" => polls = 0     \* a test has a client of its own
    /\ polls' = polls + 1
    /\ \/ /\ poller.mode = "dmp"
          /\ \E registers \in {Core, Core + Extended} : Calling("poll", "status", registers, 0)
       \/ /\ poller.mode # "dmp" /\ ~poller.info
          /\ Calling("poll", "prepare", 0, 0)
       \/ /\ poller.mode = "nhk" /\ poller.info
          /\ Calling("poll", "nhk", 0, 0)
       \/ /\ poller.mode = "command" /\ poller.info
          /\ op = Idle /\ UNCHANGED caller
    /\ UNCHANGED <<fixedVars, session, op, door, carried, poller, done, unloaded,
                   requests, faults>>

PollGoesOn ==
    /\ caller["poll"].reply # "none"
    /\ \E step \in {Steps(caller["poll"].why, caller["poll"].reply, poller)} :
          /\ poller' = step.poller
          /\ caller' = [caller EXCEPT !["poll"] =
                           IF step.why = "none" THEN NoCall ELSE [NoCall EXCEPT !.why = step.why]]
    /\ UNCHANGED <<fixedVars, session, op, door, carried, done, unloaded, polls,
                   requests, faults>>

\* A command, an administration request, or the reconnect button.
UserAsks ==
    /\ owner = "entry" /\ ~unloaded
    /\ caller["user"] = NoCall /\ requests < MaxRequests /\ Affordable
    /\ requests' = requests + 1
    /\ \E why \in Scripts \ {"unload"} : Calling("user", why, 0, requests + 1)
    /\ UNCHANGED <<fixedVars, session, op, door, carried, poller, done, unloaded, polls,
                   faults>>

\* _async_send_action and its siblings, and the operations of the administration
\* controller: a rename is verified by reading INFO; a reboot closes the client.
UserGoesOn ==
    /\ caller["user"].reply # "none"
    /\ LET c == caller["user"]
           Goes_(step) == caller' = [caller EXCEPT !["user"] =
                             IF step = "none" THEN NoCall
                             ELSE [NoCall EXCEPT !.why = step, !.request = c.request]]
           Completes == done' = done \cup {c.request}
       IN \/ /\ c.reply # "ok"
             /\ Goes_("drop") /\ UNCHANGED done
          \/ /\ c.reply = "ok" /\ c.why = "command"
             /\ Completes /\ Goes_("none")
          \/ /\ c.reply = "ok" /\ c.why = "rename"
             /\ Goes_("verify") /\ UNCHANGED done
          \/ /\ c.reply = "ok" /\ c.why = "verify"   \* the name is there, or another is
             /\ \/ Completes /\ Goes_("none")
                \/ Goes_("drop") /\ UNCHANGED done
          \/ /\ c.reply = "ok" /\ c.why = "reboot"
             /\ Completes /\ Goes_("drop")
          \/ /\ c.reply = "ok" /\ c.why \in {"logs", "reconnect", "drop"}
             /\ Goes_("none") /\ UNCHANGED done
    /\ UNCHANGED <<fixedVars, session, op, door, carried, poller, unloaded, polls,
                   requests, faults>>

\* async_shutdown of the coordinator, once the platforms are unloaded.
Unload ==
    /\ "unload" \in Scripts /\ owner = "entry" /\ ~unloaded
    /\ unloaded' = TRUE
    /\ Calling("unload", "unload", 0, 0)
    /\ UNCHANGED <<fixedVars, session, op, door, carried, poller, done, polls, requests,
                   faults>>
Unloaded ==
    /\ caller["unload"].reply # "none"
    /\ caller' = [caller EXCEPT !["unload"] = NoCall]
    /\ UNCHANGED <<fixedVars, session, op, door, carried, poller, done, unloaded, polls,
                   requests, faults>>

---------------------------------------------------------------------------
Init ==
    /\ device \in Devices
    /\ owner \in {"entry", "setup"}
    /\ session = NoSession
    /\ op = Idle
    /\ door = 0
    /\ carried = [r \in 0..MaxRequests |-> 0]
    /\ caller = [c \in Callers |-> NoCall]
    /\ poller = [mode |-> "dmp", info |-> FALSE]
    /\ done = {}
    /\ unloaded = FALSE
    /\ polls = 0 /\ requests = 0 /\ faults = 0

Operation == Open \/ OpenFails \/ Send \/ Answer \/ Receive \/ ListenEnds \/ TimedOut \/ Broken
Script == PollGoesOn \/ UserGoesOn \/ Unloaded
Next ==
    \/ \E c \in Callers : Begin(c)
    \/ Open \/ OpenFails \/ Send \/ Receive \/ ListenEnds \/ TimedOut \/ Broken
    \/ Answer \/ GateChanges \/ Drop
    \/ PollBegins \/ PollGoesOn \/ UserAsks \/ UserGoesOn \/ Unload \/ Unloaded

Spec == Init /\ [][Next]_vars
\* Every exchange has its deadline, every executor job its thread, and a caller
\* that waits for the lock gets it when it is free.
FairSpec == /\ Spec
            /\ WF_vars(Operation)
            /\ WF_vars(PollGoesOn) /\ WF_vars(UserGoesOn) /\ WF_vars(Unloaded)
            /\ \A c \in Callers : WF_vars(Begin(c))

---------------------------------------------------------------------------
(* Properties *)

Kinds == {"status", "nhk", "info", "command", "close"}
\* The state has its types: an exchange in progress has a connection, and no
\* more frames are kept than requests and changes of the gate make.
TypeOK ==
    /\ session.conn \in 0..3 /\ session.key \in 0..3 /\ session.open \subseteq 1..3
    /\ session.sequence \in Nat \ {0}
    /\ Len(session.wire) + Len(session.frames) <= session.sequence + MaxMoves
    /\ op.kind \in Kinds /\ op.attempt \in {1, 2} /\ op.tries \in 0..(OPEN_TRIES - 1)
    /\ op.left \in 0..(Core + Extended)
    /\ Awaiting => session.conn # 0
    /\ \A c \in Callers : caller[c].reply \in {"none", "ok"} \cup Errors

\* At most one connection is open at this end, the one in use, and a session key
\* is only kept for the connection it was agreed on (client.py 468-496).
OneSession ==
    /\ session.open \subseteq {session.conn}
    /\ session.key # 0 => session.key = session.conn

\* No command is carried out twice, whatever breaks when; and one reported as
\* completed was carried out (client.py 388-399; administration.py 129-179).
CarriedAsReported ==
    \A r \in 1..MaxRequests : carried[r] <= 1 /\ (r \in done => carried[r] = 1)

\* The coordinator leaves DMP polling only for an interface without DMP, and for
\* what its INFO offers (coordinator.py 274-323).
DowngradeOnlyWithoutDmp ==
    /\ poller.mode # "dmp" => ~device.dmp /\ poller.info
    /\ poller.mode = "nhk" => device.readable
    /\ poller.mode = "command" => ~device.readable /\ device.actions

\* A read that fails met a fault while it ran: a connection lost before it began
\* is replaced without the caller noticing (client.py 367-386).
OneDropIsForgiven ==
    [][\A c \in Callers :
          caller[c].reply = "none" /\ caller'[c].reply \in Errors
          /\ KindOf(caller[c].why) \in {"status", "nhk", "info"} => caller'[c].hurt]_vars

\* Every poll, test, request and close ends, with as many faults as the bound allows.
CallsEnd == \A c \in Callers : caller[c] # NoCall ~> caller[c] = NoCall

\* The session stays closed once the entry was unloaded (coordinator.py 686-690).
ClosedStaysClosed ==
    [][unloaded /\ caller["unload"] = NoCall /\ session.conn = 0 => session'.conn = 0]_vars
=============================================================================
