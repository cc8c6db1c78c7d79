------------------------ MODULE PositionTargetProofs ------------------------
(***************************************************************************)
(* Proofs about PositionTarget, for any platforms, services, travel and    *)
(* number of requests: a watcher that can still stop the gate is in reach  *)
(* of the next command, and while nobody else moves the gate the stop of a *)
(* watcher that follows the reported position is not carried out short of  *)
(* its place.                                                              *)
(***************************************************************************)
EXTENDS PositionTarget, TLAPS

-----------------------------------------------------------------------------
(* The inductive invariant. *)

\* What the proof needs of the types: which watchers and callers there are.
Shapes ==
  /\ DOMAIN watcher = Watchers /\ DOMAIN caller = Callers
  /\ \A w \in Watchers : "pc" \in DOMAIN watcher[w]
  /\ \A c \in Callers : "pc" \in DOMAIN caller[c]

\* Between the cancellation that begins a set-position and the watcher that ends
\* it the slot stays empty: only the cover fills it, and it is busy.
Prepares(c) == caller[c].pc # "idle" /\ caller[c].target # NoPlace
SlotIsKept ==
  \A c \in Callers : Prepares(c) => "position" \in Offered[c] /\ slot = NoWatcher

TargetInv == Shapes /\ SlotIsKept /\ WatcherIsCancellable

LEMMA NoWatcherIsNone == NoWatcher \notin Watchers
  BY DEF NoWatcher, Watchers

\* Every plan is a task with a phase.
LEMMA PlansHavePc ==
  ASSUME NEW action, NEW stop, NEW start, NEW t \in Plans(action, stop, start)
  PROVE  "pc" \in DOMAIN t
  <1> DEFINE task == [NoTask EXCEPT !.pc = "asleep", !.action = action, !.stop = stop]
  <1>1. "pc" \in DOMAIN NoTask
    BY DEF NoTask
  <1>2. "pc" \in DOMAIN task
    BY <1>1
  <1> HIDE DEF task
  <1>3. "pc" \in DOMAIN [task EXCEPT !.grace = StartGrace]
    BY <1>2
  <1>4. \A raw \in BOOLEAN :
          "pc" \in DOMAIN [task EXCEPT !.timed = TRUE, !.start = start, !.raw = raw,
                                       !.left = Apart(stop, start)]
    BY <1>2
  <1>5. t = [task EXCEPT !.grace = StartGrace]
        \/ \E raw \in BOOLEAN : t = [task EXCEPT !.timed = TRUE, !.start = start,
                                        !.raw = raw, !.left = Apart(stop, start)]
    BY DEF Plans, task
  <1>6. QED
    BY <1>3, <1>4, <1>5

-----------------------------------------------------------------------------
(* Steps that leave a watcher alive or end it, and those of the callers. *)

\* A step that makes no watcher live and empties the slot only of one that is not.
LEMMA WatchersGoOn ==
  ASSUME TargetInv, Shapes',
         \A w \in Watchers : Live(w)' => Live(w) /\ slot' = slot,
         slot' \in {slot, NoWatcher},
         \A c \in Callers : Prepares(c)' => Prepares(c)
  PROVE  TargetInv'
  BY DEF TargetInv, SlotIsKept, WatcherIsCancellable

\* One watcher's program counter moves.
LEMMA WatcherMoves ==
  ASSUME TargetInv, NEW w \in Watchers, NEW t, "pc" \in DOMAIN t,
         watcher' = [watcher EXCEPT ![w] = t],
         caller' = caller,
         t.pc \in {"asleep", "woken", "stopping", "stopped"} => Live(w) /\ slot' = slot,
         slot' = slot \/ slot' = Freed(w)
  PROVE  TargetInv'
  <1>1. /\ DOMAIN watcher' = Watchers
        /\ watcher'[w] = t
        /\ \A x \in Watchers \ {w} : watcher'[x] = watcher[x]
    BY DEF TargetInv, Shapes
  <1>2. Shapes'
    BY <1>1 DEF TargetInv, Shapes
  <1>3. ASSUME NEW x \in Watchers, Live(x)'
        PROVE  Live(x) /\ slot' = slot
    <2>1. CASE x = w
      BY <1>1, <1>3, <2>1 DEF Live
    <2>2. CASE x # w
      <3>1. Live(x)
        BY <1>1, <1>3, <2>2 DEF Live
      <3>2. slot = x
        BY <3>1 DEF TargetInv, WatcherIsCancellable
      <3>3. QED
        BY <2>2, <3>1, <3>2 DEF Freed
    <2>3. QED
      BY <2>1, <2>2
  <1>4. slot' \in {slot, NoWatcher}
    BY DEF Freed
  <1>5. \A c \in Callers : Prepares(c)' => Prepares(c)
    BY DEF Prepares
  <1>6. QED
    BY <1>2, <1>3, <1>4, <1>5, WatchersGoOn

LEMMA EndedHasPc == "pc" \in DOMAIN Ended /\ Ended.pc = "ended"
  BY DEF Ended, NoTask

\* Cancellation leaves nothing that could stop the gate.
LEMMA CancelledTarget ==
  ASSUME TargetInv, CancelTarget
  PROVE  /\ slot' = NoWatcher
         /\ DOMAIN watcher' = Watchers
         /\ \A w \in Watchers : "pc" \in DOMAIN watcher'[w] /\ ~Live(w)'
  <1>1. CASE slot # NoWatcher /\ Live(slot) /\ slot \in Watchers
    <2>1. watcher' = [watcher EXCEPT ![slot].pc = "cancelled"]
      BY <1>1 DEF CancelTarget, Cancelled
    <2>2. /\ DOMAIN watcher' = Watchers
          /\ "pc" \in DOMAIN watcher'[slot] /\ watcher'[slot].pc = "cancelled"
          /\ \A x \in Watchers \ {slot} : watcher'[x] = watcher[x]
      BY <1>1, <2>1 DEF TargetInv, Shapes
    <2>3. \A x \in Watchers \ {slot} : ~Live(x)
      BY DEF TargetInv, WatcherIsCancellable
    <2>4. QED
      BY <2>2, <2>3 DEF Live, CancelTarget, TargetInv, Shapes
  <1>2. CASE slot \notin Watchers
    <2>1. \A x \in Watchers : ~Live(x)
      BY <1>2 DEF TargetInv, WatcherIsCancellable
    <2>2. DOMAIN watcher' = Watchers /\ \A x \in Watchers : watcher'[x] = watcher[x]
      <3>1. CASE slot # NoWatcher /\ Live(slot)
        <4>1. watcher' = [watcher EXCEPT ![slot].pc = "cancelled"]
          BY <3>1 DEF CancelTarget, Cancelled
        <4>2. QED
          BY <1>2, <4>1 DEF TargetInv, Shapes
      <3>2. CASE ~(slot # NoWatcher /\ Live(slot))
        BY <3>2 DEF CancelTarget, TargetInv, Shapes
      <3>3. QED
        BY <3>1, <3>2
    <2>3. QED
      BY <2>1, <2>2 DEF Live, CancelTarget, TargetInv, Shapes
  <1>3. CASE slot \in Watchers /\ ~Live(slot)
    <2>1. \A x \in Watchers : ~Live(x)
      BY <1>3 DEF TargetInv, WatcherIsCancellable
    <2>2. watcher' = watcher
      BY <1>3 DEF CancelTarget
    <2>3. QED
      BY <2>1, <2>2 DEF Live, CancelTarget, TargetInv, Shapes
  <1>4. QED
    BY <1>1, <1>2, <1>3, NoWatcherIsNone

\* A service begins: what it prepares is the cover's.
LEMMA ServiceBegins ==
  ASSUME TargetInv, NEW c \in Callers, NEW action, NEW target, NEW start,
         Begin(c, action, target, start), CancelTarget,
         target # NoPlace => "position" \in Offered[c]
  PROVE  TargetInv'
  <1> DEFINE new == [pc |-> "joining", n |-> requests', action |-> action,
                     target |-> target, start |-> start,
                     joins |-> IF slot # NoWatcher /\ Live(slot) THEN slot ELSE NoWatcher]
  <1>1. /\ DOMAIN caller' = Callers /\ caller'[c] = new
        /\ \A d \in Callers \ {c} : caller'[d] = caller[d]
    BY DEF Begin, TargetInv, Shapes
  <1>2. "pc" \in DOMAIN new /\ new.target = target
    OBVIOUS
  <1>3. Shapes'
    BY <1>1, <1>2, CancelledTarget DEF Shapes, TargetInv
  <1>4. \A d \in Callers : Prepares(d)' => "position" \in Offered[d]
    BY <1>1, <1>2 DEF Prepares, TargetInv, SlotIsKept
  <1>5. slot' = NoWatcher /\ \A w \in Watchers : ~Live(w)'
    BY CancelledTarget
  <1>6. QED
    BY <1>3, <1>4, <1>5 DEF TargetInv, SlotIsKept, WatcherIsCancellable

\* A service answers or fails before it prepares anything.
LEMMA ServiceAnswers ==
  ASSUME TargetInv, UNCHANGED <<caller, slot, watcher>>
  PROVE  TargetInv'
  BY DEF TargetInv, Shapes, SlotIsKept, Prepares, WatcherIsCancellable, Live

\* One caller moves on to a state that prepares no more than its last one.
LEMMA CallerMoves ==
  ASSUME TargetInv, NEW c \in Callers, NEW r, "pc" \in DOMAIN r,
         caller' = [caller EXCEPT ![c] = r],
         watcher' = watcher, slot' = slot,
         r.pc # "idle" /\ r.target # NoPlace => Prepares(c)
  PROVE  TargetInv'
  <1>1. /\ DOMAIN caller' = Callers /\ caller'[c] = r
        /\ \A d \in Callers \ {c} : caller'[d] = caller[d]
    BY DEF TargetInv, Shapes
  <1>2. Shapes'
    BY <1>1 DEF TargetInv, Shapes
  <1>3. \A d \in Callers : Prepares(d)' => Prepares(d)
    BY <1>1 DEF Prepares
  <1>4. \A w \in Watchers : Live(w)' => Live(w) /\ slot' = slot
    BY DEF Live
  <1>5. QED
    BY <1>2, <1>3, <1>4, WatchersGoOn

-----------------------------------------------------------------------------
(* The services. *)

LEMMA CommandStep ==
  ASSUME TargetInv, NEW c \in Callers, NEW a, Command(c, a)
  PROVE  TargetInv'
  BY ServiceBegins DEF Command

LEMMA SetPositionStep ==
  ASSUME TargetInv, NEW c \in Callers, "position" \in Offered[c],
         NEW t \in Places, SetPosition(c, t)
  PROVE  TargetInv'
  <1> DEFINE act(current, moving) ==
        IF current = NoPlace THEN "none"
        ELSE IF t = 0 THEN "close"
        ELSE IF t = Full THEN "open"
        ELSE IF t = current THEN IF moving THEN "stop" ELSE "none"
        ELSE IF t > current THEN "open" ELSE "close"
      kept(current) == t \in Places \ {0, Full, current}
  <1>1. PICK current \in Places \cup {NoPlace}, moving \in BOOLEAN :
          \/ UNCHANGED <<caller, slot, watcher, jobs>>
          \/ /\ Begin(c, act(current, moving), IF kept(current) THEN t ELSE NoPlace,
                      IF kept(current) THEN current ELSE 0)
             /\ CancelTarget
    BY DEF SetPosition
  <1> HIDE DEF act, kept
  <1>2. QED
    BY <1>1, ServiceBegins, ServiceAnswers

LEMMA IdleIsIdle == "pc" \in DOMAIN Idle /\ Idle.pc = "idle"
  BY DEF Idle

LEMMA SendCommandStep ==
  ASSUME TargetInv, NEW c \in Callers, SendCommand(c)
  PROVE  TargetInv'
  <1>1. CASE caller[c].action = "cancel"
    BY <1>1, IdleIsIdle, CallerMoves DEF SendCommand
  <1>2. CASE caller[c].action # "cancel"
    <2> DEFINE r == [caller[c] EXCEPT !.pc = "sending"]
    <2>1. caller' = [caller EXCEPT ![c] = r]
      BY <1>2 DEF SendCommand
    <2>2. "pc" \in DOMAIN r /\ r.target = caller[c].target
      BY DEF TargetInv, Shapes
    <2>3. caller[c].pc # "idle" /\ watcher' = watcher /\ slot' = slot
      BY DEF SendCommand
    <2> HIDE DEF r
    <2>4. QED
      BY <2>1, <2>2, <2>3, CallerMoves DEF Prepares
  <1>3. QED
    BY <1>1, <1>2

LEMMA CommandFailedStep ==
  ASSUME TargetInv, NEW c \in Callers, CommandFailed(c)
  PROVE  TargetInv'
  BY IdleIsIdle, CallerMoves DEF CommandFailed

\* The cover creates its watcher in a slot that its preparation kept empty.
LEMMA CommandAcceptedStep ==
  ASSUME TargetInv, NEW c \in Callers, CommandAccepted(c)
  PROVE  TargetInv'
  <1>1. CASE caller[c].target = NoPlace
    BY <1>1, IdleIsIdle, CallerMoves DEF CommandAccepted
  <1>2. CASE caller[c].target # NoPlace
    <2>1. Prepares(c)
      BY <1>2 DEF CommandAccepted, Prepares
    <2>2. "position" \in Offered[c] /\ \A w \in Watchers : ~Live(w)
      BY <2>1, NoWatcherIsNone DEF TargetInv, SlotIsKept, WatcherIsCancellable
    <2>3. /\ DOMAIN caller' = Callers /\ caller'[c] = Idle
          /\ \A d \in Callers \ {c} : caller'[d] = caller[d]
      BY DEF CommandAccepted, TargetInv, Shapes
    <2>4. PICK stop \in StopPlaces(caller[c].target, caller[c].action) :
            /\ slot' = caller[c].n
            /\ \E t \in Plans(caller[c].action, stop, caller[c].start) :
                 watcher' = [watcher EXCEPT ![caller[c].n] = t]
      BY <1>2 DEF CommandAccepted
    <2>5. PICK t \in Plans(caller[c].action, stop, caller[c].start) :
            watcher' = [watcher EXCEPT ![caller[c].n] = t]
      BY <2>4
    <2>6. "pc" \in DOMAIN t
      BY <2>5, PlansHavePc
    <2>7. /\ DOMAIN watcher' = Watchers
          /\ \A w \in Watchers : w # slot' => watcher'[w] = watcher[w]
          /\ slot' \in Watchers => watcher'[slot'] = t
      BY <2>4, <2>5 DEF TargetInv, Shapes
    <2>8. Shapes'
      BY <2>3, <2>6, <2>7, IdleIsIdle DEF TargetInv, Shapes
    <2>9. WatcherIsCancellable'
      BY <2>2, <2>7 DEF WatcherIsCancellable, Live
    <2>10. SlotIsKept'
      <3>1. ASSUME NEW d \in Callers, Prepares(d)'
            PROVE  FALSE
        <4>1. d # c
          BY <2>3, <3>1, IdleIsIdle DEF Prepares
        <4>2. Prepares(d)
          BY <2>3, <3>1, <4>1 DEF Prepares
        <4>3. QED
          BY <2>2, <4>1, <4>2, OnePositioner DEF TargetInv, SlotIsKept
      <3>2. QED
        BY <3>1 DEF SlotIsKept
    <2>11. QED
      BY <2>8, <2>9, <2>10 DEF TargetInv
  <1>3. QED
    BY <1>1, <1>2

-----------------------------------------------------------------------------
(* The watchers. *)

LEMMA WakeStep ==
  ASSUME TargetInv, NEW w \in Watchers, Wake(w)
  PROVE  TargetInv'
  <1>1. PICK reading \in Readings(gate) :
          watcher' = [watcher EXCEPT
            ![w].pc = "woken",
            ![w].seen = [state |-> reading.state, place |-> reading.place,
                         over |-> watcher[w].left = 0,
                         late |-> watcher[w].grace = 0]]
    BY DEF Wake
  <1>2. /\ DOMAIN watcher' = Watchers
        /\ "pc" \in DOMAIN watcher'[w]
        /\ \A x \in Watchers \ {w} : watcher'[x] = watcher[x]
    BY <1>1 DEF TargetInv, Shapes
  <1>3. Shapes'
    BY <1>2 DEF TargetInv, Shapes, Wake
  <1>4. Live(w) /\ slot' = slot /\ caller' = caller
    BY DEF Wake, Live
  <1>5. \A x \in Watchers : Live(x)' => Live(x)
    BY <1>2, <1>4 DEF Live
  <1>6. QED
    BY <1>3, <1>4, <1>5, WatchersGoOn DEF Prepares

LEMMA WakeFailsStep ==
  ASSUME TargetInv, NEW w \in Watchers, WakeFails(w)
  PROVE  TargetInv'
  BY EndedHasPc, WatcherMoves DEF WakeFails

LEMMA UnwindStep ==
  ASSUME TargetInv, NEW w \in Watchers, Unwind(w)
  PROVE  TargetInv'
  BY EndedHasPc, WatcherMoves DEF Unwind

LEMMA DecideStep ==
  ASSUME TargetInv, NEW w \in Watchers, Decide(w)
  PROVE  TargetInv'
  <1>1. Live(w) /\ caller' = caller /\ "pc" \in DOMAIN watcher[w]
    BY DEF Decide, Live, TargetInv, Shapes
  <1>2. PICK credible \in BOOLEAN, t \in {[watcher[w] EXCEPT
            !.started = ~watcher[w].timed /\ (@ \/ InMotion(watcher[w]))]} :
          \/ /\ watcher' = [watcher EXCEPT ![w] =
                              [t EXCEPT !.pc = "stopping", !.seen = NoReading]]
             /\ UNCHANGED slot
          \/ /\ watcher' = [watcher EXCEPT ![w] = Ended]
             /\ slot' = Freed(w)
          \/ /\ watcher' = [watcher EXCEPT ![w] =
                              [Rebased(t, credible) EXCEPT !.pc = "asleep", !.seen = NoReading]]
             /\ UNCHANGED slot
    BY DEF Decide
  <1>3. t = [watcher[w] EXCEPT !.started = ~watcher[w].timed
                                           /\ (@ \/ InMotion(watcher[w]))]
    BY <1>2
  <1>4. "pc" \in DOMAIN t
    BY <1>1, <1>3
  <1>5. "pc" \in DOMAIN [t EXCEPT !.pc = "stopping", !.seen = NoReading]
    BY <1>4
  <1>6. "pc" \in DOMAIN [Rebased(t, credible) EXCEPT !.pc = "asleep", !.seen = NoReading]
    <2>1. "pc" \in DOMAIN [t EXCEPT !.left = Min({t.left, Apart(t.stop, t.seen.place)})]
      BY <1>4
    <2>2. "pc" \in DOMAIN Rebased(t, credible)
      BY <1>4, <2>1 DEF Rebased
    <2>3. QED
      BY <2>2
  <1>7. CASE watcher' = [watcher EXCEPT ![w] = Ended] /\ slot' = Freed(w)
    BY <1>1, <1>7, EndedHasPc, WatcherMoves
  <1>8. CASE /\ watcher' = [watcher EXCEPT ![w] =
                              [t EXCEPT !.pc = "stopping", !.seen = NoReading]]
             /\ UNCHANGED slot
    BY <1>1, <1>5, <1>8, WatcherMoves
  <1>9. CASE /\ watcher' = [watcher EXCEPT ![w] =
                              [Rebased(t, credible) EXCEPT !.pc = "asleep", !.seen = NoReading]]
             /\ UNCHANGED slot
    BY <1>1, <1>6, <1>9, WatcherMoves
  <1>10. QED
    BY <1>2, <1>7, <1>8, <1>9

-----------------------------------------------------------------------------
(* The executor and time. *)

LEMMA AnswerStep ==
  ASSUME TargetInv, NEW j, NEW outcome, Answer(j, outcome), UNCHANGED slot
  PROVE  TargetInv'
  <1>1. CASE j.who = "caller"
    <2>1. caller' = [c \in Callers |->
              IF caller[c].pc = "sending" /\ caller[c].n = j.n
              THEN [caller[c] EXCEPT !.pc = outcome] ELSE caller[c]]
      BY <1>1 DEF Answer
    <2>2. watcher' = watcher
      BY <1>1 DEF Answer
    <2>3. \A c \in Callers : "pc" \in DOMAIN [caller[c] EXCEPT !.pc = outcome]
                             /\ [caller[c] EXCEPT !.pc = outcome].target = caller[c].target
      BY DEF TargetInv, Shapes
    <2>4. \A c \in Callers : "pc" \in DOMAIN caller'[c]
      BY <2>1, <2>3 DEF TargetInv, Shapes
    <2>5. ASSUME NEW c \in Callers, Prepares(c)'
          PROVE  Prepares(c)
      <3>1. CASE caller[c].pc = "sending" /\ caller[c].n = j.n
        BY <2>1, <2>3, <2>5, <3>1 DEF Prepares
      <3>2. CASE ~(caller[c].pc = "sending" /\ caller[c].n = j.n)
        BY <2>1, <2>5, <3>2 DEF Prepares
      <3>3. QED
        BY <3>1, <3>2
    <2>6. Shapes'
      BY <2>1, <2>2, <2>4 DEF TargetInv, Shapes
    <2>7. \A w \in Watchers : Live(w)' => Live(w)
      BY <2>2 DEF Live
    <2>8. QED
      BY <2>5, <2>6, <2>7, WatchersGoOn
  <1>2. CASE j.who # "caller"
    <2>1. /\ watcher' = [watcher EXCEPT ![j.n].pc = IF @ = "stopping" THEN "stopped" ELSE @]
          /\ caller' = caller
      BY <1>2 DEF Answer
    <2>2. /\ DOMAIN watcher' = Watchers
          /\ \A w \in Watchers \ {j.n} : watcher'[w] = watcher[w]
          /\ j.n \in Watchers =>
               /\ "pc" \in DOMAIN watcher'[j.n]
               /\ watcher'[j.n].pc = IF watcher[j.n].pc = "stopping" THEN "stopped"
                                     ELSE watcher[j.n].pc
      BY <2>1 DEF TargetInv, Shapes
    <2>3. Shapes'
      BY <2>1, <2>2 DEF TargetInv, Shapes
    <2>4. \A w \in Watchers : Live(w)' => Live(w)
      BY <2>2 DEF Live
    <2>5. QED
      BY <2>1, <2>3, <2>4, WatchersGoOn DEF Prepares
  <1>3. QED
    BY <1>1, <1>2

LEMMA TickStep ==
  ASSUME TargetInv, Tick
  PROVE  TargetInv'
  <1> DEFINE run(w) == [watcher[w] EXCEPT
                          !.left = IF @ \in {0, NoDelay} THEN @ ELSE @ - 1,
                          !.grace = IF @ = 0 THEN 0 ELSE @ - 1]
  <1>1. /\ watcher' = [w \in Watchers |-> IF ~Live(w) THEN watcher[w] ELSE run(w)]
        /\ caller' = caller /\ slot' = slot
    BY DEF Tick
  <1>2. \A w \in Watchers : "pc" \in DOMAIN run(w) /\ run(w).pc = watcher[w].pc
    BY DEF TargetInv, Shapes
  <1> HIDE DEF run
  <1>3. Shapes'
    BY <1>1, <1>2 DEF TargetInv, Shapes
  <1>4. \A w \in Watchers : Live(w)' => Live(w)
    BY <1>1, <1>2 DEF Live
  <1>5. QED
    BY <1>1, <1>3, <1>4, WatchersGoOn DEF Prepares

-----------------------------------------------------------------------------
(* The theorem. *)

LEMMA InitInv == Init => TargetInv
  <1> SUFFICES ASSUME Init PROVE TargetInv
    OBVIOUS
  <1>1. "pc" \in DOMAIN NoTask /\ NoTask.pc = "none"
    BY DEF NoTask
  <1>2. QED
    BY <1>1, IdleIsIdle DEF Init, TargetInv, Shapes, SlotIsKept, Prepares,
                            WatcherIsCancellable, Live

LEMMA StepInv == TargetInv /\ [Next]_vars => TargetInv'
  <1> SUFFICES ASSUME TargetInv, [Next]_vars PROVE TargetInv'
    OBVIOUS
  <1>1. ASSUME NEW c \in Callers, NEW a \in Offered[c] \ {"position"}, Command(c, a)
        PROVE  TargetInv'
    BY <1>1, CommandStep
  <1>2. ASSUME NEW c \in Callers, "position" \in Offered[c],
               NEW t \in Places, SetPosition(c, t)
        PROVE  TargetInv'
    BY <1>2, SetPositionStep
  <1>3. ASSUME NEW c \in Callers, SendCommand(c) \/ CommandAccepted(c) \/ CommandFailed(c)
        PROVE  TargetInv'
    BY <1>3, SendCommandStep, CommandAcceptedStep, CommandFailedStep
  <1>4. ASSUME NEW w \in Watchers, Wake(w) \/ WakeFails(w) \/ Decide(w) \/ Unwind(w)
        PROVE  TargetInv'
    BY <1>4, WakeStep, WakeFailsStep, DecideStep, UnwindStep
  <1>5. ASSUME NEW j \in jobs, CarryOut(j) \/ JobFails(j)
        PROVE  TargetInv'
    BY <1>5, AnswerStep DEF CarryOut, JobFails
  <1>6. CASE Tick
    BY <1>6, TickStep
  <1>7. CASE Outside \/ UNCHANGED vars
    BY <1>7, ServiceAnswers DEF Outside, vars
  <1>8. QED
    BY <1>1, <1>2, <1>3, <1>4, <1>5, <1>6, <1>7 DEF Next

\* position.py:69-79 with 591-602: whatever order the services, the watchers and
\* the executor take turns in, a watcher that can still stop the gate is the one
\* in the slot, where the next command finds and cancels it.
THEOREM Cancellable == Spec => []WatcherIsCancellable
  <1>1. TargetInv => WatcherIsCancellable
    BY DEF TargetInv
  <1>2. QED
    BY InitInv, StepInv, <1>1, PTL DEF Spec

-----------------------------------------------------------------------------
(* Where the gate is when a stop reaches it: the inductive invariant. *)

GateFields == {"motion", "place", "rest", "due"}
TaskFields == {"pc", "action", "stop", "timed", "seen"}
CallFields == {"pc", "n", "action", "target"}
Forms ==
  /\ GateFields \subseteq DOMAIN gate
  /\ DOMAIN watcher = Watchers /\ \A w \in Watchers : TaskFields \subseteq DOMAIN watcher[w]
  /\ DOMAIN caller = Callers /\ \A c \in Callers : CallFields \subseteq DOMAIN caller[c]

\* A gate that moves, or is about to, is not at the end it moves to.
SoundGate(g) ==
  /\ g.place \in Places /\ g.motion \in {"still", "opening", "closing"}
  /\ g.due \in Motions \cup {"none"}
  /\ g.motion = "opening" => g.place # Full
  /\ g.motion = "closing" => g.place # 0
  /\ g.due # "none" => g.place # EndOf(g.due)

\* The gate goes nowhere else than action takes it.
Going(g, action) == g.motion \in {"still", Moving(action)} /\ g.due \in {"none", action}

\* A request has a number of its own, and its watcher is yet to come.
CallSound(r) ==
  /\ r.n \in 1..requests /\ watcher[r.n].pc = "none"
  /\ r.action \in Motions \cup {"stop", "cancel"}
  /\ r.target # NoPlace => r.action \in Motions /\ r.target \in Places
  /\ r.pc \in {"joining", "sending"} => served # r.n
CallersSound ==
  \A c \in Callers : caller[c].pc # "idle" =>
    /\ CallSound(caller[c])
    /\ \A d \in Callers \ {c} : caller[d].pc # "idle" => caller[d].n # caller[c].n

\* A job is of a caller that waits for it, or the stop of a watcher.
Waits(c, j) == caller[c].pc = "sending" /\ caller[c].n = j.n /\ caller[c].action = j.what
JobSound(j) ==
  /\ j = [who |-> j.who, n |-> j.n, what |-> j.what]
  /\ j.what \in Motions \cup {"stop"}
  /\ IF j.who = "caller" THEN \E c \in Callers : Waits(c, j)
     ELSE j.n \in Watchers /\ j.what = "stop"
JobsSound == \A j \in jobs : JobSound(j)

NumbersSound ==
  /\ requests \in 0..MaxRequests /\ served \in 0..requests /\ outside \in Nat
  /\ \A w \in Watchers : w > requests => watcher[w].pc = "none"

\* While the command of a watcher is the last the gate carried out, the gate has
\* come at least as far as it was seen, and has passed the place of a due stop.
TaskPath(t) ==
  t.pc \in {"asleep", "woken", "stopping"} =>
    /\ t.action \in Motions /\ t.stop \in Places /\ Going(gate, t.action)
    /\ (t.pc = "woken" /\ t.seen.place # NoPlace) =>
          (t.seen.place \in Places /\ PositionReached(t.action, gate.place, t.seen.place))
    /\ (t.pc = "stopping" /\ ~t.timed) => PositionReached(t.action, gate.place, t.stop)
CallPath(r) ==
  r.pc = "accepted" /\ r.target # NoPlace /\ served = r.n => Going(gate, r.action)
Path ==
  outside = 0 => /\ \A c \in Callers : CallPath(caller[c])
                 /\ \A w \in Watchers : served = w => TaskPath(watcher[w])

FollowInv ==
  Forms /\ SoundGate(gate) /\ NumbersSound /\ CallersSound /\ JobsSound /\ Path

\* What the stop of a watcher may not do.
NotShort(w) ==
  watcher[w].pc = "stopping" /\ watcher'[w].pc = "stopped"
  /\ ~watcher[w].timed /\ outside = 0 /\ served = w
  => IF watcher[w].action = "open" THEN gate'.place >= watcher[w].stop
                                   ELSE gate'.place <= watcher[w].stop
FollowStep == FollowInv' /\ \A w \in Watchers : NotShort(w)

-----------------------------------------------------------------------------
(* The gate. *)

\* A command leaves the gate where it is, on its way or at rest.
LEMMA ObeyedGate ==
  ASSUME NEW g, SoundGate(g), GateFields \subseteq DOMAIN g,
         NEW what \in Motions \cup {"stop"}, NEW h \in Obeyed(g, what)
  PROVE  /\ SoundGate(h) /\ GateFields \subseteq DOMAIN h /\ h.place = g.place
         /\ Going(h, what)
         /\ what = "stop" => \A a : Going(h, a)
  <1>1. CASE what = "stop"
    <2>1. h = [g EXCEPT !.motion = "still", !.rest = "stopped", !.due = "none"]
      BY <1>1 DEF Obeyed
    <2>2. /\ h.motion = "still" /\ h.due = "none" /\ h.place = g.place
          /\ DOMAIN h = DOMAIN g
      BY <2>1 DEF GateFields
    <2>3. QED
      BY <2>2 DEF SoundGate, Going
  <1>2. CASE what # "stop" /\ g.place = EndOf(what)
    <2>1. h = [g EXCEPT !.motion = "still", !.due = "none"]
      BY <1>2 DEF Obeyed
    <2>2. /\ h.motion = "still" /\ h.due = "none" /\ h.place = g.place
          /\ DOMAIN h = DOMAIN g
      BY <2>1 DEF GateFields
    <2>3. QED
      BY <1>2, <2>2 DEF SoundGate, Going
  <1>3. CASE what # "stop" /\ g.place # EndOf(what)
    <2>1. PICK late \in LateStarts :
            h = [g EXCEPT !.motion = IF late THEN "still" ELSE Moving(what),
                          !.due = IF late THEN what ELSE "none", !.rest = "stopped"]
      BY <1>3 DEF Obeyed
    <2>2. /\ h.motion = IF late THEN "still" ELSE Moving(what)
          /\ h.due = IF late THEN what ELSE "none"
          /\ h.place = g.place /\ DOMAIN h = DOMAIN g
      BY <2>1 DEF GateFields
    <2>3. h.motion \in {"still", Moving(what)} /\ h.due \in {"none", what}
      BY <2>2
    <2>4. SoundGate(h)
      BY <1>3, <2>2, <2>3 DEF SoundGate, Moving, EndOf, Motions
    <2>5. QED
      BY <1>3, <2>2, <2>3, <2>4 DEF Going
  <1>4. QED
    BY <1>1, <1>2, <1>3

\* Time takes the gate only further.
LEMMA AdvancedGate ==
  ASSUME NEW g, SoundGate(g), GateFields \subseteq DOMAIN g
  PROVE  /\ SoundGate(Advanced(g)) /\ GateFields \subseteq DOMAIN Advanced(g)
         /\ \A a \in Motions : Going(g, a) =>
              /\ Going(Advanced(g), a)
              /\ \A p \in Places : PositionReached(a, g.place, p)
                                     => PositionReached(a, Advanced(g).place, p)
  <1>1. Full \in Nat \ {0}
    BY TargetAssumption
  <1>2. CASE g.due # "none"
    <2> DEFINE h == [g EXCEPT !.motion = Moving(g.due), !.due = "none", !.rest = "stopped"]
    <2>1. /\ h.motion = Moving(g.due) /\ h.due = "none" /\ h.place = g.place
          /\ DOMAIN h = DOMAIN g /\ Advanced(g) = h
      BY <1>2 DEF GateFields, Advanced
    <2> HIDE DEF h
    <2>2. SoundGate(h)
      BY <1>2, <2>1 DEF SoundGate, Moving, EndOf, Motions
    <2>3. \A a \in Motions : Going(g, a) => Going(h, a)
      BY <1>2, <2>1 DEF Going, SoundGate
    <2>4. QED
      BY <2>1, <2>2, <2>3
  <1>3. CASE g.due = "none" /\ g.motion = "still"
    BY <1>3 DEF Advanced
  <1>4. CASE g.due = "none" /\ g.motion # "still"
    <2> DEFINE h == [g EXCEPT !.place = Step(g),
                              !.motion = IF Step(g) = EndOf(Heading(g.motion))
                                         THEN "still" ELSE g.motion]
    <2>1. /\ h.place = Step(g) /\ h.due = "none" /\ DOMAIN h = DOMAIN g
          /\ h.motion = IF Step(g) = EndOf(Heading(g.motion)) THEN "still" ELSE g.motion
          /\ Advanced(g) = h
      BY <1>4 DEF GateFields, Advanced
    <2> HIDE DEF h
    <2>2. g.motion \in {"opening", "closing"} /\ g.place \in Places
      BY <1>4 DEF SoundGate
    <2>3. /\ Step(g) \in Places
          /\ g.motion = "opening" => Step(g) = g.place + 1
          /\ g.motion = "closing" => Step(g) = g.place - 1
      BY <1>1, <2>2 DEF SoundGate, Step, Places
    <2>4. SoundGate(h)
      BY <2>1, <2>2, <2>3 DEF SoundGate, EndOf, Heading
    <2>5. ASSUME NEW a \in Motions, Going(g, a)
          PROVE  /\ Going(h, a)
                 /\ \A p \in Places : PositionReached(a, g.place, p)
                                        => PositionReached(a, h.place, p)
      <3>1. g.motion = Moving(a)
        BY <1>4, <2>5 DEF Going
      <3>2. Going(h, a)
        BY <2>1, <3>1 DEF Going
      <3>3. \/ a = "open" /\ h.place = g.place + 1
            \/ a = "close" /\ h.place = g.place - 1
        BY <2>1, <2>3, <3>1 DEF Moving, Motions
      <3>4. ASSUME NEW p \in Places, PositionReached(a, g.place, p)
            PROVE  PositionReached(a, h.place, p)
        BY <1>1, <2>2, <3>3, <3>4 DEF PositionReached, Places
      <3>5. QED
        BY <3>2, <3>4
    <2>6. QED
      BY <2>1, <2>4, <2>5
  <1>5. QED
    BY <1>2, <1>3, <1>4

-----------------------------------------------------------------------------
(* A watcher's step. *)

\* A watcher goes on, at most leaving its stop with the executor.
LEMMA TaskStep ==
  ASSUME FollowInv, NEW w \in Watchers, watcher[w].pc # "none",
         NEW t, TaskFields \subseteq DOMAIN t, t.pc \notin {"none", "stopped"},
         watcher' = [watcher EXCEPT ![w] = t],
         jobs' \subseteq jobs \cup {[who |-> "watcher", n |-> w, what |-> "stop"]},
         UNCHANGED <<gate, caller, requests, served, outside>>,
         outside = 0 /\ served = w => TaskPath(t)
  PROVE  FollowStep
  <1>1. /\ DOMAIN watcher' = Watchers /\ watcher'[w] = t
        /\ \A x \in Watchers \ {w} : watcher'[x] = watcher[x]
    BY DEF FollowInv, Forms
  <1>2. Forms'
    BY <1>1 DEF FollowInv, Forms
  <1>3. NumbersSound'
    BY <1>1 DEF FollowInv, NumbersSound
  <1>4. CallersSound'
    <2>1. ASSUME NEW c \in Callers, caller[c].pc # "idle"
          PROVE  caller[c].n \in Watchers \ {w}
      <3>1. caller[c].n \in 1..requests /\ watcher[caller[c].n].pc = "none"
        BY <2>1 DEF FollowInv, CallersSound, CallSound
      <3>2. requests \in 0..MaxRequests /\ MaxRequests \in Nat
        BY TargetAssumption DEF FollowInv, NumbersSound
      <3>3. QED
        BY <3>1, <3>2 DEF Watchers
    <2>2. QED
      BY <1>1, <2>1 DEF FollowInv, CallersSound, CallSound
  <1>5. JobsSound'
    <2>1. ASSUME NEW j \in jobs PROVE JobSound(j)'
      BY DEF FollowInv, JobsSound, JobSound, Waits
    <2>2. ASSUME NEW j, j = [who |-> "watcher", n |-> w, what |-> "stop"] PROVE JobSound(j)'
      BY <2>2 DEF JobSound
    <2>3. QED
      BY <2>1, <2>2 DEF JobsSound
  <1>6. Path'
    <2>1. \A c \in Callers : CallPath(caller[c]) => CallPath(caller[c])'
      BY DEF CallPath
    <2>2. \A x \in Watchers \ {w} : TaskPath(watcher[x]) => TaskPath(watcher[x])'
      BY <1>1 DEF TaskPath
    <2>3. TaskPath(t) => TaskPath(watcher[w])'
      BY <1>1 DEF TaskPath
    <2>4. QED
      BY <2>1, <2>2, <2>3 DEF FollowInv, Path
  <1>7. \A x \in Watchers : NotShort(x)
    BY <1>1 DEF NotShort
  <1>8. QED
    BY <1>2, <1>3, <1>4, <1>5, <1>6, <1>7 DEF FollowInv, FollowStep

LEMMA EndedForm == /\ TaskFields \subseteq DOMAIN Ended /\ Ended.pc = "ended"
                   /\ TaskFields \subseteq DOMAIN NoTask /\ NoTask.pc = "none"
  BY DEF Ended, NoTask, TaskFields

LEMMA EndsFollow ==
  ASSUME FollowInv, NEW w \in Watchers, WakeFails(w) \/ Unwind(w)
  PROVE  FollowStep
  <1>1. /\ watcher[w].pc # "none" /\ watcher' = [watcher EXCEPT ![w] = Ended] /\ jobs' = jobs
        /\ UNCHANGED <<gate, caller, requests, served, outside>>
    BY DEF WakeFails, Unwind
  <1>2. TaskPath(Ended)
    BY EndedForm DEF TaskPath
  <1>3. QED
    BY <1>1, <1>2, EndedForm, TaskStep

\* The status is read: the gate is where it was seen.
LEMMA WakeFollow ==
  ASSUME FollowInv, NEW w \in Watchers, Wake(w)
  PROVE  FollowStep
  <1>1. PICK reading \in Readings(gate) :
          watcher' = [watcher EXCEPT
            ![w].pc = "woken",
            ![w].seen = [state |-> reading.state, place |-> reading.place,
                         over |-> watcher[w].left = 0,
                         late |-> watcher[w].grace = 0]]
    BY DEF Wake
  <1> DEFINE seen == [state |-> reading.state, place |-> reading.place,
                      over |-> watcher[w].left = 0, late |-> watcher[w].grace = 0]
             t == [watcher[w] EXCEPT !.pc = "woken", !.seen = seen]
  <1>2. reading.place \in {gate.place, NoPlace}
    BY DEF Readings
  <1>3. seen.place = reading.place
    OBVIOUS
  <1>4. watcher' = [watcher EXCEPT ![w] = t]
    <2>1. DOMAIN watcher = Watchers
      BY DEF FollowInv, Forms
    <2>2. QED
      BY <1>1, <2>1
  <1> HIDE DEF seen
  <1>5. /\ DOMAIN t = DOMAIN watcher[w] /\ t.pc = "woken" /\ t.seen = seen
        /\ t.action = watcher[w].action /\ t.stop = watcher[w].stop
    BY DEF FollowInv, Forms, TaskFields
  <1>6. /\ watcher[w].pc = "asleep" /\ jobs' = jobs
        /\ UNCHANGED <<gate, caller, requests, served, outside>>
    BY DEF Wake
  <1>7. TaskFields \subseteq DOMAIN t
    BY <1>5 DEF FollowInv, Forms
  <1> HIDE DEF t
  <1>8. ASSUME outside = 0, served = w
        PROVE  TaskPath(t)
    <2>1. TaskPath(watcher[w])
      BY <1>8 DEF FollowInv, Path
    <2>2. /\ t.action \in Motions /\ t.stop \in Places /\ Going(gate, t.action)
      BY <1>5, <1>6, <2>1 DEF TaskPath
    <2>3. ASSUME t.seen.place # NoPlace
          PROVE  t.seen.place = gate.place
      BY <1>2, <1>3, <1>5, <2>3
    <2>4. gate.place \in Places /\ PositionReached(t.action, gate.place, gate.place)
      BY TargetAssumption DEF FollowInv, SoundGate, PositionReached, Places
    <2>5. QED
      BY <1>5, <2>2, <2>3, <2>4 DEF TaskPath
  <1>9. QED
    BY <1>4, <1>5, <1>6, <1>7, <1>8, TaskStep

\* What one turn of the loop makes of its reading.
LEMMA DecideFollow ==
  ASSUME FollowInv, NEW w \in Watchers, Decide(w)
  PROVE  FollowStep
  <1>1. /\ watcher[w].pc = "woken" /\ TaskFields \subseteq DOMAIN watcher[w]
        /\ UNCHANGED <<gate, caller, requests, served, outside>>
    BY DEF Decide, FollowInv, Forms
  <1> DEFINE t == [watcher[w] EXCEPT !.started = ~watcher[w].timed
                                                  /\ (@ \/ InMotion(watcher[w]))]
             halts == [t EXCEPT !.pc = "stopping", !.seen = NoReading]
             goes(credible) == [Rebased(t, credible) EXCEPT !.pc = "asleep", !.seen = NoReading]
             stop == [who |-> "watcher", n |-> w, what |-> "stop"]
  <1>2. PICK credible \in BOOLEAN :
          \/ /\ StopDue(t, credible) /\ watcher' = [watcher EXCEPT ![w] = halts]
             /\ jobs' = jobs \cup {stop}
          \/ /\ watcher' = [watcher EXCEPT ![w] = Ended]
             /\ jobs' = jobs
          \/ /\ watcher' = [watcher EXCEPT ![w] = goes(credible)]
             /\ jobs' = jobs
    BY DEF Decide, Send
  <1>3. /\ TaskFields \subseteq DOMAIN t /\ t.timed = watcher[w].timed
        /\ t.action = watcher[w].action /\ t.stop = watcher[w].stop
        /\ t.seen = watcher[w].seen
    BY <1>1 DEF TaskFields
  <1> HIDE DEF t
  <1>4. /\ TaskFields \subseteq DOMAIN halts /\ halts.pc = "stopping"
        /\ halts.action = t.action /\ halts.stop = t.stop /\ halts.timed = t.timed
    BY <1>3 DEF TaskFields
  <1>5. /\ TaskFields \subseteq DOMAIN Rebased(t, credible)
        /\ Rebased(t, credible).action = t.action /\ Rebased(t, credible).stop = t.stop
    <2>1. LET r == [t EXCEPT !.left = Min({t.left, Apart(t.stop, t.seen.place)})]
          IN  TaskFields \subseteq DOMAIN r /\ r.action = t.action /\ r.stop = t.stop
      BY <1>3 DEF TaskFields
    <2>2. QED
      BY <1>3, <2>1 DEF Rebased
  <1>6. /\ TaskFields \subseteq DOMAIN goes(credible) /\ goes(credible).pc = "asleep"
        /\ goes(credible).action = t.action /\ goes(credible).stop = t.stop
    BY <1>5 DEF TaskFields
  <1> HIDE DEF halts, goes
  <1>7. ASSUME outside = 0, served = w
        PROVE  /\ t.action \in Motions /\ t.stop \in Places /\ Going(gate, t.action)
               /\ t.seen.place # NoPlace =>
                     (t.seen.place \in Places /\ PositionReached(t.action, gate.place, t.seen.place))
    <2>1. TaskPath(watcher[w])
      BY <1>7 DEF FollowInv, Path
    <2>2. QED
      BY <1>1, <1>3, <2>1 DEF TaskPath
  <1>8. CASE /\ StopDue(t, credible) /\ watcher' = [watcher EXCEPT ![w] = halts]
             /\ jobs' = jobs \cup {stop}
    <2>1. ASSUME outside = 0, served = w, ~t.timed
          PROVE  PositionReached(t.action, gate.place, t.stop)
      <3>1. t.seen.place # NoPlace /\ PositionReached(t.action, t.seen.place, t.stop)
        BY <1>8, <2>1 DEF StopDue
      <3>2. t.seen.place \in Places /\ PositionReached(t.action, gate.place, t.seen.place)
        BY <1>7, <2>1, <3>1
      <3>3. t.stop \in Places /\ gate.place \in Places
        BY <1>7, <2>1 DEF FollowInv, SoundGate
      <3>4. QED
        BY <3>1, <3>2, <3>3, TargetAssumption DEF PositionReached, Places
    <2>2. outside = 0 /\ served = w => TaskPath(halts)
      BY <1>4, <1>7, <2>1 DEF TaskPath
    <2>3. QED
      BY <1>1, <1>4, <1>8, <2>2, TaskStep
  <1>9. CASE watcher' = [watcher EXCEPT ![w] = Ended] /\ jobs' = jobs
    <2>1. TaskPath(Ended)
      BY EndedForm DEF TaskPath
    <2>2. QED
      BY <1>1, <1>9, <2>1, EndedForm, TaskStep
  <1>10. CASE watcher' = [watcher EXCEPT ![w] = goes(credible)] /\ jobs' = jobs
    <2>1. outside = 0 /\ served = w => TaskPath(goes(credible))
      BY <1>6, <1>7 DEF TaskPath
    <2>2. QED
      BY <1>1, <1>6, <1>10, <2>1, TaskStep
  <1>11. QED
    BY <1>2, <1>8, <1>9, <1>10

-----------------------------------------------------------------------------
(* A caller's step. *)

\* Cancellation ends one watcher at most, and takes no job of a caller.
LEMMA CancelFollow ==
  ASSUME FollowInv, CancelTarget
  PROVE  /\ DOMAIN watcher' = Watchers /\ jobs' \subseteq jobs
         /\ \A w \in Watchers :
              /\ TaskFields \subseteq DOMAIN watcher'[w]
              /\ watcher'[w].pc = "none" <=> watcher[w].pc = "none"
              /\ watcher'[w] = watcher[w] \/ watcher'[w].pc = "cancelled"
  <1>1. jobs' \subseteq jobs
    BY DEF CancelTarget
  <1>2. CASE slot # NoWatcher /\ Live(slot) /\ slot \in Watchers
    <2>1. watcher' = [watcher EXCEPT ![slot].pc = "cancelled"]
      BY <1>2 DEF CancelTarget, Cancelled
    <2>2. /\ DOMAIN watcher' = Watchers /\ TaskFields \subseteq DOMAIN watcher'[slot]
          /\ watcher'[slot].pc = "cancelled"
          /\ \A w \in Watchers \ {slot} : watcher'[w] = watcher[w]
      BY <1>2, <2>1 DEF FollowInv, Forms, TaskFields
    <2>3. watcher[slot].pc # "none"
      BY <1>2 DEF Live
    <2>4. QED
      BY <1>1, <2>2, <2>3 DEF FollowInv, Forms
  <1>3. CASE ~(slot # NoWatcher /\ Live(slot) /\ slot \in Watchers)
    <2>1. watcher' = watcher \/ (slot \notin Watchers
                                 /\ watcher' = [watcher EXCEPT ![slot].pc = "cancelled"])
      BY <1>3 DEF CancelTarget, Cancelled
    <2>2. DOMAIN watcher' = Watchers /\ \A w \in Watchers : watcher'[w] = watcher[w]
      BY <2>1 DEF FollowInv, Forms
    <2>3. QED
      BY <1>1, <2>2 DEF FollowInv, Forms
  <1>4. QED
    BY <1>2, <1>3

\* A service begins with the next number.
LEMMA RequestStep ==
  ASSUME FollowInv, NEW c \in Callers, caller[c].pc = "idle", requests < MaxRequests,
         requests' = requests + 1, UNCHANGED <<gate, served, outside>>,
         NEW action \in Motions \cup {"stop", "cancel"}, NEW target, NEW start,
         target # NoPlace => action \in Motions /\ target \in Places,
         Begin(c, action, target, start), CancelTarget
  PROVE  FollowStep
  <1> DEFINE new == [pc |-> "joining", n |-> requests', action |-> action,
                     target |-> target, start |-> start,
                     joins |-> IF slot # NoWatcher /\ Live(slot) THEN slot ELSE NoWatcher]
  <1>1. /\ DOMAIN caller' = Callers /\ caller'[c] = new
        /\ \A d \in Callers \ {c} : caller'[d] = caller[d]
    BY DEF Begin, FollowInv, Forms
  <1>2. /\ CallFields \subseteq DOMAIN new /\ new.pc = "joining" /\ new.n = requests + 1
        /\ new.action = action /\ new.target = target
    BY DEF CallFields
  <1> HIDE DEF new
  <1>3. requests \in Nat /\ MaxRequests \in Nat /\ served \in 0..requests
        /\ requests + 1 \in Watchers /\ requests' \in 0..MaxRequests
        /\ 1..requests \subseteq 1..requests' /\ 1..requests \subseteq Watchers
        /\ requests + 1 \notin 1..requests /\ requests + 1 \in 1..requests'
        /\ served # requests + 1 /\ served \in 0..requests'
    <2>1. MaxRequests \in Nat /\ requests \in 0..MaxRequests /\ served \in 0..requests
      BY TargetAssumption DEF FollowInv, NumbersSound
    <2>2. QED
      BY <2>1 DEF Watchers
  <1>4. /\ DOMAIN watcher' = Watchers /\ jobs' \subseteq jobs
        /\ \A w \in Watchers :
              /\ TaskFields \subseteq DOMAIN watcher'[w]
              /\ watcher'[w].pc = "none" <=> watcher[w].pc = "none"
              /\ watcher'[w] = watcher[w] \/ watcher'[w].pc = "cancelled"
    BY CancelFollow
  <1>5. Forms'
    BY <1>1, <1>2, <1>4 DEF FollowInv, Forms
  <1>6. NumbersSound'
    <2>1. \A w \in Watchers : w > requests + 1 => w > requests
      BY <1>3 DEF Watchers
    <2>2. QED
      BY <1>3, <1>4, <2>1 DEF FollowInv, NumbersSound
  <1>7. CallersSound'
    <2>1. watcher'[requests + 1].pc = "none"
      <3>1. requests + 1 > requests
        BY <1>3
      <3>2. QED
        BY <1>3, <1>4, <3>1 DEF FollowInv, NumbersSound
    <2>2. CallSound(caller[c])'
      BY <1>1, <1>2, <1>3, <2>1 DEF CallSound
    <2>3. ASSUME NEW d \in Callers \ {c}, caller[d].pc # "idle"
          PROVE  /\ CallSound(caller[d])' /\ caller[d].n \in 1..requests
      <3>1. CallSound(caller[d])
        BY <2>3 DEF FollowInv, CallersSound
      <3>2. QED
        BY <1>1, <1>3, <1>4, <2>3, <3>1 DEF CallSound
    <2>4. QED
      BY <1>1, <1>2, <1>3, <2>2, <2>3 DEF CallersSound, FollowInv
  <1>8. JobsSound'
    <2>1. \A d \in Callers, j \in jobs : Waits(d, j) => Waits(d, j)'
      BY <1>1 DEF Waits
    <2>2. QED
      BY <1>4, <2>1 DEF FollowInv, JobsSound, JobSound
  <1>9. Path'
    <2>1. \A d \in Callers : CallPath(caller[d]) => CallPath(caller[d])'
      BY <1>1, <1>2 DEF CallPath
    <2>2. \A w \in Watchers : TaskPath(watcher[w]) => TaskPath(watcher[w])'
      BY <1>4 DEF TaskPath
    <2>3. QED
      BY <2>1, <2>2 DEF FollowInv, Path
  <1>10. \A w \in Watchers : NotShort(w)
    BY <1>4 DEF NotShort
  <1>11. QED
    BY <1>5, <1>6, <1>7, <1>8, <1>9, <1>10 DEF FollowInv, FollowStep

LEMMA CommandFollow ==
  ASSUME FollowInv, NEW c \in Callers, NEW a \in Offered[c] \ {"position"}, Command(c, a)
  PROVE  FollowStep
  <1>1. a \in Motions \cup {"stop", "cancel"}
    BY TargetAssumption DEF Motions
  <1>2. QED
    BY <1>1, RequestStep DEF Command

\* Steps that change nothing but, perhaps, the number of requests.
LEMMA SameFollow ==
  ASSUME FollowInv, UNCHANGED <<gate, watcher, caller, jobs, served, outside>>,
         requests' = requests \/ (requests' = requests + 1 /\ requests < MaxRequests)
  PROVE  FollowStep
  <1>1. /\ requests \in Nat /\ requests' \in 0..MaxRequests /\ served \in 0..requests'
        /\ 1..requests \subseteq 1..requests'
        /\ \A w \in Watchers : w > requests' => w > requests
    <2>1. MaxRequests \in Nat /\ requests \in 0..MaxRequests /\ served \in 0..requests
      BY TargetAssumption DEF FollowInv, NumbersSound
    <2>2. QED
      BY <2>1 DEF Watchers
  <1>2. NumbersSound'
    BY <1>1 DEF FollowInv, NumbersSound
  <1>3. CallersSound'
    BY <1>1 DEF FollowInv, CallersSound, CallSound
  <1>4. Forms' /\ JobsSound' /\ Path' /\ SoundGate(gate)'
    BY DEF FollowInv, Forms, JobsSound, JobSound, Waits, Path, CallPath, TaskPath
  <1>5. \A w \in Watchers : NotShort(w)
    BY DEF NotShort
  <1>6. QED
    BY <1>2, <1>3, <1>4, <1>5 DEF FollowInv, FollowStep

LEMMA SetPositionFollow ==
  ASSUME FollowInv, NEW c \in Callers, NEW t \in Places, SetPosition(c, t)
  PROVE  FollowStep
  <1> DEFINE act(current, moving) ==
        IF current = NoPlace THEN "none"
        ELSE IF t = 0 THEN "close"
        ELSE IF t = Full THEN "open"
        ELSE IF t = current THEN IF moving THEN "stop" ELSE "none"
        ELSE IF t > current THEN "open" ELSE "close"
      kept(current) == t \in Places \ {0, Full, current}
  <1>1. PICK current \in Places \cup {NoPlace}, moving \in BOOLEAN :
          \/ UNCHANGED <<caller, slot, watcher, jobs>>
          \/ /\ act(current, moving) # "none"
             /\ Begin(c, act(current, moving), IF kept(current) THEN t ELSE NoPlace,
                      IF kept(current) THEN current ELSE 0)
             /\ CancelTarget
    BY DEF SetPosition
  <1>2. act(current, moving) # "none" =>
          /\ act(current, moving) \in Motions \cup {"stop", "cancel"}
          /\ kept(current) => act(current, moving) \in Motions
    BY DEF Motions
  <1>3. /\ caller[c].pc = "idle" /\ requests < MaxRequests /\ requests' = requests + 1
        /\ UNCHANGED <<gate, served, outside>>
    BY DEF SetPosition
  <1> HIDE DEF act, kept
  <1>4. CASE UNCHANGED <<caller, slot, watcher, jobs>>
    BY <1>3, <1>4, SameFollow
  <1>5. CASE /\ act(current, moving) # "none"
             /\ Begin(c, act(current, moving), IF kept(current) THEN t ELSE NoPlace,
                      IF kept(current) THEN current ELSE 0)
             /\ CancelTarget
    <2>1. (IF kept(current) THEN t ELSE NoPlace) # NoPlace =>
            kept(current) /\ (IF kept(current) THEN t ELSE NoPlace) \in Places
      OBVIOUS
    <2>2. QED
      BY <1>2, <1>3, <1>5, <2>1, RequestStep
  <1>6. QED
    BY <1>1, <1>4, <1>5

LEMMA IdleForm == CallFields \subseteq DOMAIN Idle /\ Idle.pc = "idle"
  BY DEF Idle, CallFields

\* A caller that does not wait for a job goes on, to another state of its call or
\* to idle, and may leave its job.
LEMMA CallStep ==
  ASSUME FollowInv, NEW c \in Callers, caller[c].pc \notin {"idle", "sending"},
         NEW r, CallFields \subseteq DOMAIN r, r.pc \in {"idle", "sending"},
         r.pc = "sending" => /\ caller[c].pc = "joining" /\ r.n = caller[c].n
                             /\ r.action = caller[c].action /\ r.target = caller[c].target
                             /\ r.action # "cancel",
         caller' = [caller EXCEPT ![c] = r],
         jobs' = jobs \/ (r.pc = "sending" /\ Send("caller", r.n, r.action)),
         UNCHANGED <<gate, watcher, requests, served, outside>>
  PROVE  FollowStep
  <1>1. /\ DOMAIN caller' = Callers /\ caller'[c] = r
        /\ \A d \in Callers \ {c} : caller'[d] = caller[d]
    BY DEF FollowInv, Forms
  <1>2. CallSound(caller[c]) /\ \A d \in Callers \ {c} :
          caller[d].pc # "idle" => caller[d].n # caller[c].n
    BY DEF FollowInv, CallersSound
  <1>3. Forms' /\ NumbersSound'
    BY <1>1 DEF FollowInv, Forms, NumbersSound
  <1>4. CallersSound'
    BY <1>1, <1>2 DEF FollowInv, CallersSound, CallSound
  <1>5. JobsSound'
    <2>1. ASSUME NEW j \in jobs PROVE JobSound(j)'
      <3>1. \A d \in Callers : Waits(d, j) => Waits(d, j)'
        BY <1>1 DEF Waits
      <3>2. QED
        BY <3>1 DEF FollowInv, JobsSound, JobSound
    <2>2. ASSUME NEW j, r.pc = "sending", j = [who |-> "caller", n |-> r.n, what |-> r.action]
          PROVE  JobSound(j)'
      <3>1. /\ j.who = "caller" /\ j.n = r.n /\ j.what = r.action
            /\ j = [who |-> j.who, n |-> j.n, what |-> j.what]
        BY <2>2
      <3>2. Waits(c, j)'
        BY <1>1, <2>2, <3>1 DEF Waits
      <3>3. r.action \in Motions \cup {"stop"}
        BY <1>2, <2>2 DEF CallSound
      <3>4. QED
        BY <3>1, <3>2, <3>3 DEF JobSound
    <2>3. QED
      BY <2>1, <2>2 DEF JobsSound, Send
  <1>6. Path'
    <2>1. \A d \in Callers : CallPath(caller[d]) => CallPath(caller[d])'
      BY <1>1 DEF CallPath
    <2>2. \A w \in Watchers : TaskPath(watcher[w]) => TaskPath(watcher[w])'
      BY DEF TaskPath
    <2>3. QED
      BY <2>1, <2>2 DEF FollowInv, Path
  <1>7. \A w \in Watchers : NotShort(w)
    BY DEF NotShort
  <1>8. QED
    BY <1>3, <1>4, <1>5, <1>6, <1>7 DEF FollowInv, FollowStep

LEMMA CallReturns ==
  ASSUME FollowInv, NEW c \in Callers, caller[c].pc \notin {"idle", "sending"},
         caller' = [caller EXCEPT ![c] = Idle], jobs' = jobs,
         UNCHANGED <<gate, watcher, requests, served, outside>>
  PROVE  FollowStep
  <1>1. Idle.pc \in {"idle", "sending"} /\ Idle.pc # "sending"
    BY IdleForm
  <1>2. QED
    BY <1>1, IdleForm, CallStep

LEMMA SendFollow ==
  ASSUME FollowInv, NEW c \in Callers, SendCommand(c)
  PROVE  FollowStep
  <1>1. caller[c].pc = "joining" /\ UNCHANGED <<gate, watcher, requests, served, outside>>
    BY DEF SendCommand
  <1>2. CASE caller[c].action = "cancel"
    <2>1. caller' = [caller EXCEPT ![c] = Idle] /\ jobs' = jobs
      BY <1>2 DEF SendCommand
    <2>2. QED
      BY <1>1, <2>1, CallReturns
  <1>3. CASE caller[c].action # "cancel"
    <2> DEFINE r == [caller[c] EXCEPT !.pc = "sending"]
    <2>1. caller' = [caller EXCEPT ![c] = r]
      BY <1>3 DEF SendCommand
    <2>2. /\ CallFields \subseteq DOMAIN r /\ r.pc = "sending" /\ r.n = caller[c].n
          /\ r.action = caller[c].action /\ r.target = caller[c].target
      BY DEF FollowInv, Forms, CallFields
    <2>3. Send("caller", caller[c].n, caller[c].action)
      BY <1>3 DEF SendCommand
    <2> HIDE DEF r
    <2>4. QED
      BY <1>1, <1>3, <2>1, <2>2, <2>3, CallStep
  <1>4. QED
    BY <1>2, <1>3

LEMMA FailedFollow ==
  ASSUME FollowInv, NEW c \in Callers, CommandFailed(c)
  PROVE  FollowStep
  <1>1. /\ caller[c].pc = "failed" /\ caller' = [caller EXCEPT ![c] = Idle] /\ jobs' = jobs
        /\ UNCHANGED <<gate, watcher, requests, served, outside>>
    BY DEF CommandFailed
  <1>2. QED
    BY <1>1, CallReturns

\* Set-position leaves a watcher behind, of the request whose command it sent.
LEMMA PlansForm ==
  ASSUME NEW action, NEW stop, NEW start, NEW t \in Plans(action, stop, start)
  PROVE  /\ TaskFields \subseteq DOMAIN t /\ t.pc = "asleep"
         /\ t.action = action /\ t.stop = stop
  <1> DEFINE task == [NoTask EXCEPT !.pc = "asleep", !.action = action, !.stop = stop]
  <1>1. /\ TaskFields \subseteq DOMAIN task /\ task.pc = "asleep"
        /\ task.action = action /\ task.stop = stop
    BY DEF NoTask, TaskFields
  <1> HIDE DEF task
  <1>2. t = [task EXCEPT !.grace = StartGrace]
        \/ \E raw \in BOOLEAN : t = [task EXCEPT !.timed = TRUE, !.start = start,
                                        !.raw = raw, !.left = Apart(stop, start)]
    BY DEF Plans, task
  <1>3. CASE t = [task EXCEPT !.grace = StartGrace]
    BY <1>1, <1>3 DEF TaskFields
  <1>4. ASSUME NEW raw \in BOOLEAN,
               t = [task EXCEPT !.timed = TRUE, !.start = start, !.raw = raw,
                                !.left = Apart(stop, start)]
        PROVE  /\ TaskFields \subseteq DOMAIN t /\ t.pc = "asleep"
               /\ t.action = action /\ t.stop = stop
    BY <1>1, <1>4 DEF TaskFields
  <1>5. QED
    BY <1>2, <1>3, <1>4

LEMMA AcceptedFollow ==
  ASSUME FollowInv, NEW c \in Callers, CommandAccepted(c)
  PROVE  FollowStep
  <1>1. /\ caller[c].pc = "accepted" /\ caller' = [caller EXCEPT ![c] = Idle]
        /\ UNCHANGED <<gate, jobs, requests, served, outside>>
    BY DEF CommandAccepted
  <1>2. CASE caller[c].target = NoPlace
    BY <1>1, <1>2, CallReturns DEF CommandAccepted
  <1>3. CASE caller[c].target # NoPlace
    <2> DEFINE n == caller[c].n
               action == caller[c].action
    <2>1. PICK stop \in StopPlaces(caller[c].target, action) :
            \E t \in Plans(action, stop, caller[c].start) : watcher' = [watcher EXCEPT ![n] = t]
      BY <1>3 DEF CommandAccepted
    <2>2. PICK t \in Plans(action, stop, caller[c].start) :
            watcher' = [watcher EXCEPT ![n] = t]
      BY <2>1
    <2>3. /\ TaskFields \subseteq DOMAIN t /\ t.pc = "asleep" /\ t.action = action /\ t.stop = stop
      BY <2>2, PlansForm
    <2>4. /\ CallSound(caller[c])
          /\ \A d \in Callers \ {c} : caller[d].pc # "idle" => caller[d].n # n
      BY <1>1 DEF FollowInv, CallersSound
    <2>5. n \in 1..requests /\ action \in Motions /\ stop \in Places
      BY <1>3, <2>1, <2>4 DEF CallSound, StopPlaces
    <2>6. n \in Watchers /\ 1..requests \subseteq Watchers /\ ~(n > requests)
      <3>1. requests \in 0..MaxRequests /\ MaxRequests \in Nat
        BY TargetAssumption DEF FollowInv, NumbersSound
      <3>2. QED
        BY <2>5, <3>1 DEF Watchers
    <2>7. /\ DOMAIN watcher' = Watchers /\ watcher'[n] = t
          /\ \A w \in Watchers \ {n} : watcher'[w] = watcher[w]
          /\ DOMAIN caller' = Callers /\ caller'[c] = Idle
          /\ \A d \in Callers \ {c} : caller'[d] = caller[d]
      BY <1>1, <2>2, <2>6 DEF FollowInv, Forms
    <2>8. Forms'
      BY <1>1, <2>3, <2>7, IdleForm DEF FollowInv, Forms
    <2>9. NumbersSound'
      BY <1>1, <2>6, <2>7 DEF FollowInv, NumbersSound
    <2>10. CallersSound'
      <3>1. ASSUME NEW d \in Callers \ {c}, caller[d].pc # "idle"
            PROVE  CallSound(caller[d])' /\ caller'[d] = caller[d]
        <4>1. CallSound(caller[d]) /\ caller[d].n # n
          BY <2>4, <3>1 DEF FollowInv, CallersSound
        <4>2. QED
          BY <1>1, <2>6, <2>7, <4>1 DEF CallSound
      <3>2. QED
        BY <2>7, <3>1, IdleForm DEF FollowInv, CallersSound
    <2>11. JobsSound'
      <3>1. \A d \in Callers, j \in jobs : Waits(d, j) => Waits(d, j)'
        BY <1>1, <2>7 DEF Waits
      <3>2. QED
        BY <1>1, <3>1 DEF FollowInv, JobsSound, JobSound
    <2>12. Path'
      <3>1. \A d \in Callers : CallPath(caller[d]) => CallPath(caller[d])'
        BY <1>1, <2>7, IdleForm DEF CallPath
      <3>2. \A w \in Watchers \ {n} : TaskPath(watcher[w]) => TaskPath(watcher[w])'
        BY <1>1, <2>7 DEF TaskPath
      <3>3. ASSUME outside = 0, NEW w \in Watchers, w = n, served = w
            PROVE  TaskPath(watcher[w])'
        <4>1. CallPath(caller[c]) /\ outside = 0 /\ served = n
          BY <1>1, <3>3 DEF FollowInv, Path
        <4>2. Going(gate, action)
          BY <1>1, <1>3, <4>1 DEF CallPath
        <4>3. Going(gate, t.action)'
          BY <1>1, <2>3, <4>2 DEF Going
        <4>4. watcher'[w] = t /\ t.pc = "asleep"
          BY <2>3, <2>7, <3>3
        <4>5. t.action \in Motions /\ t.stop \in Places
          BY <2>3, <2>5
        <4>6. QED
          BY <4>3, <4>4, <4>5 DEF TaskPath
      <3>4. QED
        BY <1>1, <3>1, <3>2, <3>3 DEF FollowInv, Path
    <2>13. \A w \in Watchers : NotShort(w)
      BY <2>3, <2>7 DEF NotShort
    <2>14. QED
      BY <1>1, <2>8, <2>9, <2>10, <2>11, <2>12, <2>13 DEF FollowInv, FollowStep
  <1>4. QED
    BY <1>2, <1>3

-----------------------------------------------------------------------------
(* The executor and time. *)

\* A job of a caller ends: the gate may have obeyed it, and has if it is accepted.
LEMMA CallerJobStep ==
  ASSUME FollowInv, NEW j \in jobs, j.who = "caller", jobs' = jobs \ {j},
         gate' \in {gate} \cup Obeyed(gate, j.what), served' = j.n,
         NEW outcome \in {"accepted", "failed"}, Answer(j, outcome),
         outcome = "accepted" => gate' \in Obeyed(gate, j.what),
         UNCHANGED <<requests, outside>>
  PROVE  FollowStep
  <1>1. /\ j.what \in Motions \cup {"stop"}
        /\ j = [who |-> j.who, n |-> j.n, what |-> j.what]
    BY DEF FollowInv, JobsSound, JobSound
  <1>2. PICK c \in Callers : Waits(c, j)
    BY DEF FollowInv, JobsSound, JobSound
  <1>3. caller[c].pc = "sending" /\ caller[c].n = j.n /\ caller[c].action = j.what
    BY <1>2 DEF Waits
  <1>4. /\ CallSound(caller[c])
        /\ \A d \in Callers \ {c} : caller[d].pc # "idle" => caller[d].n # j.n
    BY <1>3 DEF FollowInv, CallersSound
  <1>5. /\ watcher' = watcher
        /\ caller' = [d \in Callers |->
              IF caller[d].pc = "sending" /\ caller[d].n = j.n
              THEN [caller[d] EXCEPT !.pc = outcome] ELSE caller[d]]
    BY DEF Answer
  <1> DEFINE r == [caller[c] EXCEPT !.pc = outcome]
  <1>6. /\ DOMAIN caller' = Callers /\ caller'[c] = r
        /\ \A d \in Callers \ {c} : caller'[d] = caller[d]
    BY <1>3, <1>4, <1>5
  <1>7. /\ CallFields \subseteq DOMAIN r /\ r.pc = outcome /\ r.n = j.n
        /\ r.action = j.what /\ r.target = caller[c].target
    BY <1>3 DEF FollowInv, Forms, CallFields
  <1> HIDE DEF r
  <1>8. /\ SoundGate(gate') /\ GateFields \subseteq DOMAIN gate'
        /\ outcome = "accepted" => Going(gate', j.what)
    BY <1>1, ObeyedGate DEF FollowInv, Forms
  <1>9. Forms'
    BY <1>5, <1>6, <1>7, <1>8 DEF FollowInv, Forms
  <1>10. NumbersSound'
    <2>1. j.n \in 0..requests
      BY <1>3, <1>4 DEF CallSound
    <2>2. QED
      BY <1>5, <2>1 DEF FollowInv, NumbersSound
  <1>11. CallersSound'
    <2>1. CallSound(caller[c])'
      BY <1>4, <1>3, <1>5, <1>6, <1>7 DEF CallSound
    <2>2. ASSUME NEW d \in Callers \ {c}, caller[d].pc # "idle"
          PROVE  CallSound(caller[d])' /\ caller[d].n # j.n
      BY <1>4, <1>5, <1>6, <2>2 DEF FollowInv, CallersSound, CallSound
    <2>3. QED
      BY <1>6, <1>7, <2>1, <2>2 DEF FollowInv, CallersSound
  <1>12. JobsSound'
    <2>1. ASSUME NEW k \in jobs \ {j} PROVE JobSound(k)'
      <3>1. JobSound(k)
        BY DEF FollowInv, JobsSound
      <3>2. ASSUME k.who = "caller", NEW d \in Callers, Waits(d, k)
            PROVE  Waits(d, k)'
        <4>1. k = [who |-> k.who, n |-> k.n, what |-> k.what]
          BY <3>1 DEF JobSound
        <4>2. k.n # j.n \/ k.what # j.what
          BY <1>1, <3>2, <4>1
        <4>3. d # c
          BY <1>3, <3>2, <4>2 DEF Waits
        <4>4. QED
          BY <1>6, <3>2, <4>3 DEF Waits
      <3>3. QED
        BY <3>1, <3>2 DEF JobSound
    <2>2. QED
      BY <2>1 DEF JobsSound
  <1>13. Path'
    <2>1. CallPath(caller[c])'
      BY <1>6, <1>7, <1>8 DEF CallPath
    <2>2. \A d \in Callers \ {c} : CallPath(caller[d])'
      BY <1>4, <1>6 DEF CallPath
    <2>3. watcher'[j.n].pc = "none"
      BY <1>3, <1>4, <1>5 DEF CallSound
    <2>4. \A w \in Watchers : served' = w => TaskPath(watcher[w])'
      BY <2>3 DEF TaskPath
    <2>5. QED
      BY <2>1, <2>2, <2>4 DEF Path
  <1>14. \A w \in Watchers : NotShort(w)
    BY <1>5 DEF NotShort
  <1>15. QED
    BY <1>8, <1>9, <1>10, <1>11, <1>12, <1>13, <1>14 DEF FollowInv, FollowStep

\* The stop of a watcher: the gate stands where it is.
LEMMA WatcherJobStep ==
  ASSUME FollowInv, NEW j \in jobs, j.who # "caller", jobs' = jobs \ {j},
         gate' \in {gate} \cup Obeyed(gate, j.what), served' = served,
         NEW outcome, Answer(j, outcome), UNCHANGED <<requests, outside>>
  PROVE  FollowStep
  <1>1. j.n \in Watchers /\ j.what = "stop"
    BY DEF FollowInv, JobsSound, JobSound
  <1>2. /\ SoundGate(gate') /\ GateFields \subseteq DOMAIN gate' /\ gate'.place = gate.place
        /\ \A a : Going(gate, a) => Going(gate', a)
    BY <1>1, ObeyedGate DEF FollowInv, Forms
  <1> DEFINE t == [watcher[j.n] EXCEPT !.pc = IF @ = "stopping" THEN "stopped" ELSE @]
  <1>3. caller' = caller /\ watcher' = [watcher EXCEPT ![j.n] = t]
    <2>1. DOMAIN watcher = Watchers
      BY DEF FollowInv, Forms
    <2>2. QED
      BY <1>1, <2>1 DEF Answer
  <1>4. /\ TaskFields \subseteq DOMAIN t
        /\ t.pc = IF watcher[j.n].pc = "stopping" THEN "stopped" ELSE watcher[j.n].pc
        /\ t.action = watcher[j.n].action /\ t.stop = watcher[j.n].stop
        /\ t.seen = watcher[j.n].seen /\ t.timed = watcher[j.n].timed
    BY <1>1 DEF FollowInv, Forms, TaskFields
  <1> HIDE DEF t
  <1>5. /\ DOMAIN watcher' = Watchers /\ watcher'[j.n] = t
        /\ \A w \in Watchers \ {j.n} : watcher'[w] = watcher[w]
    BY <1>1, <1>3 DEF FollowInv, Forms
  <1>6. \A w \in Watchers : watcher'[w].pc = "none" <=> watcher[w].pc = "none"
    BY <1>4, <1>5
  <1>7. Forms'
    BY <1>2, <1>3, <1>4, <1>5 DEF FollowInv, Forms
  <1>8. NumbersSound'
    BY <1>6 DEF FollowInv, NumbersSound
  <1>9. CallersSound'
    <2>1. 1..requests \subseteq Watchers
      <3>1. requests \in 0..MaxRequests /\ MaxRequests \in Nat
        BY TargetAssumption DEF FollowInv, NumbersSound
      <3>2. QED
        BY <3>1 DEF Watchers
    <2>2. QED
      BY <1>3, <1>6, <2>1 DEF FollowInv, CallersSound, CallSound
  <1>10. JobsSound'
    BY <1>3 DEF FollowInv, JobsSound, JobSound, Waits
  <1>11. Path'
    <2>1. \A c \in Callers : CallPath(caller[c]) => CallPath(caller[c])'
      BY <1>2, <1>3 DEF CallPath
    <2>2. TaskPath(watcher[j.n]) => TaskPath(watcher[j.n])'
      BY <1>2, <1>4, <1>5 DEF TaskPath
    <2>3. \A w \in Watchers \ {j.n} : TaskPath(watcher[w]) => TaskPath(watcher[w])'
      BY <1>2, <1>5 DEF TaskPath
    <2>4. QED
      BY <2>1, <2>2, <2>3 DEF FollowInv, Path
  <1>12. ASSUME NEW w \in Watchers PROVE NotShort(w)
    <2>1. SUFFICES ASSUME watcher[w].pc = "stopping", ~watcher[w].timed, outside = 0, served = w
                   PROVE  IF watcher[w].action = "open" THEN gate'.place >= watcher[w].stop
                          ELSE gate'.place <= watcher[w].stop
      BY DEF NotShort
    <2>2. TaskPath(watcher[w])
      BY <2>1 DEF FollowInv, Path
    <2>3. PositionReached(watcher[w].action, gate.place, watcher[w].stop)
      BY <2>1, <2>2 DEF TaskPath
    <2>4. QED
      BY <1>2, <2>3 DEF PositionReached
  <1>13. QED
    BY <1>2, <1>7, <1>8, <1>9, <1>10, <1>11, <1>12 DEF FollowInv, FollowStep

LEMMA JobFollow ==
  ASSUME FollowInv, NEW j \in jobs, CarryOut(j) \/ JobFails(j)
  PROVE  FollowStep
  <1>1. CASE j.who = "caller"
    BY <1>1, CallerJobStep DEF CarryOut, JobFails
  <1>2. CASE j.who # "caller"
    BY <1>2, WatcherJobStep DEF CarryOut, JobFails
  <1>3. QED
    BY <1>1, <1>2

\* Time passes: the gate goes no way back.
LEMMA TickFollow ==
  ASSUME FollowInv, Tick
  PROVE  FollowStep
  <1> DEFINE run(w) == [watcher[w] EXCEPT
                          !.left = IF @ \in {0, NoDelay} THEN @ ELSE @ - 1,
                          !.grace = IF @ = 0 THEN 0 ELSE @ - 1]
  <1>1. /\ watcher' = [w \in Watchers |-> IF ~Live(w) THEN watcher[w] ELSE run(w)]
        /\ gate' = Advanced(gate)
        /\ UNCHANGED <<caller, jobs, requests, served, outside>>
    BY DEF Tick
  <1>2. \A w \in Watchers :
          /\ TaskFields \subseteq DOMAIN run(w) /\ run(w).pc = watcher[w].pc
          /\ run(w).action = watcher[w].action /\ run(w).stop = watcher[w].stop
          /\ run(w).seen = watcher[w].seen /\ run(w).timed = watcher[w].timed
    BY DEF FollowInv, Forms, TaskFields
  <1> HIDE DEF run
  <1>3. \A w \in Watchers :
          /\ TaskFields \subseteq DOMAIN watcher'[w] /\ watcher'[w].pc = watcher[w].pc
          /\ watcher'[w].action = watcher[w].action /\ watcher'[w].stop = watcher[w].stop
          /\ watcher'[w].seen = watcher[w].seen /\ watcher'[w].timed = watcher[w].timed
    BY <1>1, <1>2 DEF FollowInv, Forms
  <1>4. /\ SoundGate(gate') /\ GateFields \subseteq DOMAIN gate'
        /\ \A a \in Motions : Going(gate, a) =>
              /\ Going(gate', a)
              /\ \A p \in Places : PositionReached(a, gate.place, p)
                                     => PositionReached(a, gate'.place, p)
    BY <1>1, AdvancedGate DEF FollowInv, Forms
  <1>5. Forms' /\ NumbersSound'
    BY <1>1, <1>3, <1>4 DEF FollowInv, Forms, NumbersSound
  <1>6. 1..requests \subseteq Watchers
    <2>1. requests \in 0..MaxRequests /\ MaxRequests \in Nat
      BY TargetAssumption DEF FollowInv, NumbersSound
    <2>2. QED
      BY <2>1 DEF Watchers
  <1>7. CallersSound' /\ JobsSound'
    BY <1>1, <1>3, <1>6 DEF FollowInv, CallersSound, CallSound, JobsSound, JobSound, Waits
  <1>8. Path'
    <2>1. ASSUME NEW c \in Callers, outside = 0
          PROVE  CallPath(caller[c])'
      <3>1. CallPath(caller[c]) /\ (caller[c].pc # "idle" => CallSound(caller[c]))
        BY <2>1 DEF FollowInv, Path, CallersSound
      <3>2. QED
        BY <1>1, <1>4, <3>1 DEF CallPath, CallSound
    <2>2. \A w \in Watchers : TaskPath(watcher[w]) => TaskPath(watcher[w])'
      BY <1>3, <1>4 DEF TaskPath
    <2>3. QED
      BY <1>1, <2>1, <2>2 DEF FollowInv, Path
  <1>9. \A w \in Watchers : NotShort(w)
    BY <1>3 DEF NotShort
  <1>10. QED
    BY <1>4, <1>5, <1>7, <1>8, <1>9 DEF FollowInv, FollowStep

\* Somebody else moves the gate: from then on its way is not the watcher's.
LEMMA OutsideFollow ==
  ASSUME FollowInv, Outside
  PROVE  FollowStep
  <1>1. /\ outside' = outside + 1 /\ UNCHANGED <<watcher, caller, jobs, requests, served>>
        /\ \/ \E r \in Rests : gate' = [gate EXCEPT !.motion = "still", !.rest = r, !.due = "none"]
           \/ \E a \in Motions : gate' \in Obeyed(gate, a)
    BY DEF Outside
  <1>2. SoundGate(gate') /\ GateFields \subseteq DOMAIN gate'
    <2>1. ASSUME NEW r, gate' = [gate EXCEPT !.motion = "still", !.rest = r, !.due = "none"]
          PROVE  SoundGate(gate') /\ GateFields \subseteq DOMAIN gate'
      BY <2>1 DEF FollowInv, Forms, SoundGate, GateFields
    <2>2. QED
      BY <1>1, <2>1, ObeyedGate DEF FollowInv, Forms
  <1>3. outside' \in Nat /\ outside' # 0
    <2>1. outside \in Nat
      BY DEF FollowInv, NumbersSound
    <2>2. outside' = outside + 1
      BY <1>1
    <2>3. QED
      BY <2>1, <2>2
  <1>4. Forms' /\ NumbersSound'
    BY <1>1, <1>2, <1>3 DEF FollowInv, Forms, NumbersSound
  <1>5. CallersSound' /\ JobsSound' /\ Path'
    BY <1>1, <1>3 DEF FollowInv, CallersSound, CallSound, JobsSound, JobSound, Waits, Path
  <1>6. \A w \in Watchers : NotShort(w)
    BY <1>1 DEF NotShort
  <1>7. QED
    BY <1>2, <1>4, <1>5, <1>6 DEF FollowInv, FollowStep

-----------------------------------------------------------------------------
(* The theorem. *)

LEMMA FollowInit == Init => FollowInv
  <1> SUFFICES ASSUME Init PROVE FollowInv
    OBVIOUS
  <1>1. /\ GateFields \subseteq DOMAIN gate /\ gate.place \in Places /\ gate.motion = "still"
        /\ gate.due = "none"
    BY DEF Init, GateFields
  <1>2. Forms
    BY <1>1, IdleForm, EndedForm DEF Init, Forms
  <1>3. SoundGate(gate)
    BY <1>1 DEF SoundGate
  <1>4. NumbersSound /\ \A w \in Watchers : watcher[w].pc = "none"
    BY EndedForm, TargetAssumption DEF Init, NumbersSound
  <1>5. CallersSound /\ JobsSound /\ \A c \in Callers : caller[c].pc = "idle"
    BY IdleForm DEF Init, CallersSound, JobsSound
  <1>6. Path
    BY <1>4, <1>5 DEF Path, CallPath, TaskPath
  <1>7. QED
    BY <1>2, <1>3, <1>4, <1>5, <1>6 DEF FollowInv

LEMMA FollowNext ==
  ASSUME FollowInv, [Next]_vars
  PROVE  FollowStep
  <1>1. ASSUME NEW c \in Callers, NEW a \in Offered[c] \ {"position"}, Command(c, a)
        PROVE  FollowStep
    BY <1>1, CommandFollow
  <1>2. ASSUME NEW c \in Callers, NEW t \in Places, SetPosition(c, t)
        PROVE  FollowStep
    BY <1>2, SetPositionFollow
  <1>3. ASSUME NEW c \in Callers, SendCommand(c) \/ CommandAccepted(c) \/ CommandFailed(c)
        PROVE  FollowStep
    BY <1>3, SendFollow, AcceptedFollow, FailedFollow
  <1>4. ASSUME NEW w \in Watchers, Wake(w) \/ WakeFails(w) \/ Decide(w) \/ Unwind(w)
        PROVE  FollowStep
    BY <1>4, WakeFollow, EndsFollow, DecideFollow
  <1>5. ASSUME NEW j \in jobs, CarryOut(j) \/ JobFails(j)
        PROVE  FollowStep
    BY <1>5, JobFollow
  <1>6. CASE Tick \/ Outside
    BY <1>6, TickFollow, OutsideFollow
  <1>7. CASE UNCHANGED vars
    BY <1>7, SameFollow DEF vars
  <1>8. QED
    BY <1>1, <1>2, <1>3, <1>4, <1>5, <1>6, <1>7 DEF Next

\* position.py:634-657: a reading may be old when the stop it asks for reaches the
\* gate, but as long as nobody else moves the gate it can only have come further.
THEOREM StopsReach == Spec => StopsNotShort
  <1>1. FollowInv /\ [Next]_vars => FollowInv'
    BY FollowNext DEF FollowStep
  <1>2. ASSUME FollowInv, [Next]_vars
        PROVE  [\A w \in Watchers :
                  /\ watcher[w].pc = "stopping" /\ watcher'[w].pc = "stopped"
                  /\ ~watcher[w].timed /\ outside = 0 /\ served = w
                  => IF watcher[w].action = "open" THEN gate'.place >= watcher[w].stop
                                                   ELSE gate'.place <= watcher[w].stop]_vars
    BY <1>2, FollowNext DEF FollowStep, NotShort
  <1>3. QED
    BY FollowInit, <1>1, <1>2, PTL DEF Spec, StopsNotShort

=============================================================================
