-------------------------- MODULE EntrySetupProofs --------------------------
(***************************************************************************)
(* Proofs about EntrySetup, for every set of accessories and addresses and *)
(* every value of the bounds.                                              *)
(***************************************************************************)
EXTENDS EntrySetup, SequenceTheorems, FiniteSetTheorems, TLAPS

-----------------------------------------------------------------------------
(* The inductive invariant.                                                *)

Policies == {"local", "cloud", "fallback"}
Data == [mac : Ids \cup {"no mac"}, cred : Ids \cup {"bad"}, mode : Policies,
         host : Addresses \cup {Blank}]
Entry == [state : {"none", "not_loaded", "setting_up", "loaded", "retry", "failed", "stuck"},
          version : {"current", "old"}, unique : Ids \cup {"none", "raw"}, data : Data,
          using : Data, reload : BOOLEAN]
Flow == [kind : {"none", "user", "zeroconf", "reauth", "reconfigure"},
         form : {"none", "local", "confirm", "advanced", "cloud_auth", "accessories",
                 "cloud_local", "finish", "update"},
         busy : BOOLEAN, mode : Policies, data : Data, holds : Ids \cup {"none", "raw"},
         offered : SUBSET Ids, selected : Seq(Ids), passed : Seq(Data), entry : Slots]

Shapes ==
    /\ at \in [Ids -> Addresses]
    /\ entries \in [Slots -> Entry]
    /\ flows \in [Flows -> Flow]

(***************************************************************************)
(* Data a connection test accepts: the accessory's own credentials, and an *)
(* address where the policy asks for one.                                  *)
(***************************************************************************)
Good(d) == d.mac \in Ids =>
              /\ d.cred = d.mac
              /\ d.mode # "cloud" => d.host # Blank

(***************************************************************************)
(* What holds of one entry: it was accepted, is kept under its accessory's *)
(* id, and runs, or is being set up, with what is saved or is due for a    *)
(* reload.                                                                 *)
(***************************************************************************)
EntrySound(e) ==
    e # NoEntry =>
       /\ e.state # "none"
       /\ Good(e.data)
       /\ e.version = "current" /\ e.data.mac \in Ids => e.unique = e.data.mac
       /\ e.state \in {"setting_up", "loaded"} /\ ~e.reload =>
             e.using.cred = e.data.cred /\ e.using.mode = e.data.mode

OneEach ==
    \A s, r \in Slots :
       /\ entries[s] # NoEntry /\ entries[r] # NoEntry
       /\ entries[s].data.mac \in Ids /\ entries[r].data.mac = entries[s].data.mac
       => s = r

(***************************************************************************)
(* An entry of an older version is alone, and no flow is open, until it is *)
(* migrated.                                                               *)
(***************************************************************************)
OldFirst ==
    \A s \in Slots : entries[s].version = "old" =>
       /\ entries[s].state = "not_loaded"
       /\ \A r \in Slots \ {s} : entries[r] = NoEntry
       /\ \A f \in Flows : flows[f] = NoFlow

(***************************************************************************)
(* What holds of one flow: a test runs for a known accessory, the cloud    *)
(* accessories that passed are those selected, each once, and the one      *)
(* whose id the flow holds is not configured while the others are          *)
(* imported; an update is for the entry's own accessory.                   *)
(***************************************************************************)
Absent(id) == \A s \in Slots : entries[s] # NoEntry => entries[s].data.mac # id
Chosen(fl) ==
    /\ \A i, j \in 1..Len(fl.selected) : fl.selected[i] = fl.selected[j] => i = j
    /\ Len(fl.passed) <= Len(fl.selected)
    /\ \A i \in 1..Len(fl.passed) :
          fl.passed[i].mac = fl.selected[i] /\ Good(fl.passed[i])
UpdateFits(fl) ==
    /\ entries[fl.entry] # NoEntry
    /\ fl.busy => fl.data.mac \in Ids /\ fl.data.mac = entries[fl.entry].data.mac
FlowSound(fl) ==
    /\ fl.kind = "none" => fl = NoFlow
    /\ fl.form \in {"local", "confirm", "advanced"} /\ fl.busy => fl.data.mac \in Ids
    /\ fl.form = "cloud_local" =>
          /\ Chosen(fl) /\ Len(fl.passed) < Len(fl.selected)
          /\ fl.busy => fl.data.mac = fl.selected[Len(fl.passed) + 1]
    /\ fl.form = "finish" =>
          /\ Chosen(fl) /\ Len(fl.passed) > 0
          /\ fl.holds = fl.passed[1].mac
          /\ Absent(fl.holds)
    /\ fl.form = "update" => UpdateFits(fl)

HeldOnce ==
    \A f, g \in Flows :
       flows[f].form = "finish" /\ flows[g].form = "finish" /\ flows[f].holds = flows[g].holds
          => f = g

EntryInv ==
    /\ Shapes
    /\ \A s \in Slots : EntrySound(entries[s])
    /\ OneEach
    /\ OldFirst
    /\ \A f \in Flows : FlowSound(flows[f])
    /\ HeldOnce
-----------------------------------------------------------------------------
(* Constants of the model.                                                 *)

LEMMA NoDataShape == NoData \in Data /\ NoData.mac = "no mac"
  BY DEF NoData, Data, Policies

LEMMA NoEntryShape ==
  /\ NoEntry \in Entry /\ NoEntry.state = "none" /\ NoEntry.version = "current"
  /\ NoEntry.unique = "none" /\ NoEntry.data = NoData /\ NoEntry.reload = FALSE
  BY NoDataShape DEF NoEntry, Entry

LEMMA OneInSlots == 1 \in Slots
  <1>1. Cardinality(Ids) \in Nat
    BY EntryAssumption, FS_CardinalityType
  <1>2. MaxEntries \in Nat
    BY EntryAssumption
  <1>3. MaxEntries >= Cardinality(Ids) + 1
    BY EntryAssumption
  <1>4. QED
    BY <1>1, <1>2, <1>3 DEF Slots

LEMMA NoFlowShape ==
  /\ NoFlow \in Flow /\ NoFlow.kind = "none" /\ NoFlow.form = "none" /\ NoFlow.busy = FALSE
  /\ NoFlow.data = NoData /\ NoFlow.holds = "none" /\ NoFlow.entry = 1
  /\ NoFlow.selected = <<>> /\ NoFlow.passed = <<>> /\ NoFlow.offered = {}
  /\ NoFlow.mode = "local"
  <1>1. <<>> \in Seq(Ids) /\ <<>> \in Seq(Data)
    OBVIOUS
  <1>2. QED
    BY <1>1, OneInSlots, NoDataShape DEF NoFlow, Flow, Policies

LEMMA NoFlowSound == FlowSound(NoFlow)
  BY NoFlowShape DEF FlowSound

(***************************************************************************)
(* _test_connection accepts only an accessory's own credentials.           *)
(***************************************************************************)
LEMMA TestAccepts ==
  ASSUME NEW d \in Data, "ok" \in Test(d)
  PROVE  Good(d)
  <1>1. "ok" \in Lan(d) => d.cred = d.mac
    BY DEF Lan
  <1>2. "ok" \in Relay(d) => d.cred = d.mac
    BY DEF Relay
  <1>3. QED
    BY <1>1, <1>2 DEF Test, Good

-----------------------------------------------------------------------------
(* What a step may do to the entries and the flows.                        *)

(***************************************************************************)
(* Entry e goes on as e2: the same accessory's, under the same unique id.  *)
(***************************************************************************)
GoesOn(e, e2) ==
    /\ e2 \in Entry
    /\ e = NoEntry <=> e2 = NoEntry
    /\ e2.version = e.version /\ e2.unique = e.unique /\ e2.data.mac = e.data.mac
    /\ e.version = "old" /\ e.state = "not_loaded" => e2.state = "not_loaded"
    /\ EntrySound(e2)

EntriesGoOn == entries' \in [Slots -> Entry] /\ \A s \in Slots : GoesOn(entries[s], entries'[s])

LEMMA SameGoesOn ==
  ASSUME NEW e \in Entry, EntrySound(e)
  PROVE  GoesOn(e, e)
  BY DEF GoesOn

LEMMA UnchangedGoOn ==
  ASSUME EntryInv, UNCHANGED entries
  PROVE  EntriesGoOn
  BY SameGoesOn DEF EntryInv, Shapes, EntriesGoOn

LEMMA OneGoesOn ==
  ASSUME EntryInv, NEW s \in Slots, NEW e, GoesOn(entries[s], e),
         entries' = [entries EXCEPT ![s] = e]
  PROVE  EntriesGoOn
  <1>1. e \in Entry
    BY DEF GoesOn
  <1>2. entries' \in [Slots -> Entry]
    BY <1>1 DEF EntryInv, Shapes
  <1>3. \A r \in Slots \ {s} : entries'[r] = entries[r]
    BY DEF EntryInv, Shapes
  <1>4. entries'[s] = e
    BY DEF EntryInv, Shapes
  <1>5. ASSUME NEW r \in Slots PROVE GoesOn(entries[r], entries'[r])
    <2>1. CASE r = s
      BY <2>1, <1>4
    <2>2. CASE r # s
      BY <2>2, <1>3, SameGoesOn DEF EntryInv, Shapes
    <2>3. QED
      BY <2>1, <2>2
  <1>6. QED
    BY <1>2, <1>5 DEF EntriesGoOn

(***************************************************************************)
(* The flows after the step are sound about the entries before it, and     *)
(* none is open while an entry is to be migrated.                          *)
(***************************************************************************)
FlowsGoOn ==
    /\ flows' \in [Flows -> Flow]
    /\ \A f \in Flows : FlowSound(flows'[f])
    /\ HeldOnce'
    /\ Migrated \/ \A f \in Flows : flows'[f] \in {flows[f], NoFlow}

LEMMA FlowsUnchanged ==
  ASSUME EntryInv, UNCHANGED flows
  PROVE  FlowsGoOn
  BY DEF EntryInv, Shapes, FlowsGoOn, HeldOnce

LEMMA GoOn ==
  ASSUME EntryInv, at' \in [Ids -> Addresses], EntriesGoOn, FlowsGoOn
  PROVE  EntryInv'
  <1>1. Shapes'
    BY DEF EntriesGoOn, FlowsGoOn, Shapes
  <1>2. \A s \in Slots : EntrySound(entries'[s])
    BY DEF EntriesGoOn, GoesOn
  <1>3. OneEach'
    BY DEF EntryInv, OneEach, EntriesGoOn, GoesOn
  <1>4. OldFirst'
    <2> SUFFICES ASSUME NEW s \in Slots, entries'[s].version = "old"
                 PROVE  /\ entries'[s].state = "not_loaded"
                        /\ \A r \in Slots \ {s} : entries'[r] = NoEntry
                        /\ \A f \in Flows : flows'[f] = NoFlow
      BY DEF OldFirst
    <2>1. entries[s].version = "old" /\ ~Migrated
      BY DEF EntriesGoOn, GoesOn, Migrated
    <2>2. /\ entries[s].state = "not_loaded"
          /\ \A r \in Slots \ {s} : entries[r] = NoEntry
          /\ \A f \in Flows : flows[f] = NoFlow
      BY <2>1 DEF EntryInv, OldFirst
    <2>3. QED
      BY <2>1, <2>2 DEF EntriesGoOn, GoesOn, FlowsGoOn
  <1>5. ASSUME NEW f \in Flows PROVE FlowSound(flows[f])'
    <2>1. FlowSound(flows'[f])
      BY DEF FlowsGoOn
    <2>2. \A id : Absent(id) => Absent(id)'
      BY DEF Absent, EntriesGoOn, GoesOn
    <2>3. flows'[f] \in Flow
      BY DEF FlowsGoOn
    <2>4. UpdateFits(flows'[f]) => UpdateFits(flows[f])'
      BY <2>3 DEF UpdateFits, EntriesGoOn, GoesOn, Flow
    <2>5. QED
      BY <2>1, <2>2, <2>4 DEF FlowSound
  <1>6. QED
    BY <1>1, <1>2, <1>3, <1>4, <1>5 DEF EntryInv, FlowsGoOn
LEMMA OpenIsMigrated ==
  ASSUME EntryInv, NEW f \in Flows, flows[f] # NoFlow
  PROVE  Migrated
  BY DEF EntryInv, OldFirst, Migrated, Shapes, Entry

LEMMA FlowMoves ==
  ASSUME EntryInv, Migrated, NEW f \in Flows, NEW fl \in Flow, FlowSound(fl),
         flows' = [flows EXCEPT ![f] = fl],
         fl.form = "finish" =>
            \A g \in Flows \ {f} : flows[g].form = "finish" => flows[g].holds # fl.holds
  PROVE  FlowsGoOn
  <1>1. flows' \in [Flows -> Flow] /\ flows'[f] = fl
    BY DEF EntryInv, Shapes
  <1>2. \A g \in Flows \ {f} : flows'[g] = flows[g]
    BY DEF EntryInv, Shapes
  <1>3. \A g \in Flows : FlowSound(flows'[g])
    <2> TAKE g \in Flows
    <2>1. CASE g = f
      BY <2>1, <1>1
    <2>2. CASE g # f
      BY <2>2, <1>2 DEF EntryInv
    <2>3. QED
      BY <2>1, <2>2
  <1>4. HeldOnce'
    BY <1>1, <1>2 DEF EntryInv, HeldOnce
  <1>5. QED
    BY <1>1, <1>3, <1>4 DEF FlowsGoOn

LEMMA FlowCloses ==
  ASSUME EntryInv, NEW f \in Flows, flows[f] # NoFlow, Closes(f)
  PROVE  FlowsGoOn
  BY OpenIsMigrated, FlowMoves, NoFlowShape, NoFlowSound DEF Closes, Shows

(***************************************************************************)
(* A step of a flow that leaves the entries alone.                         *)
(***************************************************************************)
LEMMA FlowStep ==
  ASSUME EntryInv, UNCHANGED <<entries, at>>, FlowsGoOn
  PROVE  EntryInv'
  BY UnchangedGoOn, GoOn DEF EntryInv, Shapes

-----------------------------------------------------------------------------
(* The flows for new entries.                                              *)

LEMMA UserAddsStep ==
  ASSUME EntryInv, NEW f \in Flows, UserAdds(f)
  PROVE  EntryInv'
  <1>1. PICK mode \in Modes :
          \E form \in {"local", "cloud_auth"} :
             Opens(f, [NoFlow EXCEPT !.kind = "user", !.form = form, !.mode = mode])
    BY DEF UserAdds
  <1>2. PICK form \in {"local", "cloud_auth"} :
          Opens(f, [NoFlow EXCEPT !.kind = "user", !.form = form, !.mode = mode])
    BY <1>1
  <1> DEFINE fl == [NoFlow EXCEPT !.kind = "user", !.form = form, !.mode = mode]
  <1>3. fl \in Flow /\ fl.kind = "user" /\ fl.form = form /\ fl.busy = FALSE
    BY NoFlowShape, EntryAssumption DEF Flow, Policies
  <1>4. FlowSound(fl)
    BY <1>3 DEF FlowSound
  <1>5. FlowsGoOn
    BY <1>2, <1>3, <1>4, FlowMoves DEF UserAdds, Opens
  <1>6. QED
    BY <1>2, <1>5, FlowStep DEF UserAdds, Opens

LEMMA SubmitStep ==
  ASSUME EntryInv, NEW f \in Flows, Submit(f)
  PROVE  EntryInv'
  <1> DEFINE old == flows[f]
             known == old.form = "confirm"
             Id(mac) == IF known THEN old.data.mac ELSE mac
             New(mac, host, good) ==
               [mac |-> Id(mac), cred |-> IF good /\ Id(mac) \in Ids THEN Id(mac) ELSE "bad",
                mode |-> IF known THEN "local" ELSE old.mode,
                host |-> IF known THEN old.data.host
                         ELSE IF old.mode = "cloud" THEN Blank ELSE host]
             Fl(mac, host, good, advanced) ==
               [old EXCEPT !.data = New(mac, host, good), !.busy = ~advanced /\ Id(mac) \in Ids,
                           !.form = IF advanced THEN "advanced" ELSE @]
  <1>1. PICK mac \in Ids \cup {"no mac"} :
          \E host \in Addresses, good \in BOOLEAN, advanced \in BOOLEAN :
             Shows(f, Fl(mac, host, good, advanced))
    BY DEF Submit
  <1>2. PICK host \in Addresses, good \in BOOLEAN, advanced \in BOOLEAN :
             Shows(f, Fl(mac, host, good, advanced))
    BY <1>1
  <1>3. old \in Flow /\ FlowSound(old) /\ old.kind # "none" /\ old.form \in {"local", "confirm"}
    BY DEF Submit, Idle, EntryInv, Shapes
  <1>4. New(mac, host, good) \in Data /\ New(mac, host, good).mac = Id(mac)
    BY <1>3 DEF Flow, Data, Policies
  <1> HIDE DEF New
  <1> DEFINE fl == Fl(mac, host, good, advanced)
  <1>5. /\ fl \in Flow /\ fl.kind = old.kind /\ fl.data = New(mac, host, good)
        /\ fl.busy = (~advanced /\ Id(mac) \in Ids)
        /\ fl.form \in {"local", "confirm", "advanced"}
    BY <1>3, <1>4 DEF Flow
  <1> HIDE DEF fl
  <1>6. FlowSound(fl)
    BY <1>3, <1>4, <1>5 DEF FlowSound
  <1>7. Migrated
    BY <1>3, OpenIsMigrated, NoFlowShape
  <1>8. flows' = [flows EXCEPT ![f] = fl] /\ UNCHANGED <<entries, at>>
    BY <1>2 DEF Submit, Shows, fl
  <1>9. FlowsGoOn
    BY <1>5, <1>6, <1>7, <1>8, FlowMoves
  <1>10. QED
    BY <1>8, <1>9, FlowStep
(***************************************************************************)
(* A flow's form goes on, to a step that is not the end of a cloud flow.   *)
(***************************************************************************)
LEMMA FormStep ==
  ASSUME EntryInv, NEW f \in Flows, flows[f].kind # "none", NEW fl \in Flow, FlowSound(fl),
         Shows(f, fl), fl.form # "finish", UNCHANGED entries
  PROVE  EntryInv'
  <1>1. Migrated
    BY OpenIsMigrated, NoFlowShape
  <1>2. FlowsGoOn
    BY <1>1, FlowMoves DEF Shows
  <1>3. QED
    BY <1>2, FlowStep DEF Shows

LEMMA CloseStep ==
  ASSUME EntryInv, NEW f \in Flows, flows[f].kind # "none", Closes(f), UNCHANGED entries
  PROVE  EntryInv'
  BY FormStep, NoFlowShape, NoFlowSound DEF Closes

LEMMA TestedShape ==
  ASSUME NEW f \in Flows, flows[f] \in Flow
  PROVE  /\ Tested(f) \in Flow /\ Tested(f).busy = TRUE
         /\ Tested(f).kind = flows[f].kind /\ Tested(f).form = flows[f].form
         /\ Tested(f).data = flows[f].data /\ Tested(f).holds = flows[f].holds
         /\ Tested(f).selected = flows[f].selected /\ Tested(f).passed = flows[f].passed
         /\ Tested(f).entry = flows[f].entry
  BY DEF Tested, Flow

LEMMA AgainShape ==
  ASSUME NEW f \in Flows, flows[f] \in Flow
  PROVE  /\ Again(f) \in Flow /\ Again(f).busy = FALSE
         /\ Again(f).kind = flows[f].kind /\ Again(f).form = flows[f].form
         /\ Again(f).holds = flows[f].holds
         /\ Again(f).selected = flows[f].selected /\ Again(f).passed = flows[f].passed
         /\ Again(f).entry = flows[f].entry
  <1> DEFINE a(d) == [flows[f] EXCEPT !.busy = FALSE, !.data = d]
  <1>1. \A d \in Data :
          /\ a(d) \in Flow /\ a(d).busy = FALSE
          /\ a(d).kind = flows[f].kind /\ a(d).form = flows[f].form
          /\ a(d).holds = flows[f].holds
          /\ a(d).selected = flows[f].selected /\ a(d).passed = flows[f].passed
          /\ a(d).entry = flows[f].entry
    BY DEF Flow
  <1>2. flows[f].data \in Data
    BY DEF Flow
  <1>3. \E d \in Data : Again(f) = a(d)
    BY <1>2, NoDataShape DEF Again
  <1> HIDE DEF a
  <1>4. QED
    BY <1>1, <1>3

LEMMA AgainStep ==
  ASSUME EntryInv, NEW f \in Flows, flows[f].kind # "none", flows[f].form # "finish",
         Shows(f, Again(f)), UNCHANGED entries
  PROVE  EntryInv'
  <1>1. flows[f] \in Flow /\ FlowSound(flows[f])
    BY DEF EntryInv, Shapes
  <1>2. FlowSound(Again(f))
    BY <1>1, AgainShape DEF FlowSound, Chosen, UpdateFits
  <1>3. QED
    BY <1>1, <1>2, AgainShape, FormStep

LEMMA SubmitAdvancedStep ==
  ASSUME EntryInv, NEW f \in Flows, SubmitAdvanced(f) \/ CloudLogin(f)
  PROVE  EntryInv'
  <1>1. flows[f] \in Flow /\ FlowSound(flows[f])
    BY DEF EntryInv, Shapes
  <1>2. FlowSound(Tested(f))
    BY <1>1, TestedShape DEF FlowSound, SubmitAdvanced, CloudLogin, Idle
  <1>3. QED
    BY <1>1, <1>2, TestedShape, FormStep DEF SubmitAdvanced, CloudLogin, Idle

LEMMA CloudLoggedInStep ==
  ASSUME EntryInv, NEW f \in Flows, CloudLoggedIn(f)
  PROVE  EntryInv'
  <1>1. flows[f] \in Flow /\ FlowSound(flows[f]) /\ flows[f].form = "cloud_auth"
    BY DEF EntryInv, Shapes, CloudLoggedIn
  <1>2. flows[f].kind # "none"
    BY <1>1, NoFlowShape DEF FlowSound
  <1>3. CASE Shows(f, [flows[f] EXCEPT !.busy = FALSE])
    <2> DEFINE fl == [flows[f] EXCEPT !.busy = FALSE]
    <2>1. fl \in Flow /\ fl.kind = flows[f].kind /\ fl.form = "cloud_auth"
      BY <1>1 DEF Flow
    <2>2. FlowSound(fl)
      BY <1>2, <2>1 DEF FlowSound
    <2>3. QED
      BY <1>2, <1>3, <2>1, <2>2, FormStep DEF CloudLoggedIn
  <1>4. CASE Closes(f)
    BY <1>2, <1>4, CloseStep DEF CloudLoggedIn
  <1>5. CASE \E offered \in SUBSET Ids :
               Shows(f, [flows[f] EXCEPT !.busy = FALSE, !.form = "accessories",
                                         !.offered = offered])
    <2>1. PICK offered \in SUBSET Ids :
               Shows(f, [flows[f] EXCEPT !.busy = FALSE, !.form = "accessories",
                                         !.offered = offered])
      BY <1>5
    <2> DEFINE fl == [flows[f] EXCEPT !.busy = FALSE, !.form = "accessories",
                                         !.offered = offered]
    <2>2. fl \in Flow /\ fl.kind = flows[f].kind /\ fl.form = "accessories"
      BY <1>1 DEF Flow
    <2>3. FlowSound(fl)
      BY <1>2, <2>2 DEF FlowSound
    <2>4. QED
      BY <1>2, <2>1, <2>2, <2>3, FormStep DEF CloudLoggedIn
  <1>6. QED
    BY <1>3, <1>4, <1>5 DEF CloudLoggedIn

(***************************************************************************)
(* The accessories chosen in a cloud flow, in some order, each once.       *)
(***************************************************************************)
LEMMA OrderShape ==
  ASSUME NEW chosen \in SUBSET Ids, chosen # {}, NEW order \in SetToSeqs(chosen)
  PROVE  /\ order \in Seq(Ids) /\ Len(order) > 0
         /\ \A i, j \in 1..Len(order) : order[i] = order[j] => i = j
  <1>1. IsFiniteSet(chosen)
    BY FS_Subset, EntryAssumption
  <1>2. Cardinality(chosen) \in Nat /\ Cardinality(chosen) # 0
    BY <1>1, FS_CardinalityType, FS_EmptySet
  <1>3. /\ order \in [1..Cardinality(chosen) -> chosen]
        /\ \A i, j \in 1..Cardinality(chosen) : i # j => order[i] # order[j]
    BY DEF SetToSeqs
  <1>4. order \in Seq(Ids) /\ Len(order) = Cardinality(chosen)
    BY <1>2, <1>3
  <1>5. QED
    BY <1>2, <1>3, <1>4

LEMMA CloudSelectStep ==
  ASSUME EntryInv, NEW f \in Flows, CloudSelect(f)
  PROVE  EntryInv'
  <1>1. flows[f] \in Flow /\ FlowSound(flows[f]) /\ flows[f].kind # "none" /\ flows[f].busy = FALSE
    BY DEF EntryInv, Shapes, CloudSelect, Idle, Flow
  <1>2. PICK chosen \in (SUBSET flows[f].offered) \ {{}} : \E order \in SetToSeqs(chosen) :
          Shows(f, [flows[f] EXCEPT !.form = "cloud_local", !.selected = order, !.passed = <<>>])
    BY DEF CloudSelect
  <1>3. PICK order \in SetToSeqs(chosen) :
          Shows(f, [flows[f] EXCEPT !.form = "cloud_local", !.selected = order, !.passed = <<>>])
    BY <1>2
  <1>4. chosen \in SUBSET Ids /\ chosen # {}
    <2>1. flows[f].offered \in SUBSET Ids
      BY <1>1 DEF Flow
    <2>2. QED
      BY <1>2, <2>1
  <1>5. /\ order \in Seq(Ids) /\ Len(order) > 0
        /\ \A i, j \in 1..Len(order) : order[i] = order[j] => i = j
    BY <1>4, OrderShape
  <1> DEFINE fl == [flows[f] EXCEPT !.form = "cloud_local", !.selected = order, !.passed = <<>>]
  <1>6. /\ fl \in Flow /\ fl.kind = flows[f].kind /\ fl.form = "cloud_local" /\ fl.busy = FALSE
        /\ fl.selected = order /\ fl.passed = <<>>
    <2>1. <<>> \in Seq(Data)
      OBVIOUS
    <2>2. QED
      BY <1>1, <1>5, <2>1 DEF Flow
  <1> HIDE DEF fl
  <1>7. Len(fl.passed) = 0
    BY <1>6
  <1>8. FlowSound(fl)
    BY <1>1, <1>5, <1>6, <1>7 DEF FlowSound, Chosen
  <1>9. QED
    BY <1>1, <1>3, <1>6, <1>8, FormStep DEF CloudSelect, fl

LEMMA SubmitCloudLocalStep ==
  ASSUME EntryInv, NEW f \in Flows, SubmitCloudLocal(f)
  PROVE  EntryInv'
  <1> DEFINE old == flows[f]
             id == old.selected[Len(old.passed) + 1]
             New(host) == [mac |-> id, cred |-> id, mode |-> old.mode,
                           host |-> IF old.mode = "cloud" THEN Blank ELSE host]
  <1>1. PICK host \in Addresses : Shows(f, [Tested(f) EXCEPT !.data = New(host)])
    BY DEF SubmitCloudLocal
  <1>2. old \in Flow /\ FlowSound(old) /\ old.form = "cloud_local" /\ old.kind # "none"
    BY DEF EntryInv, Shapes, SubmitCloudLocal, Idle
  <1>3. id \in Ids
    BY <1>2 DEF FlowSound, Flow
  <1>4. New(host) \in Data /\ New(host).mac = id
    BY <1>2, <1>3 DEF Data, Flow
  <1> DEFINE fl == [Tested(f) EXCEPT !.data = New(host)]
  <1> HIDE DEF New
  <1>5. /\ fl \in Flow /\ fl.kind = old.kind /\ fl.form = "cloud_local"
        /\ fl.data = New(host) /\ fl.selected = old.selected /\ fl.passed = old.passed
    BY <1>2, <1>4, TestedShape DEF Flow
  <1> HIDE DEF fl
  <1>6. FlowSound(fl)
    BY <1>2, <1>4, <1>5 DEF FlowSound, Chosen
  <1>7. QED
    BY <1>1, <1>2, <1>5, <1>6, FormStep DEF SubmitCloudLocal, fl
(***************************************************************************)
(* The accessories of a cloud flow that have passed, with one more.        *)
(***************************************************************************)
LEMMA PassedShape ==
  ASSUME NEW fl \in Flow, Chosen(fl), Len(fl.passed) < Len(fl.selected),
         fl.data.mac = fl.selected[Len(fl.passed) + 1], Good(fl.data)
  PROVE  LET p == Append(fl.passed, fl.data)
         IN  /\ p \in Seq(Data) /\ Len(p) = Len(fl.passed) + 1
             /\ \A i \in 1..Len(p) : p[i].mac = fl.selected[i] /\ Good(p[i])
  <1> DEFINE p == Append(fl.passed, fl.data)
  <1>1. fl.passed \in Seq(Data) /\ fl.data \in Data /\ Len(fl.passed) \in Nat
    BY DEF Flow
  <1>2. p \in Seq(Data) /\ Len(p) = Len(fl.passed) + 1
    BY <1>1
  <1>3. \A i \in 1..Len(fl.passed) : p[i] = fl.passed[i]
    BY <1>1
  <1>4. p[Len(fl.passed) + 1] = fl.data
    BY <1>1
  <1>5. ASSUME NEW i \in 1..Len(p) PROVE p[i].mac = fl.selected[i] /\ Good(p[i])
    <2>1. CASE i \in 1..Len(fl.passed)
      BY <1>3, <2>1 DEF Chosen
    <2>2. CASE i = Len(fl.passed) + 1
      BY <1>4, <2>2
    <2>3. QED
      BY <1>1, <1>2, <2>1, <2>2
  <1>6. QED
    BY <1>2, <1>5

LEMMA CloudLocalTestedStep ==
  ASSUME EntryInv, NEW f \in Flows, CloudLocalTested(f)
  PROVE  EntryInv'
  <1> DEFINE old == flows[f]
             p == Append(old.passed, old.data)
             first == p[1].mac
  <1>1. old \in Flow /\ FlowSound(old) /\ old.form = "cloud_local" /\ old.busy = TRUE
    BY DEF EntryInv, Shapes, CloudLocalTested, Flow
  <1>2. old.kind # "none"
    BY <1>1, NoFlowShape DEF FlowSound
  <1>3. PICK outcome \in Test(old.data) :
          \/ ~Accepted(outcome) /\ Shows(f, Again(f))
          \/ /\ Accepted(outcome)
             /\ \/ Len(p) < Len(old.selected) /\ Shows(f, [Again(f) EXCEPT !.passed = p])
                \/ Closes(f)
                \/ /\ ~(Len(p) < Len(old.selected))
                   /\ Len(p) = Len(old.selected) => MayTake(f, first)
                   /\ Shows(f, [old EXCEPT !.form = "finish", !.passed = p, !.holds = first])
    BY DEF CloudLocalTested
  <1>4. CASE ~Accepted(outcome) /\ Shows(f, Again(f))
    BY <1>1, <1>2, <1>4, AgainStep DEF CloudLocalTested
  <1>5. CASE Closes(f)
    BY <1>2, <1>5, CloseStep DEF CloudLocalTested
  <1>6. ASSUME Accepted(outcome)
        PROVE  /\ p \in Seq(Data) /\ Len(p) = Len(old.passed) + 1
               /\ \A i \in 1..Len(p) : p[i].mac = old.selected[i] /\ Good(p[i])
    <2>1. "ok" \in Test(old.data)
      BY <1>3, <1>6 DEF Accepted
    <2>2. Good(old.data)
      BY <1>1, <2>1, TestAccepts DEF Flow
    <2>3. QED
      BY <1>1, <2>2, PassedShape DEF FlowSound
  <1>7. old.selected \in Seq(Ids) /\ old.passed \in Seq(Data)
    BY <1>1 DEF Flow
  <1> HIDE DEF p
  <1>8. CASE /\ Accepted(outcome)
             /\ Len(p) < Len(old.selected) /\ Shows(f, [Again(f) EXCEPT !.passed = p])
    <2> DEFINE fl == [Again(f) EXCEPT !.passed = p]
    <2>1. /\ fl \in Flow /\ fl.kind = old.kind /\ fl.form = "cloud_local" /\ fl.busy = FALSE
          /\ fl.passed = p /\ fl.selected = old.selected
      BY <1>1, <1>6, <1>8, AgainShape DEF Flow
    <2> HIDE DEF fl
    <2>2. FlowSound(fl)
      BY <1>1, <1>2, <1>6, <1>7, <1>8, <2>1 DEF FlowSound, Chosen
    <2>3. QED
      BY <1>2, <1>8, <2>1, <2>2, FormStep DEF CloudLocalTested, fl
  <1>9. CASE /\ Accepted(outcome)
             /\ ~(Len(p) < Len(old.selected))
             /\ Len(p) = Len(old.selected) => MayTake(f, first)
             /\ Shows(f, [old EXCEPT !.form = "finish", !.passed = p, !.holds = first])
    <2>1. Len(p) = Len(old.selected) /\ Len(p) > 0 /\ first \in Ids
      BY <1>1, <1>6, <1>7, <1>9 DEF FlowSound
    <2>2. MayTake(f, first)
      BY <1>9, <2>1
    <2> DEFINE fl == [old EXCEPT !.form = "finish", !.passed = p, !.holds = first]
    <2>3. /\ fl \in Flow /\ fl.kind = old.kind /\ fl.form = "finish"
          /\ fl.passed = p /\ fl.selected = old.selected /\ fl.holds = first
      BY <1>1, <1>6, <1>9, <2>1 DEF Flow
    <2> HIDE DEF fl
    <2>4. Migrated
      BY <1>2, OpenIsMigrated, NoFlowShape
    <2>5. Absent(first)
      <3> SUFFICES ASSUME NEW s \in Slots, entries[s] # NoEntry, entries[s].data.mac = first
                   PROVE  FALSE
        BY DEF Absent
      <3>1. entries[s].unique = first
        BY <2>1, <2>4 DEF EntryInv, EntrySound, Migrated
      <3>2. first \in Configured
        BY <3>1, <2>1, EntryAssumption DEF Configured
      <3>3. QED
        BY <2>2, <3>2 DEF MayTake
    <2>6. FlowSound(fl)
      <3>1. Chosen(fl)
        <4>1. \A i, j \in 1..Len(old.selected) : old.selected[i] = old.selected[j] => i = j
          BY <1>1 DEF FlowSound, Chosen
        <4>2. Len(fl.passed) <= Len(fl.selected)
          BY <1>7, <2>1, <2>3
        <4>3. \A i \in 1..Len(p) : p[i].mac = old.selected[i] /\ Good(p[i])
          BY <1>6, <1>9
        <4>4. QED
          BY <2>3, <4>1, <4>2, <4>3 DEF Chosen
      <3>2. Absent(fl.holds)
        BY <2>3, <2>5
      <3>3. Len(fl.passed) > 0 /\ fl.holds = fl.passed[1].mac
        BY <2>1, <2>3
      <3>4. QED
        BY <1>2, <2>3, <3>1, <3>2, <3>3 DEF FlowSound
    <2>7. ASSUME NEW g \in Flows \ {f}, flows[g].form = "finish"
          PROVE  flows[g].holds # fl.holds
      <3>1. flows[g].kind # "none"
        BY <2>7, NoFlowShape DEF EntryInv, FlowSound
      <3>2. QED
        BY <2>2, <2>3, <3>1 DEF MayTake, InProgress
    <2>8. FlowsGoOn
      BY <1>9, <2>3, <2>4, <2>6, <2>7, FlowMoves DEF Shows, fl
    <2>9. QED
      BY <1>9, <2>8, FlowStep DEF CloudLocalTested, Shows
  <1>10. QED
    BY <1>3, <1>4, <1>5, <1>8, <1>9
-----------------------------------------------------------------------------
(* A new entry.                                                            *)

LEMMA FreshShape ==
  ASSUME NEW d \in Data, d.mac \in Ids, Good(d)
  PROVE  /\ Fresh(d.mac, d) \in Entry /\ Fresh(d.mac, d).state = "not_loaded"
         /\ Fresh(d.mac, d).version = "current" /\ Fresh(d.mac, d).unique = d.mac
         /\ Fresh(d.mac, d).data = d
         /\ Fresh(d.mac, d) # NoEntry /\ EntrySound(Fresh(d.mac, d))
  <1>1. /\ Fresh(d.mac, d) \in Entry /\ Fresh(d.mac, d).state = "not_loaded"
        /\ Fresh(d.mac, d).version = "current" /\ Fresh(d.mac, d).unique = d.mac
        /\ Fresh(d.mac, d).data = d
    BY NoEntryShape DEF Fresh, Entry
  <1>2. QED
    BY <1>1, NoEntryShape DEF EntrySound

(***************************************************************************)
(* An entry comes into being for an accessory that has none and that no    *)
(* flow is about to configure.                                             *)
(***************************************************************************)
LEMMA CreateStep ==
  ASSUME EntryInv, Migrated, NEW s \in Free, NEW d \in Data, d.mac \in Ids, Good(d),
         Absent(d.mac), entries' = [entries EXCEPT ![s] = Fresh(d.mac, d)], UNCHANGED at,
         FlowsGoOn,
         \A f \in Flows : flows'[f].form = "finish" => flows'[f].holds # d.mac
  PROVE  EntryInv'
  <1>1. /\ s \in Slots /\ entries[s] = NoEntry
        /\ entries'[s] = Fresh(d.mac, d)
        /\ \A r \in Slots \ {s} : entries'[r] = entries[r]
    BY DEF Free, EntryInv, Shapes
  <1> DEFINE e == Fresh(d.mac, d)
  <1>2. /\ e \in Entry /\ e.version = "current" /\ e.data = d /\ e # NoEntry /\ EntrySound(e)
    BY FreshShape
  <1> HIDE DEF e
  <1>3. Shapes'
    BY <1>2 DEF EntryInv, Shapes, FlowsGoOn, e
  <1>4. \A r \in Slots : EntrySound(entries'[r])
    BY <1>1, <1>2 DEF EntryInv, e
  <1>5. OneEach'
    BY <1>1, <1>2 DEF EntryInv, OneEach, Absent, e
  <1>6. OldFirst'
    <2>1. \A r \in Slots : entries'[r].version = "current"
      BY <1>1, <1>2 DEF Migrated, e
    <2>2. QED
      BY <2>1 DEF OldFirst
  <1>7. ASSUME NEW f \in Flows PROVE FlowSound(flows[f])'
    <2>1. FlowSound(flows'[f]) /\ flows'[f] \in Flow
      BY DEF FlowsGoOn
    <2>2. flows'[f].form = "finish" => Absent(flows'[f].holds) /\ flows'[f].holds # d.mac
      BY <2>1 DEF FlowSound
    <2>3. \A id : Absent(id) /\ id # d.mac => Absent(id)'
      BY <1>1, <1>2 DEF Absent, e
    <2>4. UpdateFits(flows'[f]) => UpdateFits(flows[f])'
      BY <1>1, <2>1 DEF UpdateFits, Flow
    <2>5. QED
      BY <2>1, <2>2, <2>3, <2>4 DEF FlowSound
  <1>8. QED
    BY <1>3, <1>4, <1>5, <1>6, <1>7 DEF EntryInv, FlowsGoOn

(***************************************************************************)
(* A unique id that may be taken is no entry's, and no other flow's.       *)
(***************************************************************************)
LEMMA TakenIsAbsent ==
  ASSUME EntryInv, Migrated, NEW f \in Flows, NEW id \in Ids, MayTake(f, id)
  PROVE  /\ Absent(id)
         /\ \A g \in Flows \ {f} : flows[g].form = "finish" => flows[g].holds # id
  <1>1. Absent(id)
    <2> SUFFICES ASSUME NEW s \in Slots, entries[s] # NoEntry, entries[s].data.mac = id
                 PROVE  FALSE
      BY DEF Absent
    <2>1. entries[s].unique = id
      BY DEF EntryInv, EntrySound, Migrated
    <2>2. id \in Configured
      BY <2>1, EntryAssumption DEF Configured
    <2>3. QED
      BY <2>2 DEF MayTake
  <1>2. ASSUME NEW g \in Flows \ {f}, flows[g].form = "finish"
        PROVE  flows[g].holds # id
    <2>1. flows[g].kind # "none"
      BY <1>2, NoFlowShape DEF EntryInv, FlowSound
    <2>2. QED
      BY <2>1 DEF MayTake, InProgress
  <1>3. QED
    BY <1>1, <1>2

LEMMA FinishNewLocalStep ==
  ASSUME EntryInv, NEW f \in Flows, FinishNewLocal(f)
  PROVE  EntryInv'
  <1> DEFINE old == flows[f]
             d == old.data
  <1>1. old \in Flow /\ FlowSound(old) /\ old.form \in {"local", "confirm", "advanced"}
        /\ old.busy
    BY DEF EntryInv, Shapes, FinishNewLocal
  <1>2. old.kind # "none" /\ d \in Data /\ d.mac \in Ids
    BY <1>1, NoFlowShape DEF FlowSound, Flow
  <1>3. Migrated
    BY <1>2, OpenIsMigrated, NoFlowShape
  <1>4. PICK outcome \in Test(d) :
          \/ ~Accepted(outcome) /\ Shows(f, Again(f)) /\ UNCHANGED entries
          \/ Closes(f) /\ UNCHANGED entries
          \/ /\ Accepted(outcome) /\ MayTake(f, d.mac) /\ Closes(f)
             /\ \E s \in Free : entries' = [entries EXCEPT ![s] = Fresh(d.mac, d)]
    BY DEF FinishNewLocal
  <1>5. CASE ~Accepted(outcome) /\ Shows(f, Again(f)) /\ UNCHANGED entries
    BY <1>1, <1>2, <1>5, AgainStep
  <1>6. CASE Closes(f) /\ UNCHANGED entries
    BY <1>2, <1>6, CloseStep
  <1>7. CASE /\ Accepted(outcome) /\ MayTake(f, d.mac) /\ Closes(f)
             /\ \E s \in Free : entries' = [entries EXCEPT ![s] = Fresh(d.mac, d)]
    <2>1. Good(d)
      BY <1>2, <1>4, <1>7, TestAccepts DEF Accepted
    <2>2. /\ Absent(d.mac)
          /\ \A g \in Flows \ {f} : flows[g].form = "finish" => flows[g].holds # d.mac
      BY <1>2, <1>3, <1>7, TakenIsAbsent
    <2>3. FlowsGoOn
      BY <1>2, <1>7, FlowCloses, NoFlowShape
    <2>4. flows' = [flows EXCEPT ![f] = NoFlow] /\ UNCHANGED at
      BY <1>7 DEF Closes, Shows
    <2>5. \A g \in Flows : flows'[g].form = "finish" => flows'[g].holds # d.mac
      BY <2>2, <2>4, NoFlowShape DEF EntryInv, Shapes
    <2>6. QED
      BY <1>2, <1>3, <1>7, <2>1, <2>2, <2>3, <2>4, <2>5, CreateStep
  <1>8. QED
    BY <1>4, <1>5, <1>6, <1>7

(***************************************************************************)
(* The list of accepted data of a cloud flow, and what is left of it.      *)
(***************************************************************************)
LEMMA LastShape ==
  ASSUME NEW p \in Seq(Data), Len(p) > 0
  PROVE  /\ Last(p) \in Data /\ Last(p) = p[Len(p)]
         /\ Front(p) \in Seq(Data) /\ Len(Front(p)) = Len(p) - 1
         /\ \A i \in 1..Len(Front(p)) : Front(p)[i] = p[i]
  <1>1. Last(p) \in Data /\ Last(p) = p[Len(p)]
    BY DEF Last
  <1> DEFINE n == Len(p) - 1
             front == SubSeq(p, 1, n)
  <1>3. front \in Seq(Data) /\ Len(front) = n /\ \A i \in 1..n : front[i] = p[i]
    <2>1. n \in Nat /\ \A i \in 1..n : p[i] \in Data
      OBVIOUS
    <2>2. /\ front \in Seq(Data)
          /\ Len(front) = IF 1 <= n THEN n - 1 + 1 ELSE 0
          /\ \A i \in 1..n - 1 + 1 : front[i] = p[1 + i - 1]
      BY <2>1, SubSeqProperties
    <2> HIDE DEF n, front
    <2>3. QED
      BY <2>1, <2>2
  <1>4. QED
    BY <1>1, <1>3 DEF Front

LEMMA FinishCloudEntriesStep ==
  ASSUME EntryInv, NEW f \in Flows, FinishCloudEntries(f)
  PROVE  EntryInv'
  <1> DEFINE old == flows[f]
             p == old.passed
             d == Last(p)
  <1>1. old \in Flow /\ FlowSound(old) /\ old.form = "finish" /\ old.kind # "none"
    BY NoFlowShape DEF EntryInv, Shapes, FinishCloudEntries, FlowSound
  <1>2. Migrated
    BY <1>1, OpenIsMigrated, NoFlowShape
  <1>3. /\ p \in Seq(Data) /\ old.selected \in Seq(Ids) /\ Chosen(old) /\ Len(p) > 0
        /\ old.holds = p[1].mac /\ Absent(old.holds)
    BY <1>1 DEF Flow, FlowSound
  <1>4. /\ d \in Data /\ d = p[Len(p)]
        /\ Front(p) \in Seq(Data) /\ Len(Front(p)) = Len(p) - 1
        /\ \A i \in 1..Len(Front(p)) : Front(p)[i] = p[i]
    BY <1>3, LastShape
  <1>5. d.mac \in Ids /\ Good(d) /\ d.mac = old.selected[Len(p)]
    <2>1. Len(p) \in 1..Len(p) /\ Len(p) \in 1..Len(old.selected)
      BY <1>3 DEF Chosen
    <2>2. d.mac = old.selected[Len(p)] /\ Good(d)
      BY <1>3, <1>4, <2>1 DEF Chosen
    <2>3. QED
      BY <1>3, <2>1, <2>2
  <1>6. \A g \in Flows \ {f} : flows[g].form = "finish" => flows[g].holds # old.holds
    BY <1>1 DEF EntryInv, HeldOnce
  <1>7. CASE Len(p) > 1
    <2> DEFINE fl == [old EXCEPT !.passed = Front(p)]
    <2>1. Shows(f, fl)
      BY <1>7 DEF FinishCloudEntries
    <2>2. /\ fl \in Flow /\ fl.kind = old.kind /\ fl.form = "finish" /\ fl.holds = old.holds
          /\ fl.passed = Front(p) /\ fl.selected = old.selected
      BY <1>1, <1>4 DEF Flow
    <2> HIDE DEF fl
    <2>3. FlowSound(fl)
      <3>1. Chosen(fl)
        <4>1. Len(fl.passed) <= Len(fl.selected)
          BY <1>3, <1>4, <2>2 DEF Chosen
        <4>2. \A i \in 1..Len(fl.passed) :
                 fl.passed[i].mac = fl.selected[i] /\ Good(fl.passed[i])
          BY <1>3, <1>4, <2>2 DEF Chosen
        <4>3. QED
          BY <1>3, <2>2, <4>1, <4>2 DEF Chosen
      <3>2. Len(fl.passed) > 0 /\ fl.passed[1] = p[1]
        BY <1>3, <1>4, <1>7, <2>2
      <3>3. QED
        BY <1>1, <1>3, <2>2, <3>1, <3>2 DEF FlowSound
    <2>4. FlowsGoOn
      BY <1>2, <1>6, <2>1, <2>2, <2>3, FlowMoves DEF Shows
    <2>5. d.mac # old.holds
      <3>1. p[1].mac = old.selected[1]
        BY <1>3 DEF Chosen
      <3>2. 1 \in 1..Len(old.selected) /\ Len(p) \in 1..Len(old.selected)
        BY <1>3 DEF Chosen
      <3>3. old.selected[1] # old.selected[Len(p)]
        BY <1>3, <1>7, <3>2 DEF Chosen
      <3>4. QED
        BY <1>3, <1>5, <3>1, <3>3
    <2>6. CASE UNCHANGED entries
      BY <2>1, <2>4, <2>6, FlowStep DEF Shows
    <2>7. CASE /\ MayTake(f, d.mac)
               /\ \E s \in Free : entries' = [entries EXCEPT ![s] = Fresh(d.mac, d)]
      <3>1. /\ Absent(d.mac)
            /\ \A g \in Flows \ {f} : flows[g].form = "finish" => flows[g].holds # d.mac
        BY <1>2, <1>5, <2>7, TakenIsAbsent
      <3>2. flows' = [flows EXCEPT ![f] = fl] /\ UNCHANGED at
        BY <2>1 DEF Shows
      <3>3. \A g \in Flows : flows'[g].form = "finish" => flows'[g].holds # d.mac
        BY <2>2, <2>5, <3>1, <3>2 DEF EntryInv, Shapes
      <3>4. QED
        BY <1>2, <1>4, <1>5, <2>4, <2>7, <3>1, <3>2, <3>3, CreateStep
    <2>8. \/ UNCHANGED entries
          \/ /\ MayTake(f, d.mac)
             /\ \E s \in Free : entries' = [entries EXCEPT ![s] = Fresh(d.mac, d)]
      <3>1. CASE ~MayTake(f, d.mac)
        BY <1>7, <3>1 DEF FinishCloudEntries
      <3>2. CASE MayTake(f, d.mac)
        <4>1. PICK s \in Free : (\A r \in Free : s <= r)
                              /\ entries' = [entries EXCEPT ![s] = Fresh(d.mac, d)]
          BY <3>2, Zenon DEF FinishCloudEntries
        <4>2. QED
          BY <3>2, <4>1
      <3>3. QED
        BY <3>1, <3>2
    <2>9. QED
      BY <2>6, <2>7, <2>8
  <1>8. CASE ~(Len(p) > 1)
    <2>1. Len(p) = 1 /\ d.mac = old.holds
      <3>1. \A n \in Nat : n > 0 /\ ~(n > 1) => n = 1
        OBVIOUS
      <3> HIDE DEF p
      <3>2. Len(p) = 1
        <4>1. Len(p) \in Nat
          BY <1>3
        <4>2. QED
          BY <1>3, <1>8, <3>1, <4>1, Zenon
      <3>3. d = p[1]
        BY <1>4, <3>2
      <3>4. QED
        BY <1>3, <3>2, <3>3
    <2>2. Closes(f) /\ \E s \in Free : entries' = [entries EXCEPT ![s] = Fresh(d.mac, d)]
      <3>1. Closes(f)
        BY <1>8 DEF FinishCloudEntries
      <3>2. PICK s \in Free : (\A r \in Free : s <= r)
                            /\ entries' = [entries EXCEPT ![s] = Fresh(d.mac, d)]
        BY <1>8, Zenon DEF FinishCloudEntries
      <3>3. QED
        BY <3>1, <3>2
    <2>3. FlowsGoOn
      BY <1>1, <2>2, FlowCloses, NoFlowShape
    <2>4. flows' = [flows EXCEPT ![f] = NoFlow] /\ UNCHANGED at
      BY <2>2 DEF Closes, Shows
    <2>5. \A g \in Flows : flows'[g].form = "finish" => flows'[g].holds # d.mac
      BY <1>6, <2>1, <2>4, NoFlowShape DEF EntryInv, Shapes
    <2>6. QED
      BY <1>2, <1>3, <1>4, <1>5, <2>1, <2>2, <2>3, <2>4, <2>5, CreateStep
  <1>9. QED
    BY <1>7, <1>8
-----------------------------------------------------------------------------
(* Reauthentication and reconfiguration.                                   *)

LEMMA UserReconfiguresStep ==
  ASSUME EntryInv, NEW f \in Flows, NEW s \in Slots, UserReconfigures(f, s)
  PROVE  EntryInv'
  <1> DEFINE fl == [NoFlow EXCEPT !.kind = "reconfigure", !.form = "update", !.entry = s]
  <1>1. /\ fl \in Flow /\ fl.kind = "reconfigure" /\ fl.form = "update" /\ fl.busy = FALSE
        /\ fl.entry = s
    BY NoFlowShape DEF Flow
  <1>2. Opens(f, fl) /\ UNCHANGED entries /\ Migrated /\ entries[s] # NoEntry
    BY DEF UserReconfigures
  <1> HIDE DEF fl
  <1>3. FlowSound(fl)
    BY <1>1, <1>2 DEF FlowSound, UpdateFits
  <1>4. FlowsGoOn
    BY <1>1, <1>2, <1>3, FlowMoves DEF Opens
  <1>5. QED
    BY <1>2, <1>4, FlowStep DEF Opens

LEMMA SubmitUpdateStep ==
  ASSUME EntryInv, NEW f \in Flows, SubmitUpdate(f)
  PROVE  EntryInv'
  <1> DEFINE old == flows[f]
             New(mac, host, good, mode) ==
               [mac |-> mac, cred |-> IF good THEN mac ELSE "bad", mode |-> mode, host |-> host]
             Fl(mac, host, good, mode) == [Tested(f) EXCEPT !.data = New(mac, host, good, mode)]
  <1>1. PICK mac \in Ids \cup {"no mac"} : /\ RightDevice(old.entry, mac)
          /\ \E host \in Addresses \cup {Blank}, good \in BOOLEAN, mode \in Modes :
                Shows(f, Fl(mac, host, good, mode))
    BY DEF SubmitUpdate
  <1>2. PICK host \in Addresses \cup {Blank}, good \in BOOLEAN, mode \in Modes :
                Shows(f, Fl(mac, host, good, mode))
    BY <1>1
  <1>3. old \in Flow /\ FlowSound(old) /\ old.kind # "none" /\ old.form = "update"
    BY DEF SubmitUpdate, Idle, EntryInv, Shapes
  <1>4. entries[old.entry] # NoEntry /\ old.entry \in Slots /\ entries[old.entry] \in Entry
    BY <1>3 DEF FlowSound, UpdateFits, Flow, EntryInv, Shapes
  <1>5. mac \in Ids /\ mac = entries[old.entry].data.mac
    <2>1. entries[old.entry].data.mac \in Ids \cup {"no mac"}
      BY <1>4 DEF Entry, Data
    <2>2. "none" \notin Ids /\ "no mac" \notin Ids /\ "no mac" # "none"
      BY EntryAssumption
    <2>3. QED
      BY <1>1, <2>1, <2>2 DEF RightDevice, Identity
  <1>6. New(mac, host, good, mode) \in Data /\ New(mac, host, good, mode).mac = mac
    BY <1>5, EntryAssumption DEF Data, Policies
  <1> HIDE DEF New
  <1> DEFINE fl == Fl(mac, host, good, mode)
  <1>7. /\ fl \in Flow /\ fl.kind = old.kind /\ fl.form = "update" /\ fl.entry = old.entry
        /\ fl.data = New(mac, host, good, mode)
    BY <1>3, <1>6, TestedShape DEF Flow
  <1> HIDE DEF fl
  <1>8. FlowSound(fl)
    BY <1>3, <1>4, <1>5, <1>6, <1>7 DEF FlowSound, UpdateFits
  <1>9. Shows(f, fl) /\ UNCHANGED entries
    BY <1>2 DEF SubmitUpdate, fl
  <1>10. QED
    BY <1>3, <1>7, <1>8, <1>9, FormStep

(***************************************************************************)
(* An entry whose accessory announced a new address.                       *)
(***************************************************************************)
Announced(e, a, b) == [e EXCEPT !.data.host = a, !.reload = b]

LEMMA AnnouncedShape ==
  ASSUME NEW e \in Entry, NEW a \in Addresses, NEW b \in BOOLEAN
  PROVE  /\ Announced(e, a, b) \in Entry /\ Announced(e, a, b).state = e.state
         /\ Announced(e, a, b).version = e.version /\ Announced(e, a, b).unique = e.unique
         /\ Announced(e, a, b).using = e.using /\ Announced(e, a, b).reload = b
         /\ Announced(e, a, b).data.mac = e.data.mac
         /\ Announced(e, a, b).data.cred = e.data.cred
         /\ Announced(e, a, b).data.mode = e.data.mode /\ Announced(e, a, b).data.host = a
  <1> DEFINE d2 == [e.data EXCEPT !.host = a]
             e3 == [e EXCEPT !.data = d2, !.reload = b]
  <1>1. e.data \in Data
    BY DEF Entry
  <1>2. /\ d2 \in Data /\ d2.mac = e.data.mac /\ d2.cred = e.data.cred
        /\ d2.mode = e.data.mode /\ d2.host = a
    BY <1>1 DEF Data
  <1>3. Announced(e, a, b) = e3
    BY DEF Announced
  <1> HIDE DEF d2
  <1>4. /\ e3 \in Entry /\ e3.state = e.state /\ e3.version = e.version
        /\ e3.unique = e.unique /\ e3.using = e.using /\ e3.reload = b /\ e3.data = d2
    BY <1>2 DEF Entry
  <1> HIDE DEF e3
  <1>5. QED
    BY <1>2, <1>3, <1>4

LEMMA AnnouncedGoesOn ==
  ASSUME NEW e \in Entry, EntrySound(e), e # NoEntry, e.version = "current",
         e.unique # "none", NEW a \in Addresses, NEW b \in BOOLEAN, e.reload => b
  PROVE  GoesOn(e, Announced(e, a, b))
  <1> DEFINE e2 == Announced(e, a, b)
  <1>1. /\ e2 \in Entry /\ e2.state = e.state /\ e2.version = e.version
        /\ e2.unique = e.unique /\ e2.using = e.using /\ e2.reload = b
        /\ e2.data.mac = e.data.mac /\ e2.data.cred = e.data.cred
        /\ e2.data.mode = e.data.mode /\ e2.data.host = a
    BY AnnouncedShape
  <1> HIDE DEF e2
  <1>2. e2 # NoEntry
    BY <1>1, NoEntryShape
  <1>3. Good(e2.data)
    BY <1>1, EntryAssumption DEF EntrySound, Good, Blank
  <1>4. EntrySound(e2)
    BY <1>1, <1>3 DEF EntrySound
  <1>5. GoesOn(e, e2)
    BY <1>1, <1>2, <1>4 DEF GoesOn
  <1>6. QED
    BY <1>5 DEF e2

LEMMA DiscoveredGoesOn ==
  ASSUME EntryInv, NEW f \in Flows, NEW d \in Ids, Discovered(f, d)
  PROVE  EntriesGoOn
  <1>1. CASE d \in Configured
    <2>1. /\ entries' = [s \in Slots |->
                  IF entries[s].unique # d THEN entries[s]
                  ELSE [entries[s] EXCEPT
                           !.data.host = at[d],
                           !.reload = @ \/ /\ entries[s].state \in {"loaded", "retry"}
                                           /\ entries[s].data.host # at[d]]]
          /\ Migrated
      BY <1>1 DEF Discovered
    <2>2. at[d] \in Addresses /\ d # "none"
      BY EntryAssumption DEF EntryInv, Shapes
    <2>3. ASSUME NEW s \in Slots PROVE GoesOn(entries[s], entries'[s])
      <3>1. entries[s] \in Entry /\ EntrySound(entries[s]) /\ entries[s].version = "current"
        BY <2>1 DEF EntryInv, Shapes, Migrated
      <3>2. CASE entries[s].unique # d
        BY <2>1, <3>1, <3>2, SameGoesOn
      <3>3. CASE entries[s].unique = d
        <4> DEFINE b == entries[s].reload \/ /\ entries[s].state \in {"loaded", "retry"}
                                             /\ entries[s].data.host # at[d]
        <4>1. entries'[s] = Announced(entries[s], at[d], b)
          BY <2>1, <3>3, Zenon DEF Announced
        <4>2. b \in BOOLEAN /\ (entries[s].reload => b) /\ entries[s] # NoEntry
          BY <2>2, <3>3, NoEntryShape
        <4> HIDE DEF b
        <4>3. QED
          BY <2>2, <3>1, <3>3, <4>1, <4>2, AnnouncedGoesOn
      <3>4. QED
        BY <3>2, <3>3
    <2>4. QED
      BY <2>1, <2>3 DEF EntriesGoOn, GoesOn
  <1>2. CASE d \notin Configured
    BY <1>2, UnchangedGoOn DEF Discovered
  <1>3. QED
    BY <1>1, <1>2

LEMMA DiscoveredStep ==
  ASSUME EntryInv, NEW f \in Flows, NEW d \in Ids, Discovered(f, d)
  PROVE  EntryInv'
  <1>1. CASE d \in Configured
    <2>1. UNCHANGED <<at, flows>>
      BY <1>1 DEF Discovered
    <2>2. QED
      BY <2>1, DiscoveredGoesOn, FlowsUnchanged, GoOn DEF EntryInv, Shapes
  <1>2. CASE d \notin Configured
    <2> DEFINE data == [NoData EXCEPT !.mac = d, !.host = at[d]]
               fl == [NoFlow EXCEPT !.kind = "zeroconf", !.form = "confirm", !.holds = d,
                                    !.data = data]
    <2>1. Opens(f, fl) /\ UNCHANGED entries /\ Migrated
      BY <1>2 DEF Discovered
    <2>2. data \in Data
      BY NoDataShape DEF Data, EntryInv, Shapes
    <2> HIDE DEF data
    <2>3. fl \in Flow /\ fl.kind = "zeroconf" /\ fl.form = "confirm" /\ fl.busy = FALSE
      BY <2>2, NoFlowShape DEF Flow
    <2> HIDE DEF fl
    <2>4. FlowSound(fl)
      BY <2>3 DEF FlowSound
    <2>5. FlowsGoOn
      BY <2>1, <2>3, <2>4, FlowMoves DEF Opens
    <2>6. QED
      BY <2>1, <2>5, FlowStep DEF Opens
  <1>3. QED
    BY <1>1, <1>2

LEMMA RunningIsMigrated ==
  ASSUME EntryInv, NEW s \in Slots, entries[s] # NoEntry, entries[s].state # "not_loaded"
  PROVE  Migrated
  BY DEF EntryInv, OldFirst, Migrated, Shapes, Entry

LEMMA RefusedGoesOn ==
  ASSUME EntryInv, NEW s \in Slots, entries[s] # NoEntry, entries[s].state # "not_loaded",
         Refused(s)
  PROVE  FlowsGoOn /\ UNCHANGED at
  <1>1. CASE UNCHANGED <<at, flows, starts, moves, restarts>>
    BY <1>1, FlowsUnchanged
  <1>2. CASE \E f \in Flows : Opens(f, ReauthFlow(s))
    <2> DEFINE fl == ReauthFlow(s)
    <2>1. PICK f \in Flows : Opens(f, fl)
      BY <1>2
    <2>2. entries[s].unique \in Ids \cup {"none", "raw"}
      BY DEF EntryInv, Shapes, Entry
    <2>3. /\ fl \in Flow /\ fl.kind = "reauth" /\ fl.form = "update" /\ fl.busy = FALSE
          /\ fl.entry = s
      BY <2>2, NoFlowShape DEF ReauthFlow, Flow
    <2> HIDE DEF fl
    <2>4. FlowSound(fl)
      BY <2>3 DEF FlowSound, UpdateFits
    <2>5. FlowsGoOn
      BY <2>1, <2>3, <2>4, FlowMoves, RunningIsMigrated DEF Opens
    <2>6. QED
      BY <2>1, <2>5 DEF Opens
  <1>3. QED
    BY <1>1, <1>2 DEF Refused

LEMMA UpdateTestedGoesOn ==
  ASSUME EntryInv, NEW f \in Flows, UpdateTested(f)
  PROVE  EntriesGoOn /\ FlowsGoOn /\ UNCHANGED at
  <1> DEFINE old == flows[f]
  <1>1. old \in Flow /\ FlowSound(old) /\ old.busy /\ old.form = "update"
    BY DEF UpdateTested, EntryInv, Shapes
  <1>2. old.kind # "none" /\ old # NoFlow
    BY <1>1, NoFlowShape DEF FlowSound
  <1>3. Migrated
    BY <1>2, OpenIsMigrated
  <1>4. PICK outcome \in Test(old.data) :
          \/ /\ Accepted(outcome)
             /\ entries' = [entries EXCEPT ![old.entry] = Update(@, old.data)]
             /\ Closes(f)
          \/ Shows(f, Again(f)) /\ UNCHANGED entries
    BY DEF UpdateTested
  <1>5. CASE /\ Accepted(outcome)
             /\ entries' = [entries EXCEPT ![old.entry] = Update(@, old.data)]
             /\ Closes(f)
    <2> DEFINE s == old.entry
               e == entries[s]
               e2 == Update(e, old.data)
    <2>1. s \in Slots /\ e \in Entry /\ EntrySound(e) /\ e # NoEntry
      BY <1>1 DEF FlowSound, UpdateFits, Flow, EntryInv, Shapes
    <2>2. old.data \in Data /\ Good(old.data) /\ old.data.mac \in Ids /\ old.data.mac = e.data.mac
      BY <1>1, <1>4, <1>5, TestAccepts DEF FlowSound, UpdateFits, Flow, Accepted
    <2>3. /\ e2 \in Entry /\ e2.state = e.state /\ e2.version = e.version
          /\ e2.unique = e.unique /\ e2.data = old.data /\ e2.reload = TRUE
      BY <2>1, <2>2 DEF Update, Entry
    <2>4. entries' = [entries EXCEPT ![s] = e2]
      BY <1>5
    <2> HIDE DEF e2
    <2>5. EntrySound(e2) /\ e2 # NoEntry
      BY <2>1, <2>2, <2>3, NoEntryShape DEF EntrySound
    <2>6. GoesOn(e, e2)
      BY <2>1, <2>2, <2>3, <2>5 DEF GoesOn
    <2>7. EntriesGoOn
      BY <2>1, <2>4, <2>6, OneGoesOn
    <2>8. QED
      BY <1>2, <1>5, <2>7, FlowCloses DEF Closes, Shows
  <1>6. CASE Shows(f, Again(f)) /\ UNCHANGED entries
    <2>1. FlowSound(Again(f))
      BY <1>1, <1>2, AgainShape DEF FlowSound, UpdateFits
    <2>2. FlowsGoOn
      BY <1>1, <1>3, <1>6, <2>1, AgainShape, FlowMoves DEF Shows
    <2>3. QED
      BY <1>6, <2>2, UnchangedGoOn DEF Shows
  <1>7. QED
    BY <1>4, <1>5, <1>6

LEMMA SetUpGoesOn ==
  ASSUME EntryInv, NEW s \in Slots, SetUp(s)
  PROVE  EntriesGoOn /\ FlowsGoOn /\ UNCHANGED at
  <1> DEFINE e == entries[s]
             e2 == [e EXCEPT !.state = "setting_up", !.using = e.data, !.reload = FALSE]
  <1>1. e \in Entry /\ EntrySound(e) /\ e.state \in {"not_loaded", "retry"}
        /\ e.version = "current"
    BY DEF SetUp, EntryInv, Shapes
  <1>2. /\ e2 \in Entry /\ e2.state = "setting_up" /\ e2.version = e.version
        /\ e2.unique = e.unique /\ e2.data = e.data /\ e2.using = e.data
    BY <1>1 DEF Entry
  <1>3. entries' = [entries EXCEPT ![s] = e2]
    BY DEF SetUp, EntryInv, Shapes
  <1> HIDE DEF e2
  <1>4. e # NoEntry /\ e2 # NoEntry
    BY <1>1, <1>2, NoEntryShape
  <1>5. EntrySound(e2)
    BY <1>1, <1>2, <1>4 DEF EntrySound
  <1>6. GoesOn(e, e2)
    BY <1>1, <1>2, <1>4, <1>5 DEF GoesOn
  <1>7. EntriesGoOn
    BY <1>3, <1>6, OneGoesOn
  <1>8. QED
    BY <1>7, FlowsUnchanged DEF SetUp

(***************************************************************************)
(* An entry that has no coordinator.                                       *)
(***************************************************************************)
LEMMA WithoutGoesOn ==
  ASSUME NEW e \in Entry, EntrySound(e), e # NoEntry,
         NEW state \in {"not_loaded", "retry", "failed"},
         e.version = "current" \/ state = "not_loaded",
         NEW b \in BOOLEAN
  PROVE  /\ GoesOn(e, Without(e, state))
         /\ GoesOn(e, [Without(e, state) EXCEPT !.reload = b])
  <1> DEFINE w == Without(e, state)
             v == [w EXCEPT !.reload = b]
  <1>1. /\ w \in Entry /\ w.state = state /\ w.version = e.version
        /\ w.unique = e.unique /\ w.data = e.data
    BY NoDataShape DEF Without, Entry
  <1> HIDE DEF w
  <1>2. /\ v \in Entry /\ v.state = state /\ v.version = e.version
        /\ v.unique = e.unique /\ v.data = e.data
    BY <1>1 DEF Entry
  <1> HIDE DEF v
  <1>3. w # NoEntry /\ v # NoEntry
    BY <1>1, <1>2, NoEntryShape
  <1>4. EntrySound(w) /\ EntrySound(v)
    BY <1>1, <1>2 DEF EntrySound
  <1>5. GoesOn(e, w) /\ GoesOn(e, v)
    BY <1>1, <1>2, <1>3, <1>4 DEF GoesOn
  <1>6. QED
    BY <1>5 DEF w, v

LEMMA SetUpEndsGoesOn ==
  ASSUME EntryInv, NEW s \in Slots, SetUpEnds(s)
  PROVE  EntriesGoOn /\ FlowsGoOn /\ UNCHANGED at
  <1> DEFINE e == entries[s]
             e2 == [e EXCEPT !.state = "loaded"]
  <1>1. e \in Entry /\ EntrySound(e) /\ e.state = "setting_up"
    BY DEF SetUpEnds, EntryInv, Shapes
  <1>2. e # NoEntry /\ e.version = "current"
    BY <1>1, NoEntryShape DEF EntryInv, OldFirst, Entry
  <1>3. \/ entries' = [entries EXCEPT ![s].state = "loaded"] /\ UNCHANGED <<at, flows>>
        \/ /\ \E state \in {"retry", "failed"} :
                 entries' = [entries EXCEPT ![s] = Without(@, state)]
           /\ Refused(s) \/ UNCHANGED <<at, flows>>
    <2>1. PICK outcome \in Test(e.using) :
          CASE outcome = "ok" -> /\ entries' = [entries EXCEPT ![s].state = "loaded"]
                                 /\ UNCHANGED <<at, flows, starts, moves, restarts>>
            [] outcome = "auth" -> /\ entries' = [entries EXCEPT ![s] = Without(@, "failed")]
                                   /\ Refused(s)
            [] outcome = "connection" -> /\ entries' = [entries EXCEPT ![s] = Without(@, "retry")]
                                         /\ UNCHANGED <<at, flows, starts, moves, restarts>>
            [] OTHER -> /\ entries' = [entries EXCEPT ![s] = Without(@, "failed")]
                        /\ UNCHANGED <<at, flows, starts, moves, restarts>>
      BY DEF SetUpEnds
    <2>2. CASE outcome = "ok"
      BY <2>1, <2>2
    <2>3. CASE outcome = "auth"
      BY <2>1, <2>3
    <2>4. CASE outcome = "connection"
      BY <2>1, <2>4
    <2>5. CASE outcome \notin {"ok", "auth", "connection"}
      BY <2>1, <2>5
    <2>6. QED
      BY <2>2, <2>3, <2>4, <2>5
  <1>4. CASE entries' = [entries EXCEPT ![s].state = "loaded"] /\ UNCHANGED <<at, flows>>
    <2>1. entries' = [entries EXCEPT ![s] = e2]
      BY <1>4
    <2>2. /\ e2 \in Entry /\ e2.state = "loaded" /\ e2.version = e.version
          /\ e2.unique = e.unique /\ e2.data = e.data /\ e2.using = e.using
          /\ e2.reload = e.reload
      BY <1>1 DEF Entry
    <2> HIDE DEF e2
    <2>3. e2 # NoEntry
      BY <2>2, NoEntryShape
    <2>4. EntrySound(e2)
      BY <1>1, <1>2, <2>2 DEF EntrySound
    <2>5. GoesOn(e, e2)
      BY <1>1, <1>2, <2>2, <2>3, <2>4 DEF GoesOn
    <2>6. EntriesGoOn
      BY <2>1, <2>5, OneGoesOn
    <2>7. QED
      BY <1>4, <2>6, FlowsUnchanged
  <1>5. CASE /\ \E state \in {"retry", "failed"} :
                   entries' = [entries EXCEPT ![s] = Without(@, state)]
             /\ Refused(s) \/ UNCHANGED <<at, flows>>
    <2>1. PICK state \in {"retry", "failed"} :
                   entries' = [entries EXCEPT ![s] = Without(e, state)]
      BY <1>5
    <2>2. GoesOn(e, Without(e, state))
      BY <1>1, <1>2, WithoutGoesOn
    <2>3. EntriesGoOn
      BY <2>1, <2>2, OneGoesOn
    <2>4. FlowsGoOn /\ UNCHANGED at
      BY <1>1, <1>2, <1>5, RefusedGoesOn, FlowsUnchanged
    <2>5. QED
      BY <2>3, <2>4
  <1>6. QED
    BY <1>3, <1>4, <1>5

LEMMA PollRefusedGoesOn ==
  ASSUME EntryInv, NEW s \in Slots, PollRefused(s)
  PROVE  EntriesGoOn /\ FlowsGoOn /\ UNCHANGED at
  <1>1. entries[s] # NoEntry /\ entries[s].state # "not_loaded"
    BY NoEntryShape DEF PollRefused
  <1>2. QED
    BY <1>1, RefusedGoesOn, UnchangedGoOn DEF PollRefused

LEMMA ReloadGoesOn ==
  ASSUME EntryInv, NEW s \in Slots, Reload(s)
  PROVE  EntriesGoOn /\ FlowsGoOn /\ UNCHANGED at
  <1> DEFINE e == entries[s]
             Off(x) == [x EXCEPT !.reload = FALSE]
             stuck == [e EXCEPT !.state = "stuck"]
  <1>1. e \in Entry /\ EntrySound(e) /\ e # NoEntry
    BY NoEntryShape DEF Reload, EntryInv, Shapes
  <1>2. \/ entries' = [entries EXCEPT ![s] = Off(Without(e, "not_loaded"))]
        \/ e.state = "loaded" /\ entries' = [entries EXCEPT ![s] = Off(stuck)]
        \/ e.state = "stuck" /\ entries' = [entries EXCEPT ![s] = Off(e)]
    BY DEF Reload
  <1>3. CASE entries' = [entries EXCEPT ![s] = Off(Without(e, "not_loaded"))]
    <2>1. GoesOn(e, Off(Without(e, "not_loaded")))
      BY <1>1, WithoutGoesOn
    <2> HIDE DEF Off
    <2>2. QED
      BY <1>3, <2>1, OneGoesOn, FlowsUnchanged DEF Reload
  <1>4. ASSUME NEW x \in {stuck, e}, e.state \in {"loaded", "stuck"},
               x.state = "stuck", entries' = [entries EXCEPT ![s] = Off(x)]
        PROVE  EntriesGoOn /\ FlowsGoOn /\ UNCHANGED at
    <2> DEFINE e2 == Off(x)
    <2>1. /\ x \in Entry /\ x.version = e.version /\ x.unique = e.unique /\ x.data = e.data
      BY <1>1, <1>4 DEF Entry
    <2>2. /\ e2 \in Entry /\ e2.state = "stuck" /\ e2.version = e.version
          /\ e2.unique = e.unique /\ e2.data = e.data
      BY <1>4, <2>1 DEF Entry
    <2> HIDE DEF e2
    <2>3. e2 # NoEntry
      BY <2>2, NoEntryShape
    <2>4. EntrySound(e2)
      BY <1>1, <2>2 DEF EntrySound
    <2>5. GoesOn(e, e2)
      BY <1>1, <1>4, <2>2, <2>3, <2>4 DEF GoesOn
    <2>6. entries' = [entries EXCEPT ![s] = e2]
      BY <1>4 DEF e2
    <2>7. QED
      BY <2>5, <2>6, OneGoesOn, FlowsUnchanged DEF Reload
  <1>5. stuck.state = "stuck"
    BY <1>1 DEF Entry
  <1>6. QED
    BY <1>2, <1>3, <1>4, <1>5

LEMMA RestartGoesOn ==
  ASSUME EntryInv, Restart
  PROVE  EntriesGoOn /\ FlowsGoOn /\ UNCHANGED at
  <1>1. ASSUME NEW s \in Slots PROVE GoesOn(entries[s], entries'[s])
    <2>1. entries[s] \in Entry /\ EntrySound(entries[s])
      BY DEF EntryInv, Shapes
    <2>2. CASE entries[s] = NoEntry
      <3>1. entries'[s] = NoEntry
        BY <2>2 DEF Restart
      <3>2. QED
        BY <2>1, <2>2, <3>1, SameGoesOn
    <2>3. CASE entries[s] # NoEntry
      <3>1. entries'[s] = [Without(entries[s], "not_loaded") EXCEPT !.reload = FALSE]
        BY <2>3 DEF Restart
      <3>2. QED
        BY <2>1, <2>3, <3>1, WithoutGoesOn
    <2>4. QED
      BY <2>2, <2>3
  <1>2. EntriesGoOn
    BY <1>1 DEF EntriesGoOn, GoesOn, Restart
  <1>3. /\ flows' \in [Flows -> Flow]
        /\ \A f \in Flows : flows'[f] = NoFlow
    BY NoFlowShape DEF Restart
  <1>4. HeldOnce'
    BY <1>3, NoFlowShape DEF HeldOnce
  <1>5. QED
    BY <1>2, <1>3, <1>4, NoFlowSound DEF FlowsGoOn, Restart

LEMMA MoveGoesOn ==
  ASSUME EntryInv, Move
  PROVE  EntriesGoOn /\ FlowsGoOn /\ at' \in [Ids -> Addresses]
  BY UnchangedGoOn, FlowsUnchanged DEF Move

(***************************************************************************)
(* async_migrate_entry: the entry is alone, and keeps its accessory.       *)
(***************************************************************************)
LEMMA MigrateShape ==
  ASSUME EntryInv, NEW s \in Slots, Migrate(s)
  PROVE  /\ entries' \in [Slots -> Entry]
         /\ \A r \in Slots \ {s} : entries'[r] = NoEntry
         /\ entries'[s].version = "current" /\ entries'[s].data = entries[s].data
         /\ entries[s] # NoEntry
         /\ EntrySound(entries'[s])
         /\ \A f \in Flows : flows'[f] = NoFlow
  <1> DEFINE e == entries[s]
             id == IF Identity(e) = "none" THEN e.unique ELSE Identity(e)
             e2 == [e EXCEPT !.version = "current", !.unique = id]
  <1>1. e \in Entry /\ EntrySound(e) /\ e.version = "old" /\ e # NoEntry
    BY NoEntryShape DEF Migrate, EntryInv, Shapes
  <1>2. /\ e.state = "not_loaded"
        /\ \A r \in Slots \ {s} : entries[r] = NoEntry
        /\ \A f \in Flows : flows[f] = NoFlow
    BY <1>1 DEF EntryInv, OldFirst
  <1>3. entries' = [entries EXCEPT ![s] = e2]
    BY DEF Migrate, EntryInv, Shapes
  <1>4. id \in Ids \cup {"none", "raw"}
    BY <1>1 DEF Identity, Entry, Data
  <1>5. e.data.mac \in Ids => id = e.data.mac
    BY EntryAssumption DEF Identity
  <1> HIDE DEF id
  <1>6. /\ e2 \in Entry /\ e2.state = "not_loaded" /\ e2.version = "current"
        /\ e2.unique = id /\ e2.data = e.data
    BY <1>1, <1>2, <1>4 DEF Entry
  <1> HIDE DEF e2
  <1>7. EntrySound(e2)
    BY <1>1, <1>5, <1>6 DEF EntrySound
  <1>8. entries' \in [Slots -> Entry] /\ entries'[s] = e2
    BY <1>3, <1>6 DEF EntryInv, Shapes
  <1>9. \A r \in Slots \ {s} : entries'[r] = NoEntry
    BY <1>2, <1>3 DEF EntryInv, Shapes
  <1>10. \A f \in Flows : flows'[f] = NoFlow
    BY <1>2 DEF Migrate
  <1>11. QED
    BY <1>1, <1>6, <1>7, <1>8, <1>9, <1>10

LEMMA MigrateStep ==
  ASSUME EntryInv, NEW s \in Slots, Migrate(s)
  PROVE  EntryInv'
  <1>1. /\ entries' \in [Slots -> Entry]
        /\ \A r \in Slots \ {s} : entries'[r] = NoEntry
        /\ entries'[s].version = "current"
        /\ EntrySound(entries'[s])
        /\ \A f \in Flows : flows'[f] = NoFlow
    BY MigrateShape
  <1>2. Shapes'
    BY <1>1 DEF EntryInv, Shapes, Migrate
  <1>3. \A r \in Slots : EntrySound(entries'[r])
    BY <1>1 DEF EntrySound
  <1>4. OneEach'
    BY <1>1 DEF OneEach
  <1>5. OldFirst'
    BY <1>1, NoEntryShape DEF OldFirst
  <1>6. ASSUME NEW f \in Flows PROVE FlowSound(flows[f])'
    BY <1>1, NoFlowShape DEF FlowSound
  <1>7. HeldOnce'
    BY <1>1, NoFlowShape DEF HeldOnce
  <1>8. QED
    BY <1>2, <1>3, <1>4, <1>5, <1>6, <1>7 DEF EntryInv

-----------------------------------------------------------------------------
(* The specification.                                                      *)

LEMMA InitInv == Init => EntryInv
  <1> SUFFICES ASSUME Init PROVE EntryInv
    OBVIOUS
  <1>1. flows \in [Flows -> Flow] /\ \A f \in Flows : flows[f] = NoFlow
    BY NoFlowShape DEF Init
  <1>2. at \in [Ids -> Addresses]
    BY DEF Init
  <1>3. (\A f \in Flows : FlowSound(flows[f])) /\ HeldOnce
    BY <1>1, NoFlowShape, NoFlowSound DEF HeldOnce
  <1>4. CASE entries = [s \in Slots |-> NoEntry]
    <2>1. entries \in [Slots -> Entry] /\ \A s \in Slots : entries[s] = NoEntry
      BY <1>4, NoEntryShape
    <2>2. \A s \in Slots : EntrySound(entries[s])
      BY <2>1 DEF EntrySound
    <2>3. OneEach /\ OldFirst
      BY <2>1, NoEntryShape DEF OneEach, OldFirst
    <2>4. QED
      BY <1>1, <1>2, <1>3, <2>1, <2>2, <2>3 DEF EntryInv, Shapes
  <1>5. ASSUME NEW id \in Legacy, NEW host \in Addresses,
               entries = [[s \in Slots |-> NoEntry] EXCEPT
                             ![1] = OldEntry(id, IF id \in Ids THEN id ELSE "bad", host)]
        PROVE  EntryInv
    <2> DEFINE d == [mac |-> id, cred |-> IF id \in Ids THEN id ELSE "bad", mode |-> "local",
                     host |-> host]
               e == [NoEntry EXCEPT !.state = "not_loaded", !.version = "old", !.unique = "raw",
                                    !.data = d]
    <2>1. d \in Data /\ Good(d)
      BY EntryAssumption DEF Data, Policies, Good, Blank
    <2> HIDE DEF d
    <2>2. /\ e \in Entry /\ e.state = "not_loaded" /\ e.version = "old" /\ e.data = d
      BY <2>1, NoEntryShape DEF Entry
    <2>3. entries = [[s \in Slots |-> NoEntry] EXCEPT ![1] = e]
      BY <1>5 DEF OldEntry, d
    <2> HIDE DEF e
    <2>4. /\ entries \in [Slots -> Entry] /\ entries[1] = e
          /\ \A s \in Slots \ {1} : entries[s] = NoEntry
      BY <2>2, <2>3, NoEntryShape, OneInSlots
    <2>5. EntrySound(e) /\ EntrySound(NoEntry)
      BY <2>1, <2>2 DEF EntrySound
    <2>6. \A s \in Slots : EntrySound(entries[s])
      BY <2>4, <2>5
    <2>7. OneEach
      BY <2>4 DEF OneEach
    <2>8. OldFirst
      BY <1>1, <2>2, <2>4, NoEntryShape DEF OldFirst
    <2>9. QED
      BY <1>1, <1>2, <1>3, <2>4, <2>6, <2>7, <2>8 DEF EntryInv, Shapes
  <1>6. QED
    BY <1>4, <1>5 DEF Init

LEMMA NextInv ==
  ASSUME EntryInv, [Next]_vars
  PROVE  EntryInv'
  <1>1. CASE \E f \in Flows :
               UserAdds(f) \/ Submit(f) \/ SubmitAdvanced(f) \/ FinishNewLocal(f)
    BY <1>1, UserAddsStep, SubmitStep, SubmitAdvancedStep, FinishNewLocalStep
  <1>2. CASE \E f \in Flows :
               CloudLogin(f) \/ CloudLoggedIn(f) \/ CloudSelect(f) \/ SubmitCloudLocal(f)
               \/ CloudLocalTested(f) \/ FinishCloudEntries(f)
    BY <1>2, SubmitAdvancedStep, CloudLoggedInStep, CloudSelectStep, SubmitCloudLocalStep,
       CloudLocalTestedStep, FinishCloudEntriesStep
  <1>3. CASE \E f \in Flows : SubmitUpdate(f) \/ UpdateTested(f) \/ Dismiss(f)
    <2> PICK f \in Flows : SubmitUpdate(f) \/ UpdateTested(f) \/ Dismiss(f)
      BY <1>3
    <2>1. CASE SubmitUpdate(f)
      BY <2>1, SubmitUpdateStep
    <2>2. CASE UpdateTested(f)
      BY <2>2, UpdateTestedGoesOn, GoOn DEF EntryInv, Shapes
    <2>3. CASE Dismiss(f)
      BY <2>3, CloseStep DEF Dismiss, Idle
    <2>4. QED
      BY <2>1, <2>2, <2>3
  <1>4. CASE \E f \in Flows, d \in Ids : Discovered(f, d)
    BY <1>4, DiscoveredStep
  <1>5. CASE \E f \in Flows, s \in Slots : UserReconfigures(f, s)
    BY <1>5, UserReconfiguresStep
  <1>6. CASE \E s \in Slots : Migrate(s)
    BY <1>6, MigrateStep
  <1>7. CASE \E s \in Slots : SetUp(s) \/ SetUpEnds(s) \/ PollRefused(s) \/ Reload(s)
    <2>1. EntriesGoOn /\ FlowsGoOn /\ UNCHANGED at
      BY <1>7, SetUpGoesOn, SetUpEndsGoesOn, PollRefusedGoesOn, ReloadGoesOn
    <2>2. QED
      BY <2>1, GoOn DEF EntryInv, Shapes
  <1>8. CASE Restart \/ Move
    <2>1. EntriesGoOn /\ FlowsGoOn /\ at' \in [Ids -> Addresses]
      BY <1>8, RestartGoesOn, MoveGoesOn DEF EntryInv, Shapes
    <2>2. QED
      BY <2>1, GoOn
  <1>9. CASE UNCHANGED vars
    BY <1>9, FlowsUnchanged, FlowStep DEF vars
  <1>10. QED
    BY <1>1, <1>2, <1>3, <1>4, <1>5, <1>6, <1>7, <1>8, <1>9 DEF Next

(***************************************************************************)
(* What the flows, the migration and the life of the entries keep, however *)
(* they overlap.                                                           *)
(***************************************************************************)
THEOREM EntryInvariant == Spec => []EntryInv
  BY InitInv, NextInv, PTL DEF Spec

(***************************************************************************)
(* An accessory has one entry, under its normalised id once it is migrated *)
(* (config_flow.py 836-837, 1029-1034).                                    *)
(***************************************************************************)
THEOREM OneEntryEach == Spec => []OneEntryPerAccessory
  <1>1. EntryInv => OneEntryPerAccessory
    <2> SUFFICES ASSUME EntryInv, NEW s \in Slots, NEW r \in Slots,
                        entries[s] # NoEntry, Identity(entries[s]) # "none"
                 PROVE  /\ entries[s].version = "current" =>
                              entries[s].unique = Identity(entries[s])
                        /\ Identity(entries[r]) = Identity(entries[s]) => r = s
      BY DEF OneEntryPerAccessory
    <2>1. entries[s] \in Entry /\ entries[r] \in Entry /\ EntrySound(entries[s])
      BY DEF EntryInv, Shapes
    <2>2. entries[s].data.mac \in Ids /\ Identity(entries[s]) = entries[s].data.mac
      BY <2>1 DEF Identity, Entry, Data
    <2>3. entries[s].version = "current" => entries[s].unique = Identity(entries[s])
      BY <2>1, <2>2 DEF EntrySound
    <2>4. ASSUME Identity(entries[r]) = Identity(entries[s]) PROVE r = s
      <3>1. entries[r].data.mac = entries[s].data.mac
        BY <2>2, <2>4 DEF Identity
      <3>2. entries[r] # NoEntry
        BY <2>2, <3>1, NoEntryShape, NoDataShape, EntryAssumption
      <3>3. QED
        BY <2>2, <3>1, <3>2 DEF EntryInv, OneEach
    <2>5. QED
      BY <2>3, <2>4
  <1>2. QED
    BY <1>1, EntryInvariant, PTL

(***************************************************************************)
(* An entry is saved only with credentials its accessory accepted, and     *)
(* with the address its policy needs (config_flow.py 515-528).             *)
(***************************************************************************)
THEOREM SavedAreAccepted == Spec => []SavedWasAccepted
  <1>1. EntryInv => SavedWasAccepted
    BY DEF EntryInv, EntrySound, Good, SavedWasAccepted
  <1>2. QED
    BY <1>1, EntryInvariant, PTL

(***************************************************************************)
(* A coordinator runs with the credentials and policy that are saved, or a *)
(* reload is due (config_flow.py 1136-1145).                               *)
(***************************************************************************)
THEOREM RunAsSaved == Spec => []RunsAsSaved
  <1>1. EntryInv => RunsAsSaved
    BY NoEntryShape DEF EntryInv, EntrySound, RunsAsSaved
  <1>2. QED
    BY <1>1, EntryInvariant, PTL

KeepsIdentity ==
    \A s \in Slots : entries[s] # NoEntry =>
       /\ entries'[s].data.mac = entries[s].data.mac
       /\ entries[s].version = "current" => entries'[s].unique = entries[s].unique

LEMMA NextKeepsIdentity ==
  ASSUME EntryInv, [Next]_vars
  PROVE  KeepsIdentity
  <1>1. ASSUME EntriesGoOn PROVE KeepsIdentity
    BY <1>1 DEF EntriesGoOn, GoesOn, KeepsIdentity
  <1>2. ASSUME UNCHANGED entries PROVE KeepsIdentity
    BY <1>2 DEF KeepsIdentity
  <1>3. ASSUME NEW s \in Free, NEW e, entries' = [entries EXCEPT ![s] = e]
        PROVE  KeepsIdentity
    BY <1>3 DEF KeepsIdentity, Free, EntryInv, Shapes
  <1>4. ASSUME NEW f \in Flows, FinishNewLocal(f) PROVE KeepsIdentity
    <2>1. \/ UNCHANGED entries
          \/ \E s \in Free : entries' = [entries EXCEPT ![s] = Fresh(flows[f].data.mac, flows[f].data)]
      BY <1>4 DEF FinishNewLocal
    <2>2. QED
      BY <1>2, <1>3, <2>1
  <1>5. ASSUME NEW f \in Flows, FinishCloudEntries(f) PROVE KeepsIdentity
    <2> DEFINE d == Last(flows[f].passed)
    <2>1. CASE Len(flows[f].passed) > 1 /\ ~MayTake(f, d.mac)
      BY <1>2, <1>5, <2>1 DEF FinishCloudEntries
    <2>2. CASE ~(Len(flows[f].passed) > 1 /\ ~MayTake(f, d.mac))
      <3>1. PICK s \in Free : (\A r \in Free : s <= r)
                            /\ entries' = [entries EXCEPT ![s] = Fresh(d.mac, d)]
        BY <1>5, <2>2, Zenon DEF FinishCloudEntries
      <3>2. QED
        BY <1>3, <3>1
    <2>3. QED
      BY <2>1, <2>2
  <1>6. ASSUME NEW f \in Flows, NEW d \in Ids, Discovered(f, d) PROVE KeepsIdentity
    <2>1. EntriesGoOn
      BY <1>6, DiscoveredGoesOn
    <2>2. QED
      BY <1>1, <2>1
  <1>7. ASSUME NEW s \in Slots, Migrate(s) PROVE KeepsIdentity
    <2>1. /\ entries'[s].data = entries[s].data /\ entries[s].version = "old"
          /\ \A r \in Slots \ {s} : entries[r] = NoEntry
      BY <1>7, MigrateShape DEF Migrate, EntryInv, OldFirst
    <2>2. QED
      BY <2>1 DEF KeepsIdentity
  <1>8. ASSUME NEW f \in Flows, UpdateTested(f) PROVE KeepsIdentity
    BY <1>1, <1>8, UpdateTestedGoesOn
  <1>9. ASSUME NEW s \in Slots, SetUp(s) \/ SetUpEnds(s) \/ PollRefused(s) \/ Reload(s)
        PROVE  KeepsIdentity
    BY <1>1, <1>9, SetUpGoesOn, SetUpEndsGoesOn, PollRefusedGoesOn, ReloadGoesOn
  <1>10. ASSUME Restart \/ Move PROVE KeepsIdentity
    BY <1>1, <1>10, RestartGoesOn, MoveGoesOn
  <1>11. ASSUME NEW f \in Flows,
                UserAdds(f) \/ Submit(f) \/ SubmitAdvanced(f) \/ CloudLogin(f)
                \/ CloudLoggedIn(f) \/ CloudSelect(f) \/ SubmitCloudLocal(f)
                \/ CloudLocalTested(f) \/ SubmitUpdate(f) \/ Dismiss(f)
         PROVE  UNCHANGED entries
    BY <1>11 DEF UserAdds, Submit, SubmitAdvanced, CloudLogin, CloudLoggedIn, CloudSelect,
                 SubmitCloudLocal, CloudLocalTested, SubmitUpdate, Dismiss
  <1>12. ASSUME NEW f \in Flows, NEW s \in Slots, UserReconfigures(f, s)
         PROVE  UNCHANGED entries
    BY <1>12 DEF UserReconfigures
  <1>13. CASE UNCHANGED vars
    BY <1>2, <1>13 DEF vars
  <1>14. CASE Next
    BY <1>2, <1>4, <1>5, <1>6, <1>7, <1>8, <1>9, <1>10, <1>11, <1>12, <1>14 DEF Next
  <1>15. QED
    BY <1>13, <1>14

(***************************************************************************)
(* An entry never becomes another accessory's, whatever is typed into its  *)
(* forms and announced by others (config_flow.py 1123-1128).               *)
(***************************************************************************)
THEOREM IdentityIsKept == Spec => EntryKeepsIdentity
  <1>1. ASSUME EntryInv, [Next]_vars
        PROVE  [\A s \in Slots : entries[s] # NoEntry =>
                   /\ entries'[s].data.mac = entries[s].data.mac
                   /\ entries[s].version = "current" =>
                         entries'[s].unique = entries[s].unique]_vars
    BY <1>1, NextKeepsIdentity DEF KeepsIdentity
  <1>2. QED
    BY <1>1, EntryInvariant, PTL DEF Spec, EntryKeepsIdentity
=============================================================================
