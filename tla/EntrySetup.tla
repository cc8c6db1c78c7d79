----------------------------- MODULE EntrySetup -----------------------------
(***************************************************************************)
(* Config entries and the flows that make and change them: config_flow.py, *)
(* the cloud bootstrap (cloud/client.py, cloud/models.py), and migration,  *)
(* set-up and unload of an entry (__init__.py).                            *)
(*                                                                         *)
(* A flow's step runs on the event loop until it awaits a connection test, *)
(* a login or the set-up of another entry; in between other flows, set-ups *)
(* and polls go on, accessories change addresses and Home Assistant may    *)
(* restart.  Home Assistant's part is modelled from how it is used: it     *)
(* refuses a unique id that another open flow holds, schedules the reloads *)
(* and starts a reauthentication for an entry whose credentials are        *)
(* refused.  An accessory is named by its MAC address.  An announcement of *)
(* a service that is not operational, supported or identified is refused   *)
(* at once and leaves nothing, so it is not an action.                     *)
(***************************************************************************)
EXTENDS Naturals, Sequences, FiniteSets, SequencesExt

CONSTANTS Ids,        \* accessories
          Addresses,  \* addresses they may have in the LAN
          Modes,      \* connection policies: of "local", "cloud", "fallback"
          Legacy,     \* identities an entry of an older version may be kept under
          MaxFlows,   \* bound: flows open at a time
          MaxStarts,  \* bound: flows started in a run
          MaxEntries, \* bound: entries
          MaxMoves,   \* bound: changes of an accessory's address
          MaxRestarts, \* bound: restarts of Home Assistant
          Budget      \* bound: flows, moves and restarts together

ASSUME EntryAssumption ==
    /\ IsFiniteSet(Ids) /\ Cardinality(Ids) <= Cardinality(Addresses)
    /\ Modes \subseteq {"local", "cloud", "fallback"}
    /\ Legacy \subseteq Ids \cup {"no mac"}
    /\ Ids \cap {"no mac", "raw", "none"} = {}
    /\ "blank" \notin Addresses
    /\ MaxEntries >= Cardinality(Ids) + 1
    /\ {MaxFlows, MaxStarts, MaxEntries, MaxMoves, MaxRestarts, Budget} \subseteq Nat

VARIABLES at,        \* the address of each accessory
          entries,   \* the config entries, by slot
          flows,     \* the open flows, by slot
          starts, moves, restarts  \* so far

vars == <<at, entries, flows, starts, moves, restarts>>
Affordable == starts + moves + restarts < Budget
Slots == 1..MaxEntries
Flows == 1..MaxFlows

\* Entry data: the target, whose credentials, the policy, and the LAN endpoint.
Blank == "blank"
NoData == [mac |-> "no mac", cred |-> "bad", mode |-> "local", host |-> Blank]

\* unique: the unique id, "raw" when it is the target in another notation.
\* using: what the running coordinator was made from; reload: one is scheduled.
NoEntry == [state |-> "none", version |-> "current", unique |-> "none", data |-> NoData,
            using |-> NoData, reload |-> FALSE]
\* form: the step shown, or tested; holds: the unique id in the flow's context.
NoFlow == [kind |-> "none", form |-> "none", busy |-> FALSE, mode |-> "local", data |-> NoData,
           holds |-> "none", offered |-> {}, selected |-> <<>>, passed |-> <<>>, entry |-> 1]

---------------------------------------------------------------------------
(* Identity *)

\* normalize_device_id of an entry's unique id, or of its target when it has none.
Identity(e) == IF e.data.mac = "no mac" THEN "none" ELSE e.data.mac

Configured == {entries[s].unique : s \in Slots} \ {"none"}
ConfiguredIds == {Identity(entries[s]) : s \in {s \in Slots : entries[s] # NoEntry}}
InProgress(f, id) == \E g \in Flows \ {f} : flows[g].kind # "none" /\ flows[g].holds = id

MayTakeUnchecked(f, id) == ~InProgress(f, id)  \* mutant: entries are not compared
\* async_set_unique_id and _abort_if_unique_id_configured go through.
MayTake(f, id) == ~InProgress(f, id) /\ id \notin Configured

Free == {s \in Slots : entries[s] = NoEntry}
FreeFlows == {f \in Flows : flows[f] = NoFlow}
Fresh(id, data) == [NoEntry EXCEPT !.state = "not_loaded", !.unique = id, !.data = data]

---------------------------------------------------------------------------
(* Connection tests *)

\* What a test, or a first read, may come to on each route.
Lan(d) ==
    LET there == {x \in Ids : at[x] = d.host}
    IN CASE there = {} -> {"connection"}
         [] d.mac \in there /\ d.cred = d.mac -> {"ok", "connection"}
         [] OTHER -> {"auth", "connection"}
Relay(d) == IF d.cred = d.mac THEN {"ok", "connection"} ELSE {"auth", "connection"}

\* _test_connection: without its endpoint the data is invalid; only a failure to
\* connect leads from the LAN to the relay.
Test(d) ==
    IF d.mode = "cloud" THEN Relay(d)
    ELSE IF d.host = Blank THEN {"invalid"}
    ELSE IF d.mode = "local" THEN Lan(d)
    ELSE (Lan(d) \ {"connection"}) \cup Relay(d)

AcceptedAnyAnswer(outcome) ==  \* mutant: a refusal shows the accessory is there
    outcome \in {"ok", "auth"}
Accepted(outcome) == outcome = "ok"

---------------------------------------------------------------------------
(* New entries: by hand, discovered, from the cloud *)

Opens(f, flow) ==
    /\ f \in FreeFlows /\ \A g \in FreeFlows : f <= g
    /\ starts < MaxStarts /\ Affordable
    /\ starts' = starts + 1
    /\ flows' = [flows EXCEPT ![f] = flow]
    /\ UNCHANGED <<at, moves, restarts>>
Shows(f, flow) == flows' = [flows EXCEPT ![f] = flow] /\ UNCHANGED <<at, starts, moves, restarts>>
Closes(f) == Shows(f, NoFlow)
Migrated == \A s \in Slots : entries[s].version = "current"

\* async_step_user, with the first form answered.
UserAdds(f) ==
    /\ Migrated
    /\ \E mode \in Modes, form \in {"local", "cloud_auth"} :
          Opens(f, [NoFlow EXCEPT !.kind = "user", !.form = form, !.mode = mode])
    /\ UNCHANGED entries

\* async_step_zeroconf: an entry that has the id gets the new address, and is
\* reloaded unless it is being set up.
Discovered(f, d) ==
    /\ Migrated
    /\ ~InProgress(0, d)
    /\ IF d \in Configured
       THEN /\ entries' = [s \in Slots |->
                  IF entries[s].unique # d THEN entries[s]
                  ELSE [entries[s] EXCEPT
                           !.data.host = at[d],
                           !.reload = @ \/ /\ entries[s].state \in {"loaded", "retry"}
                                           /\ entries[s].data.host # at[d]]]
            /\ UNCHANGED <<at, flows, starts, moves, restarts>>
       ELSE /\ Opens(f, [NoFlow EXCEPT !.kind = "zeroconf", !.form = "confirm", !.holds = d,
                             !.data = [NoData EXCEPT !.mac = d, !.host = at[d]]])
            /\ UNCHANGED entries

\* The test failed: the form is shown again, to be filled in once more.
Again(f) == [flows[f] EXCEPT !.busy = FALSE,
                    !.data = IF flows[f].form \in {"confirm", "advanced"} THEN @ ELSE NoData]
Idle(f, forms) == flows[f].kind # "none" /\ ~flows[f].busy /\ flows[f].form \in forms
Tested(f) == [flows[f] EXCEPT !.busy = TRUE]

\* A form with the connection's fields is submitted; the advanced one may follow.
Submit(f) ==
    /\ Idle(f, {"local", "confirm"})
    /\ \E mac \in Ids \cup {"no mac"}, host \in Addresses, good \in BOOLEAN, advanced \in BOOLEAN :
          LET known == flows[f].form = "confirm"
              id == IF known THEN flows[f].data.mac ELSE mac
              data == [mac |-> id, cred |-> IF good /\ id \in Ids THEN id ELSE "bad",
                       mode |-> IF known THEN "local" ELSE flows[f].mode,
                       host |-> IF known THEN flows[f].data.host
                                ELSE IF flows[f].mode = "cloud" THEN Blank ELSE host]
          IN Shows(f, [flows[f] EXCEPT !.data = data, !.busy = ~advanced /\ id \in Ids,
                           !.form = IF advanced THEN "advanced" ELSE @])
    /\ UNCHANGED entries

SubmitAdvanced(f) ==
    /\ Idle(f, {"advanced"})
    /\ flows[f].data.mac \in Ids
    /\ Shows(f, Tested(f)) /\ UNCHANGED entries

\* _async_finish_new_local, after its test
FinishNewLocal(f) ==
    /\ flows[f].busy /\ flows[f].form \in {"local", "confirm", "advanced"}
    /\ \E outcome \in Test(flows[f].data) :
          LET d == flows[f].data
          IN CASE ~Accepted(outcome) ->
                     Shows(f, Again(f)) /\ UNCHANGED entries
               [] Accepted(outcome) /\ ~MayTake(f, d.mac) -> Closes(f) /\ UNCHANGED entries
               [] OTHER -> /\ Closes(f)
                           /\ \E s \in Free : (\A r \in Free : s <= r)
                                 /\ entries' = [entries EXCEPT ![s] = Fresh(d.mac, d)]

\* async_step_cloud_auth: the account's secrets are only held while it awaits the
\* service, and cleared however that ends.
CloudLogin(f) ==
    /\ Idle(f, {"cloud_auth"})
    /\ Shows(f, Tested(f)) /\ UNCHANGED entries
CloudLoggedIn(f) ==
    /\ flows[f].busy /\ flows[f].form = "cloud_auth"
    /\ \/ Shows(f, [flows[f] EXCEPT !.busy = FALSE])   \* refused, unreachable, not understood
       \/ \E account \in (SUBSET Ids) \ {{}} :
             LET offered == account \ ConfiguredIds
             IN IF offered = {} THEN Closes(f)
                ELSE Shows(f, [flows[f] EXCEPT !.busy = FALSE, !.form = "accessories",
                                               !.offered = offered])
    /\ UNCHANGED entries

\* async_step_cloud_accessories
CloudSelect(f) ==
    /\ Idle(f, {"accessories"})
    /\ \E chosen \in (SUBSET flows[f].offered) \ {{}} : \E order \in SetToSeqs(chosen) :
          Shows(f, [flows[f] EXCEPT !.form = "cloud_local", !.selected = order, !.passed = <<>>])
    /\ UNCHANGED entries

\* async_step_cloud_local of the next accessory; a blank address is an exception
\* in the step, which leaves the form as it was.
SubmitCloudLocal(f) ==
    /\ Idle(f, {"cloud_local"})
    /\ \E host \in Addresses :
          LET id == flows[f].selected[Len(flows[f].passed) + 1]
          IN Shows(f, [Tested(f) EXCEPT
                !.data = [mac |-> id, cred |-> id, mode |-> flows[f].mode,
                          host |-> IF flows[f].mode = "cloud" THEN Blank ELSE host]])
    /\ UNCHANGED entries

\* Its test is over; after the last one _async_finish_cloud_entries begins: the
\* first accessory's id is taken before the others are imported.
CloudLocalTested(f) ==
    /\ flows[f].busy /\ flows[f].form = "cloud_local"
    /\ \E outcome \in Test(flows[f].data) :
          LET passed == Append(flows[f].passed, flows[f].data)
              first == passed[1].mac
          IN CASE ~Accepted(outcome) -> Shows(f, Again(f))
               [] Accepted(outcome) /\ Len(passed) < Len(flows[f].selected) ->
                     Shows(f, [Again(f) EXCEPT !.passed = passed])
               [] Accepted(outcome) /\ Len(passed) = Len(flows[f].selected)
                     /\ ~MayTake(f, first) -> Closes(f)
               [] OTHER -> Shows(f, [flows[f] EXCEPT !.form = "finish", !.passed = passed,
                                                     !.holds = first])
    /\ UNCHANGED entries

\* async_step_import of the last that is left, while its flow awaits it: what
\* comes of it is not looked at.  Then the first is created.
FinishCloudEntries(f) ==
    /\ flows[f].form = "finish"
    /\ LET data == Last(flows[f].passed)
           more == Len(flows[f].passed) > 1
       IN /\ IF more THEN Shows(f, [flows[f] EXCEPT !.passed = Front(@)]) ELSE Closes(f)
          /\ IF more /\ ~MayTake(f, data.mac) THEN UNCHANGED entries
             ELSE \E s \in Free : (\A r \in Free : s <= r)
                     /\ entries' = [entries EXCEPT ![s] = Fresh(data.mac, data)]

---------------------------------------------------------------------------
(* Existing entries: reauthentication and reconfiguration *)

Reauthenticating(s) == \E f \in Flows : flows[f].kind = "reauth" /\ flows[f].entry = s
ReauthFlow(s) == [NoFlow EXCEPT !.kind = "reauth", !.form = "update", !.entry = s,
                      !.holds = entries[s].unique]

UserReconfigures(f, s) ==
    /\ Migrated /\ entries[s] # NoEntry
    /\ Opens(f, [NoFlow EXCEPT !.kind = "reconfigure", !.form = "update", !.entry = s])
    /\ UNCHANGED entries

AnyDevice(s, mac) == mac # "no mac"  \* mutant: the entry may be pointed at another device
RightDevice(s, mac) == mac = Identity(entries[s])

\* _async_update_existing_entry: the form is merged over the entry as it is now.
SubmitUpdate(f) ==
    /\ Idle(f, {"update"})
    /\ \E mac \in Ids \cup {"no mac"}, host \in Addresses \cup {Blank}, good \in BOOLEAN,
          mode \in Modes :
          /\ RightDevice(flows[f].entry, mac)
          /\ Shows(f, [Tested(f) EXCEPT
                !.data = [mac |-> mac, cred |-> IF good THEN mac ELSE "bad", mode |-> mode,
                          host |-> host]])
    /\ UNCHANGED entries

UpdateWithoutReload(e, data) == [e EXCEPT !.data = data]  \* mutant: nothing is reloaded
Update(e, data) == [e EXCEPT !.data = data, !.reload = TRUE]
\* The test is over: the whole of the data is saved, and the entry reloaded.
UpdateTested(f) ==
    /\ flows[f].busy /\ flows[f].form = "update"
    /\ \E outcome \in Test(flows[f].data) :
          IF Accepted(outcome)
          THEN /\ entries' = [entries EXCEPT ![flows[f].entry] = Update(@, flows[f].data)]
               /\ Closes(f)
          ELSE Shows(f, Again(f)) /\ UNCHANGED entries

Dismiss(f) == Idle(f, {"local", "confirm", "advanced", "cloud_auth", "accessories", "cloud_local",
                       "update"})
              /\ Closes(f) /\ UNCHANGED entries

---------------------------------------------------------------------------
(* The life of an entry *)

\* async_migrate_entry: the policy is filled in, and the unique id normalised.
Migrate(s) ==
    /\ entries[s].version = "old"
    /\ entries' = [entries EXCEPT ![s].version = "current",
                                  ![s].unique = IF Identity(entries[s]) = "none" THEN @
                                                ELSE Identity(entries[s])]
    /\ UNCHANGED <<at, flows, starts, moves, restarts>>

\* async_setup_entry: the coordinator is made from the data, and reads.
SetUp(s) ==
    /\ entries[s].state \in {"not_loaded", "retry"} /\ entries[s].version = "current"
    /\ entries' = [entries EXCEPT ![s].state = "setting_up", ![s].using = entries[s].data,
                                  ![s].reload = FALSE]
    /\ UNCHANGED <<at, flows, starts, moves, restarts>>

\* Credentials are refused: Home Assistant opens a reauthentication, once.
Refused(s) ==
    IF Reauthenticating(s) THEN UNCHANGED <<at, flows, starts, moves, restarts>>
    ELSE \E f \in Flows : Opens(f, ReauthFlow(s))

Without(e, state) == [e EXCEPT !.state = state, !.using = NoData]
SetUpEnds(s) ==
    /\ entries[s].state = "setting_up"
    /\ \E outcome \in Test(entries[s].using) :
          CASE outcome = "ok" -> /\ entries' = [entries EXCEPT ![s].state = "loaded"]
                                 /\ UNCHANGED <<at, flows, starts, moves, restarts>>
            [] outcome = "auth" -> /\ entries' = [entries EXCEPT ![s] = Without(@, "failed")]
                                   /\ Refused(s)
            [] outcome = "connection" -> /\ entries' = [entries EXCEPT ![s] = Without(@, "retry")]
                                         /\ UNCHANGED <<at, flows, starts, moves, restarts>>
            [] OTHER -> /\ entries' = [entries EXCEPT ![s] = Without(@, "failed")]
                        /\ UNCHANGED <<at, flows, starts, moves, restarts>>

\* A poll of a loaded entry is refused (ConfigEntryAuthFailed).
PollRefused(s) ==
    /\ entries[s].state = "loaded" /\ ~entries[s].reload
    /\ "auth" \in Test(entries[s].using) /\ ~Reauthenticating(s)
    /\ Refused(s) /\ UNCHANGED entries

\* The reload: async_unload_entry, unless its platforms refuse, which keeps the
\* coordinator until the next restart.
Reload(s) ==
    /\ entries[s].reload /\ entries[s].state # "setting_up"
    /\ \E e \in CASE entries[s].state = "loaded" ->
                        {Without(entries[s], "not_loaded"), [entries[s] EXCEPT !.state = "stuck"]}
                   [] entries[s].state = "stuck" -> {entries[s]}
                   [] OTHER -> {Without(entries[s], "not_loaded")} :
          entries' = [entries EXCEPT ![s] = [e EXCEPT !.reload = FALSE]]
    /\ UNCHANGED <<at, flows, starts, moves, restarts>>

\* Entries are kept; flows are not.
Restart ==
    /\ restarts < MaxRestarts /\ Affordable
    /\ restarts' = restarts + 1
    /\ flows' = [f \in Flows |-> NoFlow]
    /\ entries' = [s \in Slots |->
          IF entries[s] = NoEntry THEN NoEntry
          ELSE [Without(entries[s], "not_loaded") EXCEPT !.reload = FALSE]]
    /\ UNCHANGED <<at, starts, moves>>

\* An accessory gets another address; it may be one another accessory had.
Move ==
    /\ moves < MaxMoves /\ Affordable
    /\ moves' = moves + 1
    /\ \E new \in [Ids -> Addresses] :
          /\ new # at
          /\ \A x, y \in Ids : new[x] = new[y] => x = y
          /\ at' = new
    /\ UNCHANGED <<entries, flows, starts, restarts>>

---------------------------------------------------------------------------
\* An entry of an older version has no mode, which reads as local, and a unique
\* id in the notation of its time.
OldEntry(id, cred, host) ==
    [NoEntry EXCEPT !.state = "not_loaded", !.version = "old", !.unique = "raw",
         !.data = [mac |-> id, cred |-> cred, mode |-> "local", host |-> host]]
Init ==
    /\ at \in {a \in [Ids -> Addresses] : \A x, y \in Ids : a[x] = a[y] => x = y}
    /\ \/ entries = [s \in Slots |-> NoEntry]
       \/ \E id \in Legacy, host \in Addresses :
             entries = [[s \in Slots |-> NoEntry] EXCEPT
                           ![1] = OldEntry(id, IF id \in Ids THEN id ELSE "bad", host)]
    /\ flows = [f \in Flows |-> NoFlow]
    /\ starts = 0 /\ moves = 0 /\ restarts = 0

Next ==
    \/ \E f \in Flows : UserAdds(f) \/ Submit(f) \/ SubmitAdvanced(f) \/ FinishNewLocal(f)
                        \/ CloudLogin(f) \/ CloudLoggedIn(f) \/ CloudSelect(f)
                        \/ SubmitCloudLocal(f) \/ CloudLocalTested(f) \/ FinishCloudEntries(f)
                        \/ SubmitUpdate(f) \/ UpdateTested(f) \/ Dismiss(f)
    \/ \E f \in Flows, d \in Ids : Discovered(f, d)
    \/ \E f \in Flows, s \in Slots : UserReconfigures(f, s)
    \/ \E s \in Slots : Migrate(s) \/ SetUp(s) \/ SetUpEnds(s) \/ PollRefused(s) \/ Reload(s)
    \/ Restart \/ Move

Spec == Init /\ [][Next]_vars

---------------------------------------------------------------------------
(* Properties *)

\* However flows, tests, imports and discoveries overlap, an accessory has one
\* entry, and a migrated entry that knows its accessory is kept under its
\* normalised id (README.md 37-38; config_flow.py 836-837, 1029-1034).
OneEntryPerAccessory ==
    \A s, r \in Slots :
       entries[s] # NoEntry /\ Identity(entries[s]) # "none" =>
          /\ entries[s].version = "current" => entries[s].unique = Identity(entries[s])
          /\ Identity(entries[r]) = Identity(entries[s]) => r = s

\* What is saved was accepted: the credentials of an entry are its accessory's
\* own, and its policy has the endpoint it needs (config_flow.py 515-528).
SavedWasAccepted ==
    \A s \in Slots :
       entries[s] # NoEntry /\ entries[s].data.mac \in Ids =>
          /\ entries[s].data.cred = entries[s].data.mac
          /\ entries[s].data.mode # "cloud" => entries[s].data.host # Blank

\* An entry never becomes another accessory's, whatever is typed into its forms
\* and announced by others (config_flow.py 1123-1128).
EntryKeepsIdentity ==
    [][\A s \in Slots : entries[s] # NoEntry =>
          /\ entries'[s].data.mac = entries[s].data.mac
          /\ entries[s].version = "current" => entries'[s].unique = entries[s].unique]_vars

\* A running coordinator has the credentials and the policy that are saved, or a
\* reload is due, unless its platforms refused to unload (config_flow.py 1136-1145).
RunsAsSaved ==
    \A s \in Slots :
       entries[s].state = "loaded" /\ ~entries[s].reload =>
          /\ entries[s].using.cred = entries[s].data.cred
          /\ entries[s].using.mode = entries[s].data.mode

\* And it runs at the address that is saved (config_flow.py 957).  It does not
\* hold: a discovery that rewrites the address of an entry being set up reloads
\* nothing, and the coordinator runs at the old one.
RunsWhereSaved ==
    \A s \in Slots :
       entries[s].state = "loaded" /\ ~entries[s].reload =>
          entries[s].using.host = entries[s].data.host

\* Every accessory that passed its test in a cloud flow has its entry when the
\* flow ends by itself (config_flow.py 827-849).  It does not hold: when the first
\* is configured meanwhile the flow aborts before it imports the others.
ValidatedAccessoriesAreConfigured ==
    [][\A f \in Flows :
          flows[f].form \in {"cloud_local", "finish"} /\ flows[f].busy /\ flows'[f] = NoFlow
             /\ restarts' = restarts =>
             \A i \in DOMAIN flows[f].passed :
                \E s \in Slots : entries'[s].unique = flows[f].passed[i].mac]_vars
============================================================================
