---------------------------- MODULE ClusterOps -----------------------------
(* The operator actions of the cluster page (Cluster.vue, ReplicasetCard.vue,      *)
(* InstanceActionsMenu.vue, ClusterToolbar.vue) and of the failover page           *)
(* (Failover.vue, FailoverSettingsDialog.vue).  All go through the cluster-ops      *)
(* store, whose one pending flag outlives the page that set it.  Left out: the       *)
(* settings that every mode shares, checked and sent in each of them, and the count  *)
(* of voters that the election mode asks for.                                        *)
EXTENDS Browser

CONSTANTS
    Instances,
    NoInstance,
    Modes              \* the failover modes told apart, "off" among them

Actions == {"pause", "resume", "promote", "toggle", "expel", "set"}

\* What the cluster store and the two pages ask for; each shares its answer.
SnapshotQuery == [op |-> "snapshot"]
PauseQuery == [op |-> "pauseStatus"]
FailoverQuery == [op |-> "failover"]
PageQuery(tab) == IF tab = "cluster" THEN PauseQuery ELSE FailoverQuery

\* Settings that are on the form for one mode only, and what each is worth: left
\* empty, well filled in, or not valid.
Knobs == {"election", "lease"}
Empty == [k \in Knobs |-> "empty"]

\* The refs of both pages as they are mounted; pending belongs to a store, and so does
\* what data is made of: whether there is a snapshot, and no error after it.
Mounted(tab, data, pending) ==
    [tab |-> tab, data |-> data, pending |-> pending,
     paused |-> FALSE, ttl |-> FALSE,          \* Cluster.vue, ClusterToolbar.vue
     expel |-> NoInstance, typed |-> FALSE,    \* one menu's dialog, its text right
     mode |-> "", settings |-> FALSE,          \* Failover.vue
     pick |-> "off", knobs |-> Empty,          \* FailoverSettingsDialog.vue
     closing |-> FALSE]                        \* a timer will close the dialog

Init ==
    /\ backend \in [mode : Modes, paused : {FALSE}, disabled : {{}}]
    /\ ui = Mounted("cluster", FALSE, FALSE)
    /\ flight = {SnapshotQuery, PauseQuery}

\* Dialogs are modal: the page under them takes no click.
Modal == ui.expel # NoInstance \/ ui.settings

Visit(tab) ==
    /\ tab # ui.tab
    /\ ui' = Mounted(tab, ui.data, ui.pending)
    /\ Sends((flight \ {PauseQuery, FailoverQuery}) \cup {PageQuery(tab)})
    /\ UNCHANGED backend

\* A frame of the live feed makes the store and the page ask again.
FeedFrame ==
    /\ Sends(flight \cup {SnapshotQuery, PageQuery(ui.tab)})
    /\ UNCHANGED <<ui, backend>>

\* A snapshot puts the instances on show; who is disabled is not part of it.  An error
\* takes their place until the next one that succeeds, and a menu's dialog with them.
SnapshotAnswered(r) ==
    /\ r = SnapshotQuery
    /\ Answered(r)
    /\ \/ ui' = [ui EXCEPT !.data = TRUE]
       \/ ui' = [ui EXCEPT !.data = FALSE, !.expel = NoInstance, !.typed = FALSE]
    /\ UNCHANGED backend

PauseStatusAnswered(r) ==
    /\ r = PauseQuery
    /\ Answered(r)
    /\ \E paused \in {ui.paused, backend.paused} : ui' = [ui EXCEPT !.paused = paused]
    /\ UNCHANGED backend

FailoverAnswered(r) ==
    /\ r = FailoverQuery
    /\ Answered(r)
    /\ \E mode \in {ui.mode, backend.mode} : ui' = [ui EXCEPT !.mode = mode]
    /\ UNCHANGED backend

\* Mutant: an action does not wait for the one under way.
CallsFreely(r) ==
    /\ ui' = [ui EXCEPT !.pending = TRUE]
    /\ Posts(r)
    /\ UNCHANGED backend

\* Every action of the store raises pending and sends one mutation.
Calls(r) ==
    /\ ~ui.pending
    /\ ui' = [ui EXCEPT !.pending = TRUE]
    /\ Posts(r)
    /\ UNCHANGED backend

Call(op, arg, on) == [op |-> op, arg |-> arg, on |-> on, n |-> 0]

Toolbar == ui.tab = "cluster" /\ ~Modal

OpenPause ==
    /\ Toolbar
    /\ ~ui.paused /\ ~ui.ttl /\ ~ui.pending
    /\ ui' = [ui EXCEPT !.ttl = TRUE]
    /\ UNCHANGED <<flight, backend>>

CancelPause ==
    /\ Toolbar
    /\ ~ui.paused /\ ui.ttl /\ ~ui.pending
    /\ ui' = [ui EXCEPT !.ttl = FALSE]
    /\ UNCHANGED <<flight, backend>>

DoPause == Toolbar /\ ~ui.paused /\ ui.ttl /\ Calls(Call("pause", NoInstance, TRUE))
DoResume == Toolbar /\ ui.paused /\ Calls(Call("resume", NoInstance, FALSE))

\* The menu in the row of an instance.  ReplicasetCard passes it no `disabled`, which
\* Vue reads as false: the button offers to disable, and sends enabled = false.
DisabledProp == FALSE
DoPromote(i) == Toolbar /\ ui.data /\ Calls(Call("promote", i, TRUE))
DoToggleEnabled(i) == Toolbar /\ ui.data /\ Calls(Call("toggle", i, DisabledProp))

OpenExpel(i) ==
    /\ Toolbar
    /\ ui.data
    /\ ~ui.pending
    /\ ui' = [ui EXCEPT !.expel = i, !.typed = FALSE]
    /\ UNCHANGED <<flight, backend>>

TypeAlias ==
    /\ ui.expel # NoInstance
    /\ ~ui.pending
    /\ ui' = [ui EXCEPT !.typed = ~@]
    /\ UNCHANGED <<flight, backend>>

CloseExpel ==
    /\ ui.expel # NoInstance
    /\ ~ui.pending
    /\ ui' = [ui EXCEPT !.expel = NoInstance, !.typed = FALSE]
    /\ UNCHANGED <<flight, backend>>

ConfirmExpel ==
    /\ ui.expel # NoInstance
    /\ ui.typed
    /\ Calls(Call("expel", ui.expel, TRUE))

\* Mutant: a mode not known yet is taken over as it is.
EffectiveModeRaw == ui.mode

\* off with the agent running is shown as supervised; a mode not known yet as off.
EffectiveMode == IF ui.mode \in Modes THEN ui.mode ELSE "off"

OpenSettings ==
    /\ ui.tab = "failover" /\ ~ui.settings
    /\ ui' = [ui EXCEPT !.settings = TRUE, !.pick = EffectiveMode, !.knobs = Empty]
    /\ UNCHANGED <<flight, backend>>

Pick(m) ==
    /\ ui.settings
    /\ m # ui.pick
    /\ ui' = [ui EXCEPT !.pick = m]
    /\ UNCHANGED <<flight, backend>>

\* Fields of another mode are not on the form but keep what was typed into them.
OnForm(k) == ui.pick = IF k = "election" THEN "election" ELSE "supervised"

Fill(k, worth) ==
    /\ ui.settings
    /\ OnForm(k)
    /\ ui.knobs[k] # worth
    /\ ui' = [ui EXCEPT !.knobs[k] = worth]
    /\ UNCHANGED <<flight, backend>>

\* Mutant: what is left in a field that is not on the form is sent too.
ParamsFilled == {k \in Knobs : ui.knobs[k] # "empty"}

\* validationErrors looks at the fields on the form, buildParams sends those of them
\* that are filled in.
Valid == \A k \in Knobs : OnForm(k) => ui.knobs[k] # "bad"
Params == {k \in Knobs : OnForm(k) /\ ui.knobs[k] # "empty"}

Submit(apply) ==
    /\ ui.settings
    /\ Valid
    /\ Calls([op |-> "set", arg |-> ui.pick, on |-> apply, n |-> 0,
              params |-> {<<k, ui.knobs[k]>> : k \in Params}])

\* What is left in a closed form is replaced when it is opened again.
Closed == [ui EXCEPT !.settings = FALSE, !.pick = "off", !.knobs = Empty]

CancelSettings ==
    /\ ui.settings
    /\ ~ui.pending
    /\ ui' = Closed
    /\ UNCHANGED <<flight, backend>>

\* 1.2 s after an apply the dialog is closed, whichever opening of it that is.
CloseTimer ==
    /\ ui.closing
    /\ ui' = [Closed EXCEPT !.closing = FALSE]
    /\ UNCHANGED <<flight, backend>>

\* A pause ends by itself after its time.
PauseExpires ==
    /\ backend.paused
    /\ backend' = [backend EXCEPT !.paused = FALSE]
    /\ UNCHANGED <<ui, flight>>

Effect(r) ==
    CASE r.op = "pause" -> [backend EXCEPT !.paused = TRUE]
      [] r.op = "resume" -> [backend EXCEPT !.paused = FALSE]
      [] r.op = "toggle" -> [backend EXCEPT !.disabled =
                                 IF r.on THEN @ \ {r.arg} ELSE @ \cup {r.arg}]
      [] r.op = "set" /\ r.on -> [backend EXCEPT !.mode = r.arg]
      [] OTHER -> backend

\* Done or refused, or done and the answer lost; finally, pending is lowered.  The
\* page hears of it if it is still there: a menu tells its card that something
\* changed, which nobody listens to.
CallAnswered(r) ==
    /\ r.op \in Actions
    /\ backend' \in {backend, Effect(r)}
    /\ \E ok \in {FALSE, r.op = "set"} :
          LET here == ui.tab = (IF r.op = "set" THEN "failover" ELSE "cluster")
              asks == IF r.op = "set" THEN FailoverQuery ELSE PauseQuery
              again == here /\ \/ r.op \in {"pause", "resume"}
                               \/ ok /\ r.on
          IN  /\ ok => backend' = Effect(r)
              /\ ui' = [ui EXCEPT
                     !.pending = FALSE,
                     !.ttl = @ /\ r.op # "pause",
                     !.expel = IF r.op = "expel" THEN NoInstance ELSE @,
                     !.typed = @ /\ r.op # "expel",
                     !.closing = @ \/ (here /\ ok /\ r.on)]
              /\ Sends((flight \ {r}) \cup {q \in {asks} : again})

Next ==
    \/ FeedFrame \/ OpenPause \/ CancelPause \/ DoPause \/ DoResume
    \/ TypeAlias \/ CloseExpel \/ ConfirmExpel \/ OpenSettings \/ CancelSettings
    \/ CloseTimer \/ PauseExpires
    \/ \E tab \in {"cluster", "failover"} : Visit(tab)
    \/ \E i \in Instances : DoPromote(i) \/ DoToggleEnabled(i) \/ OpenExpel(i)
    \/ \E m \in Modes : Pick(m)
    \/ \E k \in Knobs, worth \in {"empty", "good", "bad"} : Fill(k, worth)
    \/ \E apply \in BOOLEAN : Submit(apply)
    \/ \E r \in flight :
          \/ SnapshotAnswered(r) \/ PauseStatusAnswered(r) \/ FailoverAnswered(r)
          \/ CallAnswered(r)

Spec == Init /\ [][Next]_pageVars
----------------------------------------------------------------------------
Calling == {r \in flight : r.op \in Actions}

\* One operator action runs at a time and pending says so, whichever page began it,
\* was left meanwhile or had its dialog closed by the timer of an earlier apply
\* (store.ts:57-62, "disables conflicting buttons while an action is in flight").
PendingHonest ==
    /\ ui.pending <=> Calling # {}
    /\ \A r, s \in Calling : r = s

\* No setting that the form shows as not valid is sent: neither one filled in for
\* another mode than the one picked in the end, nor one put right and spoilt again
\* (FailoverSettingsDialog.vue:142-216, 258-293).
SentIsValid ==
    \A r \in InFlight("set") : \A p \in r.params :
        /\ p[2] = "good"
        /\ p[1] = "election" => r.arg = "election"
        /\ p[1] = "lease" => r.arg = "supervised"

\* "Disable / Enable - toggle through setInstanceState" (InstanceActionsMenu.vue:8):
\* the toggle of an instance that is disabled enables it.
ToggleEnables ==
    \A r \in InFlight("toggle") : r.arg \in backend.disabled => r.on
============================================================================
