------------------------------ MODULE Bootstrap -----------------------------
(* The first-start wizard (Bootstrap.vue) and its resolvers (resolvers/             *)
(* bootstrap.lua): a template and a name are chosen, previewed and committed to a    *)
(* cluster that has no configuration.  The backend looks whether there is one and    *)
(* commits in two steps, with etcd between them.  Left out: what a template renders  *)
(* to; one that cannot be rendered or is not valid is refused.                       *)
EXTENDS Browser

CONSTANTS
    Choices, NoChoice      \* a template with a name; what was chosen, rendered, committed

StatusQuery == [op |-> "status"]
Render(c) == [op |-> "render", of |-> c]

\* The default template, or the first one offered if that is not among them.
Mounted(c) ==
    [status |-> "unknown", choice |-> c, yaml |-> NoChoice, renderError |-> FALSE,
     editor |-> FALSE, text |-> NoChoice,       \* monaco is up, and its text
     applying |-> FALSE, info |-> "none",
     leaving |-> FALSE]                         \* a timer leads to the cluster

Init ==
    /\ \E c \in Choices : ui = Mounted(c)
    /\ flight = {StatusQuery}
    /\ backend \in [config : {NoChoice} \cup Choices, checked : {{}}]

\* The status, as it is or as urql's cache kept it; a first preview follows.
StatusAnswered(r) ==
    /\ r = StatusQuery
    /\ \/ /\ ui' = [ui EXCEPT !.status = "needed"]
          /\ Sends((flight \ {r}) \cup {Render(ui.choice)})
       \/ /\ ui' \in {ui, [ui EXCEPT !.status = "not needed"]}
          /\ Answered(r)
    /\ UNCHANGED backend

\* The form is there while a bootstrap is needed; every change asks for a preview.
Choose(c) ==
    /\ ui.status = "needed"
    /\ c # ui.choice
    /\ ui' = [ui EXCEPT !.choice = c, !.renderError = FALSE]
    /\ Queries(Render(c))
    /\ UNCHANGED backend

Previewing(u, yaml) == [u EXCEPT !.yaml = yaml, !.text = IF u.editor THEN yaml ELSE @]

\* Rendered, refused, or failed, in which case the preview before it stays.
Rendered(r) ==
    /\ r.op = "render"
    /\ Answered(r)
    /\ \/ ui' = Previewing(ui, r.of)
       \/ ui' = Previewing([ui EXCEPT !.renderError = TRUE], NoChoice)
       \/ ui' = [ui EXCEPT !.renderError = TRUE]
    /\ UNCHANGED backend

MountEditor ==
    /\ ui.status = "needed"
    /\ ~ui.editor
    /\ ui' = [ui EXCEPT !.editor = TRUE, !.text = ui.yaml]
    /\ UNCHANGED <<flight, backend>>

\* What is sent is the choice, not the text of its preview.
Apply ==
    /\ ui.status = "needed"
    /\ ui.yaml # NoChoice
    /\ ~ui.applying
    /\ ui' = [ui EXCEPT !.applying = TRUE, !.info = "none"]
    /\ Posts([op |-> "initialize", of |-> ui.choice, n |-> 0])
    /\ UNCHANGED backend

\* mutation_initialize: the guard, then the commit over whatever there is by then.
Checked(r) ==
    /\ r.op = "initialize"
    /\ backend.config = NoChoice
    /\ backend' = [backend EXCEPT !.checked = @ \cup {r}]
    /\ UNCHANGED <<ui, flight>>

Initialized(r) ==
    /\ r \in backend.checked
    /\ backend' \in [config : {r.of, backend.config},     \* without etcd a dry run
                     checked : {backend.checked \ {r}}]
    /\ ui' = [ui EXCEPT !.applying = FALSE, !.info = "ok", !.leaving = TRUE]
    /\ Answered(r)

\* Refused because there is a configuration, for the template, or the answer lost.
InitializeFailed(r) ==
    /\ r.op = "initialize"
    /\ backend' \in [config : {backend.config} \cup {r.of : s \in {r} \cap backend.checked},
                     checked : {backend.checked \ {r}}]
    /\ ui' = [ui EXCEPT !.applying = FALSE, !.info = "failed"]
    /\ Answered(r)

\* The timer after a success, or the button when nothing is needed, leads to the
\* cluster; the wizard may be visited again.  What was asked for and not heard of is
\* one more of the others.
Leave ==
    /\ ui.leaving \/ ui.status = "not needed"
    /\ \E c \in Choices : ui' = Mounted(c)
    /\ flight' = {StatusQuery}
    /\ backend' = [backend EXCEPT !.checked = {}]

\* Somebody else starts the cluster, or clears its configuration.
OthersInitialize ==
    /\ \E c \in {NoChoice} \cup Choices : backend' = [backend EXCEPT !.config = c]
    /\ UNCHANGED <<ui, flight>>

Next ==
    \/ MountEditor \/ Apply \/ Leave \/ OthersInitialize
    \/ \E c \in Choices : Choose(c)
    \/ \E r \in flight :
          \/ StatusAnswered(r) \/ Rendered(r) \/ Checked(r) \/ Initialized(r)
          \/ InitializeFailed(r)

Spec == Init /\ [][Next]_pageVars
----------------------------------------------------------------------------
\* The preview shows the text that was rendered last, though the editor comes up only
\* with the form, and late (Bootstrap.vue:120-138, CodeEditor.vue:99-154).  It may be
\* older than the choice, which is what Apply sends (Bootstrap.vue:147).
PreviewInStep == ui.editor => ui.text = ui.yaml
============================================================================
