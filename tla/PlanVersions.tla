---------------------------- MODULE PlanVersions -----------------------------
(***************************************************************************)
(* What the README promises about the versions of a weekly plan, without   *)
(* rows, sessions, files or Telegram: a plan is edited as a draft; when it *)
(* is generated its content is published under its version number; editing *)
(* a published plan opens the next version and leaves the published ones   *)
(* alone; a plan with a published version can be sent; it can be deleted.  *)
(***************************************************************************)
EXTENDS Naturals

CONSTANTS Contents, Printable

VARIABLES
  live,       \* the plan exists
  version,    \* the version being edited or last published
  state,      \* "draft", "generated" or "sent"
  content,    \* what the plan holds now
  published   \* the published versions

pvars == <<live, version, state, content, published>>

Init ==
  /\ live = TRUE
  /\ version = 1
  /\ state = "draft"
  /\ content \in Contents
  /\ published = {}

Current == [version |-> version, content |-> content]

EditDraft ==
  /\ live /\ state = "draft"
  /\ content' \in Contents
  /\ UNCHANGED <<live, version, state, published>>

EditPublished ==
  /\ live /\ state # "draft"
  /\ state' = "draft"
  /\ version' = version + 1
  /\ content' \in Contents
  /\ UNCHANGED <<live, published>>

\* A draft, or a generated or sent plan again, under its present number.
Generate ==
  /\ live /\ content \in Printable
  /\ state' = "generated"
  /\ published' = published \cup {Current}
  /\ UNCHANGED <<live, version, content>>

\* Sending first publishes the current content when no file is left to send.
Send ==
  /\ live
  /\ published # {}
  /\ state' = "sent"
  /\ \/ published' = published
     \/ content \in Printable /\ published' = published \cup {Current}
  /\ UNCHANGED <<live, version, content>>

Delete ==
  /\ live' = FALSE
  /\ published' = {}
  /\ version' = 1
  /\ state' = "draft"
  /\ content' = content

Next == EditDraft \/ EditPublished \/ Generate \/ Send \/ Delete

Spec == Init /\ [][Next]_pvars

=============================================================================
