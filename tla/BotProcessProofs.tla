-------------------------- MODULE BotProcessProofs --------------------------
(***************************************************************************)
(* Theorems about BotProcess, for any deployments, admins, handlers and    *)
(* taps: typing, who holds the flag, that a restore which starts alone     *)
(* stays alone with a whole safety dump, what is restored, what is served, *)
(* and that a dialogue offers a file which is there.                       *)
(*                                                                         *)
(* Three of them are not inductive.  That the safety dump holds the data   *)
(* needs what the dump holds half-way, and that nothing is saved before    *)
(* its end; that the loaded file is the confirmed one needs that a         *)
(* dialogue's path and id name one upload whenever there is a path, and    *)
(* that a restore took both from it; and that a load leaves typed data     *)
(* needs that the file it loads is still the one that was inspected.       *)
(***************************************************************************)
EXTENDS BotProcess, TLAPS

\* What the safety dump of a restore that is alone holds.
HoldsTables(dump) == dump.plans = data.plans /\ dump.users \subseteq data.users
DumpOf(t) ==
  Alone(t) => /\ At(t, "dumping") => HoldsTables(tap[t].dump)
              /\ tap[t].saved /\ tap[t].pc \in {"dumped", "load", "loading"}
                   => HoldsTables(tap[t].dump) /\ tap[t].dump.days = data.days
DumpSoFar == \A t \in Taps : DumpOf(t)

\* Who restores, or moves the dialogue of a restore, is an admin.
Actors ==
  /\ \A h \in Handlers : upd[h].pc # "idle" /\ upd[h].what \notin Keys => upd[h].by \in Admins
  /\ \A t \in Taps : tap[t].pc # "idle" => tap[t].by \in Admins

\* A path is that of the upload whose id is beside it.
OneUpload ==
  /\ \A a \in Admins : fsm[a].path \in {NoFile, fsm[a].id}
  /\ \A t \in Taps : tap[t].file \in {NoFile, tap[t].asked}

\* Nothing is saved before the dump ends.
Early == {"confirmed", "inspect", "dump", "dumping"}
NotYetSaved == \A t \in Taps : tap[t].pc \in Early => tap[t].saved = FALSE

\* A confirmed upload had its button, so that its content is settled; past the
\* inspection it is an archive; a refused tap has no file.
Genuine ==
  \A t \in Taps :
    /\ tap[t].pc \notin Passive => tap[t].asked \in buttons
    /\ tap[t].pc \in Passive => tap[t].file = NoFile
    /\ tap[t].pc \in Critical \ {"inspect"} => content[tap[t].file] \in Archives

IInv ==
  /\ TypeOK
  /\ FlagHasOwner /\ RestoresAlone /\ DumpSoFar /\ NotYetSaved
  /\ OneUpload /\ RestoredIsConfirmed /\ Genuine
  /\ ServesTables /\ Actors

-----------------------------------------------------------------------------
(* The schema.                                                             *)

LEMMA ChainTyped ==
  ASSUME NEW n \in Chain
  PROVE  n \in Nat \ {0} /\ 1..n \subseteq Chain
  BY ChainAssumption

LEMMA UpgradedTyped ==
  ASSUME NEW have \in SUBSET Chain, NEW rev \in Chain \cup {0}, NEW n \in Chain
  PROVE  /\ Upgraded(have, rev, n) \in Schemas
         /\ have \subseteq Upgraded(have, rev, n).have
  <1>1. 1..n \subseteq Chain
    BY ChainTyped
  <1>2. Pending(rev, n) \subseteq Chain
    BY <1>1 DEF Pending
  <1> QED BY <1>2 DEF Upgraded, Schema, Schemas

LEMMA EnsuredTyped ==
  ASSUME NEW have \in SUBSET Chain, NEW rev \in Chain \cup {0}, NEW n \in Chain,
         NEW onStart \in BOOLEAN, NEW autocreate \in BOOLEAN
  PROVE  /\ EnsureSchema(have, rev, n, onStart, autocreate) \in Schemas
         /\ have \subseteq EnsureSchema(have, rev, n, onStart, autocreate).have
  <1> DEFINE due == onStart \/ MissingTables(have, n) # {}
             first == IF due THEN Upgraded(have, rev, n) ELSE Schema(have, rev)
  <1>1. first \in Schemas /\ have \subseteq first.have
    BY UpgradedTyped DEF Schema, Schemas
  <1>2. 1..n \subseteq Chain
    BY ChainTyped
  <1>3. EnsureSchema(have, rev, n, onStart, autocreate) =
          IF autocreate THEN Schema(CreatedFromOrm(first.have, n), first.rev) ELSE first
    BY DEF EnsureSchema
  <1> HIDE DEF first
  <1> QED BY <1>1, <1>2, <1>3 DEF CreatedFromOrm, Schema, Schemas

\* What ensure_schema does not refuse has every table afterwards.
LEMMA UsableIsWhole ==
  ASSUME NEW have \in SUBSET Chain, NEW rev \in Chain \cup {0}, NEW n \in Chain,
         NEW onStart \in BOOLEAN, NEW autocreate \in BOOLEAN,
         SchemaUsable(have, rev, n, autocreate)
  PROVE  MissingTables(EnsureSchema(have, rev, n, onStart, autocreate).have, n) = {}
  <1> DEFINE due == onStart \/ MissingTables(have, n) # {}
             first == IF due THEN Upgraded(have, rev, n) ELSE Schema(have, rev)
  <1>1. EnsureSchema(have, rev, n, onStart, autocreate) =
          IF autocreate THEN Schema(CreatedFromOrm(first.have, n), first.rev) ELSE first
    BY DEF EnsureSchema
  <1>2. CASE autocreate
    <2>1. EnsureSchema(have, rev, n, onStart, autocreate).have = CreatedFromOrm(first.have, n)
      BY <1>1, <1>2 DEF Schema
    <2> HIDE DEF first
    <2> QED BY <2>1 DEF CreatedFromOrm, MissingTables, Tables
  <1>3. CASE ~autocreate
    <2>1. EnsureSchema(have, rev, n, onStart, autocreate) = first
      BY <1>1, <1>3
    <2>2. MissingTables(Upgraded(have, rev, n).have, n) = {}
      BY <1>3 DEF SchemaUsable
    <2>3. ~due => first.have = have /\ MissingTables(have, n) = {}
      BY DEF Schema
    <2>4. due => first = Upgraded(have, rev, n)
      OBVIOUS
    <2> HIDE DEF first, due
    <2> QED BY <2>1, <2>2, <2>3, <2>4
  <1> QED BY <1>2, <1>3

LEMMA MoreTables ==
  ASSUME NEW have, NEW more, NEW n, have \subseteq more, MissingTables(have, n) = {}
  PROVE  MissingTables(more, n) = {}
  BY DEF MissingTables

-----------------------------------------------------------------------------
(* Typing.                                                                 *)

LEMMA SiteTyped ==
  ASSUME site \in Sites
  PROVE  /\ site.schema \in Schemas /\ site.data \in Data
         /\ site.head \in Chain /\ site.heads \in Chain
         /\ site.onStart \in BOOLEAN /\ site.autocreate \in BOOLEAN
         /\ site.files \subseteq Archives \cup {Damaged}
         /\ site.uploads \subseteq Uploads /\ site.admins \subseteq Admins
         /\ site.renamed \subseteq Admins /\ site.taps \subseteq Taps
  <1>1. site \in Deployment
    BY BotAssumption
  <1> QED BY <1>1 DEF Deployment

LEMMA Rests ==
  /\ NoUpdate \in Updates /\ NoUpdate.pc = "idle"
  /\ NoRestore \in Restores /\ NoRestore.pc = "idle" /\ NoRestore.clean = FALSE
  /\ NoRestore.file = NoFile /\ NoRestore.saved = FALSE
  /\ NoDialogue \in Dialogues /\ NoDialogue.path = NoFile
  <1>1. [plans |-> {}, days |-> {}, users |-> {}] \in Data
    BY DEF Data
  <1> QED BY <1>1 DEF NoUpdate, Updates, UpdatePCs, Wishes, NoRestore, Restores, TapPCs,
                      NoDialogue, Dialogues

LEMMA InitTyped == Init => TypeOK
  <1> SUFFICES ASSUME Init
               PROVE  TypeOK
    OBVIOUS
  <1>1. site \in Sites
    BY DEF Init
  <1> QED BY <1>1, SiteTyped, Rests DEF Init, TypeOK

LEMMA GotoTyped ==
  ASSUME TypeOK, NEW t \in Taps, NEW pc \in TapPCs, Goto(t, pc)
  PROVE  /\ tap' \in [Taps -> Restores]
         /\ tap'[t] = [tap[t] EXCEPT !.pc = pc]
         /\ \A s \in Taps \ {t} : tap'[s] = tap[s]
  BY DEF TypeOK, Goto, Restores

LEMMA TouchTyped ==
  ASSUME TypeOK, NEW a \in Admins, NEW alive, TouchProfile(a, alive)
  PROVE  /\ data' \in Data
         /\ data'.plans = data.plans /\ data'.days = data.days
         /\ data.users \subseteq data'.users
  <1>1. data \in Data
    BY DEF TypeOK
  <1> QED BY <1>1 DEF TouchProfile, Data

\* An update moves on.
LEMMA UpdTyped ==
  ASSUME TypeOK, NEW h \in Handlers, NEW pc \in UpdatePCs,
         upd' = [upd EXCEPT ![h].pc = pc] \/ upd' = [upd EXCEPT ![h] = NoUpdate]
  PROVE  upd' \in [Handlers -> Updates]
  <1>1. upd \in [Handlers -> Updates]
    BY DEF TypeOK
  <1>2. CASE upd' = [upd EXCEPT ![h].pc = pc]
    BY <1>1, <1>2 DEF Updates
  <1>3. CASE upd' = [upd EXCEPT ![h] = NoUpdate]
    BY <1>1, <1>3, Rests
  <1> QED BY <1>2, <1>3

\* The dialogue of an admin is set, partly or as a whole.
LEMMA DialogueTyped ==
  ASSUME TypeOK, NEW a \in Admins, NEW u,
         \/ fsm' = fsm
         \/ fsm' = [fsm EXCEPT ![a].state = "file", ![a].path = NoFile]
         \/ fsm' = [fsm EXCEPT ![a] = NoDialogue]
         \/ /\ u \in Uploads
            /\ fsm' = [fsm EXCEPT ![a] = [state |-> "confirm", path |-> u, id |-> u]]
  PROVE  /\ fsm' \in [Admins -> Dialogues]
         /\ (\A b \in Admins : fsm[b].path \in {NoFile, fsm[b].id})
              => \A b \in Admins : fsm'[b].path \in {NoFile, fsm'[b].id}
  <1>1. fsm \in [Admins -> Dialogues]
    BY DEF TypeOK
  <1>2. CASE fsm' = fsm
    BY <1>1, <1>2
  <1>3. CASE fsm' = [fsm EXCEPT ![a].state = "file", ![a].path = NoFile]
    <2>1. /\ fsm'[a] = [fsm[a] EXCEPT !.state = "file", !.path = NoFile]
          /\ \A b \in Admins \ {a} : fsm'[b] = fsm[b]
          /\ DOMAIN fsm' = Admins
      BY <1>1, <1>3
    <2>2. fsm[a] \in Dialogues
      BY <1>1
    <2>3. fsm'[a] = [state |-> "file", path |-> NoFile, id |-> fsm[a].id]
      BY <2>1, <2>2 DEF Dialogues
    <2>4. fsm'[a] \in Dialogues /\ fsm'[a].path = NoFile
      BY <2>2, <2>3 DEF Dialogues
    <2> QED BY <1>1, <1>3, <2>1, <2>4
  <1>4. CASE fsm' = [fsm EXCEPT ![a] = NoDialogue]
    BY <1>1, <1>4, Rests
  <1>5. CASE /\ u \in Uploads
             /\ fsm' = [fsm EXCEPT ![a] = [state |-> "confirm", path |-> u, id |-> u]]
    <2>1. [state |-> "confirm", path |-> u, id |-> u] \in Dialogues
      BY <1>5 DEF Dialogues
    <2> QED BY <1>1, <1>5, <2>1
  <1> QED BY <1>2, <1>3, <1>4, <1>5

-----------------------------------------------------------------------------
(* Updates at work.                                                        *)

\* What a step of an update that is under way leaves as it was, and keeps.
Works(h) ==
  /\ ~Up(h, "idle")
  /\ UNCHANGED <<site, phase, head, schema, flag, tap, content>>
  /\ buttons \subseteq buttons'
  /\ (\A a \in Admins : fsm[a].path \in {NoFile, fsm[a].id})
       => \A a \in Admins : fsm'[a].path \in {NoFile, fsm'[a].id}

LEMMA WorkTyped ==
  ASSUME TypeOK, Actors, NEW h \in Handlers, Work(h)
  PROVE  TypeOK' /\ Works(h)
  <1>1. CASE Query(h)
    <2>1. upd' = [upd EXCEPT ![h].pc = "tx"] /\ "tx" \in UpdatePCs /\ upd[h].pc = "admitted"
      BY <1>1 DEF Query, UpdatePCs, Up
    <2>2. upd' \in [Handlers -> Updates]
      BY <2>1, UpdTyped
    <2> QED BY <1>1, <2>1, <2>2 DEF Query, TypeOK, Works, Up, Deployed, Database, Conversation
  <1>2. CASE Enqueue(h)
    <2>1. upd' = [upd EXCEPT ![h].pc = "queued"] /\ "queued" \in UpdatePCs /\ upd[h].pc = "tx"
      BY <1>2 DEF Enqueue, UpdatePCs, Up
    <2>2. upd' \in [Handlers -> Updates]
      BY <2>1, UpdTyped
    <2> QED BY <1>2, <2>1, <2>2 DEF Enqueue, TypeOK, Works, Up, Deployed, Database, Conversation
  <1>3. CASE StartRender(h)
    <2>1. upd' = [upd EXCEPT ![h].pc = "rendering"] /\ "rendering" \in UpdatePCs
          /\ upd[h].pc = "queued"
      BY <1>3 DEF StartRender, UpdatePCs, Up
    <2>2. upd' \in [Handlers -> Updates]
      BY <2>1, UpdTyped
    <2> QED BY <1>3, <2>1, <2>2 DEF StartRender, TypeOK, Works, Up, Deployed, Database, Conversation
  <1>4. CASE EndRender(h)
    <2>1. upd' = [upd EXCEPT ![h].pc = "saving"] /\ "saving" \in UpdatePCs
          /\ upd[h].pc = "rendering"
      BY <1>4 DEF EndRender, UpdatePCs, Up
    <2>2. upd' \in [Handlers -> Updates]
      BY <2>1, UpdTyped
    <2> QED BY <1>4, <2>1, <2>2 DEF EndRender, TypeOK, Works, Up, Deployed, Database, Conversation
  <1>5. CASE Commit(h)
    <2>1. upd' = [upd EXCEPT ![h] = NoUpdate] /\ "idle" \in UpdatePCs
          /\ upd[h].pc \in {"tx", "saving"} /\ upd[h].what \in Keys
      BY <1>5 DEF Commit, UpdatePCs
    <2>2. upd' \in [Handlers -> Updates]
      BY <2>1, UpdTyped
    <2>3. data' = [data EXCEPT !.plans = @ \cup {upd[h].what}, !.days = @ \cup {upd[h].what}]
      BY <1>5 DEF Commit
    <2>4. data \in Data
      BY DEF TypeOK
    <2>5. data' \in Data
      BY <2>1, <2>3, <2>4 DEF Data
    <2> QED BY <1>5, <2>1, <2>2, <2>5 DEF Commit, TypeOK, Works, Up, Deployed, Conversation
  <1>6. CASE Fail(h)
    <2>1. upd' = [upd EXCEPT ![h] = NoUpdate] /\ "idle" \in UpdatePCs
          /\ upd[h].pc \in {"tx", "saving"}
      BY <1>6 DEF Fail, UpdatePCs
    <2>2. upd' \in [Handlers -> Updates]
      BY <2>1, UpdTyped
    <2> QED BY <1>6, <2>1, <2>2 DEF Fail, TypeOK, Works, Up, Deployed, Database, Conversation
  <1>7. CASE Prompt(h)
    <2>1. upd' = [upd EXCEPT ![h] = NoUpdate] /\ "idle" \in UpdatePCs /\ upd[h].pc = "tx"
      BY <1>7 DEF Prompt, UpdatePCs, Up
    <2>2. upd' \in [Handlers -> Updates]
      BY <2>1, UpdTyped
    <2>3. fsm' = fsm \/ fsm' = [fsm EXCEPT ![upd[h].by].state = "file", ![upd[h].by].path = NoFile]
      BY <1>7 DEF Prompt
    <2>4. upd[h].by \in Admins
      BY <1>7, <2>1, BotAssumption DEF Prompt, Actors
    <2>5. data' \in Data
      BY <1>7, <2>4, TouchTyped DEF Prompt
    <2>6. fsm' \in [Admins -> Dialogues] /\ Works(h)
      BY <1>7, <2>1, <2>3, <2>4, DialogueTyped DEF Prompt, Works, Up, Deployed
    <2> QED BY <1>7, <2>2, <2>5, <2>6 DEF Prompt, TypeOK, Deployed
  <1>8. CASE Cancel(h)
    <2>1. upd' = [upd EXCEPT ![h] = NoUpdate] /\ "idle" \in UpdatePCs /\ upd[h].pc = "tx"
      BY <1>8 DEF Cancel, UpdatePCs, Up
    <2>2. upd' \in [Handlers -> Updates]
      BY <2>1, UpdTyped
    <2>3. fsm' = [fsm EXCEPT ![upd[h].by] = NoDialogue] /\ staged' \subseteq staged
      BY <1>8 DEF Cancel
    <2>4. upd[h].by \in Admins
      BY <1>8, <2>1, BotAssumption DEF Cancel, Actors
    <2>5. data' \in Data
      BY <1>8, <2>4, TouchTyped DEF Cancel
    <2>6. fsm' \in [Admins -> Dialogues] /\ Works(h)
      BY <1>8, <2>1, <2>3, <2>4, DialogueTyped DEF Cancel, Works, Up, Deployed
    <2> QED BY <1>8, <2>2, <2>3, <2>5, <2>6 DEF Cancel, TypeOK, Deployed
  <1>9. CASE Stage(h)
    <2>1. upd' = [upd EXCEPT ![h].pc = "saving"] /\ "saving" \in UpdatePCs /\ upd[h].pc = "tx"
      BY <1>9 DEF Stage, UpdatePCs, Up
    <2>2. upd' \in [Handlers -> Updates]
      BY <2>1, UpdTyped
    <2>3. staged' \subseteq Uploads
      BY <1>9 DEF Stage, TypeOK
    <2> QED BY <1>9, <2>1, <2>2, <2>3 DEF Stage, TypeOK, Works, Up, Deployed, Database
  <1>10. CASE EndUpload(h)
    <2> DEFINE u == upd[h].what
    <2>1. upd' = [upd EXCEPT ![h] = NoUpdate] /\ "idle" \in UpdatePCs /\ upd[h].pc = "saving"
      BY <1>10 DEF EndUpload, UpdatePCs, Up
    <2>2. upd' \in [Handlers -> Updates]
      BY <2>1, UpdTyped
    <2>3. /\ u \in Uploads
          /\ fsm' = fsm \/ fsm' = [fsm EXCEPT ![upd[h].by] = [state |-> "confirm", path |-> u, id |-> u]]
          /\ staged' \subseteq staged
          /\ buttons' \subseteq buttons \cup {u}
      BY <1>10 DEF EndUpload
    <2>4. staged' \subseteq Uploads /\ buttons' \subseteq Uploads
      BY <2>3 DEF TypeOK
    <2>5. upd[h].by \in Admins
      BY <2>1, <2>3, BotAssumption DEF Actors
    <2>6. data' \in Data
      BY <1>10, <2>5, TouchTyped DEF EndUpload
    <2> HIDE DEF u
    <2>7. fsm' \in [Admins -> Dialogues] /\ Works(h)
      BY <1>10, <2>1, <2>3, <2>5, DialogueTyped DEF EndUpload, Works, Up, Deployed
    <2> QED BY <1>10, <2>2, <2>4, <2>6, <2>7 DEF EndUpload, TypeOK, Deployed
  <1> QED BY <1>1, <1>2, <1>3, <1>4, <1>5, <1>6, <1>7, <1>8, <1>9, <1>10 DEF Work

LEMMA WorkActors ==
  ASSUME IInv, NEW h \in Handlers, Work(h), NEW g \in Handlers,
         upd'[g].pc # "idle", upd'[g].what \notin Keys
  PROVE  upd'[g].by \in Admins
  <1>0. upd \in [Handlers -> Updates]
    BY DEF IInv, TypeOK
  <1>1. /\ upd[h].pc # "idle"
        /\ \/ upd' = [upd EXCEPT ![h] = NoUpdate]
           \/ \E pc \in UpdatePCs : upd' = [upd EXCEPT ![h].pc = pc]
    BY DEF Work, Query, Enqueue, StartRender, EndRender, Commit, Fail, Prompt, Cancel, Stage,
           EndUpload, Up, UpdatePCs
  <1>2. CASE upd' = [upd EXCEPT ![h] = NoUpdate]
    <2>1. g # h /\ upd'[g] = upd[g]
      BY <1>0, <1>2, Rests
    <2> QED BY <2>1 DEF IInv, Actors
  <1>3. CASE \E pc \in UpdatePCs : upd' = [upd EXCEPT ![h].pc = pc]
    <2>1. /\ g # h => upd'[g] = upd[g]
          /\ g = h => upd'[g].what = upd[g].what /\ upd'[g].by = upd[g].by
      BY <1>0, <1>3 DEF Updates
    <2> QED BY <1>1, <2>1 DEF IInv, Actors
  <1> QED BY <1>1, <1>2, <1>3

\* Where an update is under way, no restore is alone.
LEMMA WorkKeeps ==
  ASSUME IInv, NEW h \in Handlers, Work(h)
  PROVE  IInv'
  <1>1. TypeOK' /\ Works(h)
    BY WorkTyped DEF IInv
  <1>2. UNCHANGED <<site, phase, head, schema, flag, tap>>
    BY <1>1 DEF Works
  <1>3. \A t \in Taps : ~Alone(t)
    BY <1>1 DEF IInv, RestoresAlone, Works
  <1>4. \A t \in Taps : ~Alone(t)'
    BY <1>2, <1>3 DEF Alone
  <1>5. RestoresAlone' /\ DumpSoFar'
    BY <1>4 DEF RestoresAlone, DumpSoFar, DumpOf
  <1>6. FlagHasOwner' /\ RestoredIsConfirmed' /\ ServesTables'
    BY <1>2 DEF IInv, FlagHasOwner, RestoredIsConfirmed, ServesTables, Running
  <1>7. OneUpload'
    BY <1>1, <1>2 DEF IInv, OneUpload, Works
  <1>8. NotYetSaved' /\ Genuine'
    BY <1>1, <1>2 DEF IInv, NotYetSaved, Genuine, Works
  <1>9. Actors'
    BY <1>2, WorkActors DEF IInv, Actors
  <1> QED BY <1>1, <1>5, <1>6, <1>7, <1>8, <1>9 DEF IInv

LEMMA AdmitKeeps ==
  ASSUME IInv, NEW h \in Handlers, Admit(h)
  PROVE  IInv'
  <1>1. Arrive(h) /\ ~flag /\ Serving
    BY DEF Admit, Arrive
  <1>2. UNCHANGED <<site, head, stops, phase, schema, data, flag, tap, fsm, staged, buttons, faults>>
    BY <1>1 DEF Arrive, Database
  <1>3. \A t \in Taps : ~Alone(t)' /\ ~Alone(t)
    BY <1>1, <1>2 DEF IInv, RestoresAlone, Alone
  <1>4. asked' \in Nat
    BY <1>1 DEF Arrive, IInv, TypeOK
  <1>5. ASSUME NEW what \in Wishes, NEW by \in Admins \cup {NoFile}, Asks(h, what, by)
        PROVE  upd' \in [Handlers -> Updates]
    <2>1. [NoUpdate EXCEPT !.pc = "admitted", !.what = what, !.by = by] \in Updates
      BY Rests DEF Updates, UpdatePCs
    <2>2. upd \in [Handlers -> Updates]
      BY DEF IInv, TypeOK
    <2> QED BY <1>5, <2>1, <2>2 DEF Asks
  <1>6. site.admins \subseteq Admins /\ site.uploads \subseteq Uploads
        /\ site.files \subseteq Archives \cup {Damaged}
    BY SiteTyped DEF IInv, TypeOK
  <1>7. upd' \in [Handlers -> Updates] /\ content' \in [Uploads -> Archives \cup {Damaged}]
    <2>0. content \in [Uploads -> Archives \cup {Damaged}]
      BY DEF IInv, TypeOK
    <2>1. CASE \E k \in Keys \ data.plans : Asks(h, k, NoFile) /\ UNCHANGED content
      <3>1. PICK k \in Keys : Asks(h, k, NoFile) /\ UNCHANGED content
        BY <2>1
      <3>2. k \in Wishes /\ NoFile \in Admins \cup {NoFile}
        BY DEF Wishes
      <3> QED BY <1>5, <2>0, <3>1, <3>2
    <2>2. ASSUME NEW a \in site.admins,
                 \/ Asks(h, "prompt", a) /\ UNCHANGED content
                 \/ Asks(h, "cancel", a) /\ UNCHANGED content
          PROVE  upd' \in [Handlers -> Updates] /\ content' \in [Uploads -> Archives \cup {Damaged}]
      <3>1. a \in Admins \cup {NoFile} /\ "prompt" \in Wishes /\ "cancel" \in Wishes
        BY <1>6, <2>2 DEF Wishes
      <3> QED BY <1>5, <2>0, <2>2, <3>1
    <2>3. ASSUME NEW a \in site.admins, NEW u \in site.uploads, NEW f \in site.files,
                 Asks(h, u, a), content' = [content EXCEPT ![u] = f]
          PROVE  upd' \in [Handlers -> Updates] /\ content' \in [Uploads -> Archives \cup {Damaged}]
      <3>1. a \in Admins \cup {NoFile} /\ u \in Wishes /\ f \in Archives \cup {Damaged}
        BY <1>6, <2>3 DEF Wishes
      <3> QED BY <1>5, <2>0, <2>3, <3>1
    <2> QED BY <1>1, <2>1, <2>2, <2>3 DEF Arrive
  <1>8. TypeOK'
    BY <1>2, <1>4, <1>7 DEF IInv, TypeOK
  <1>9. RestoresAlone' /\ DumpSoFar'
    BY <1>3 DEF RestoresAlone, DumpSoFar, DumpOf
  <1>10. \A v \in buttons : content'[v] = content[v]
    <2>1. content' = content \/ \E u \in site.uploads \ (staged \cup buttons), f \in site.files :
                                 content' = [content EXCEPT ![u] = f]
      BY <1>1 DEF Arrive
    <2> QED BY <2>1 DEF IInv, TypeOK
  <1>11. Genuine'
    <2>1. \A t \in Taps : tap[t].pc \in Critical \ {"inspect"} => tap[t].file \in buttons
      BY DEF IInv, Genuine, RestoredIsConfirmed, Critical, Passive
    <2> QED BY <1>2, <1>10, <2>1 DEF IInv, Genuine
  <1>12. Actors'
    <2>0. upd \in [Handlers -> Updates]
      BY DEF IInv, TypeOK
    <2>1. \E what, by : Asks(h, what, by) /\ (what \notin Keys => by \in Admins)
      BY <1>1, <1>6, SMTT(30) DEF Arrive
    <2>2. PICK what, by : Asks(h, what, by) /\ (what \notin Keys => by \in Admins)
      BY <2>1
    <2>3. /\ upd'[h].what = what /\ upd'[h].by = by
          /\ \A g \in Handlers \ {h} : upd'[g] = upd[g]
      BY <2>0, <2>2 DEF Asks, NoUpdate
    <2> QED BY <1>2, <2>2, <2>3 DEF IInv, Actors
  <1> QED BY <1>2, <1>8, <1>9, <1>11, <1>12
          DEF IInv, FlagHasOwner, RestoredIsConfirmed, ServesTables, Running, OneUpload,
              NotYetSaved

-----------------------------------------------------------------------------
(* Restores.                                                               *)

\* How one restore sees the step of another: where it is, as far as it matters,
\* and what it works with.
SeenSame(s) ==
  /\ tap'[s].pc = "idle" <=> tap[s].pc = "idle"
  /\ tap'[s].pc \in Passive <=> tap[s].pc \in Passive
  /\ tap'[s].pc \in Critical <=> tap[s].pc \in Critical
  /\ tap'[s].pc = "inspect" <=> tap[s].pc = "inspect"
  /\ tap'[s].clean = tap[s].clean
  /\ tap'[s].file = tap[s].file
  /\ tap'[s].asked = tap[s].asked /\ tap'[s].by = tap[s].by
  /\ tap'[s].pc \in Early => tap[s].pc \in Early
  /\ tap'[s].saved = tap[s].saved

\* A step inside the part that the flag protects.
Advances(t) ==
  /\ tap[t].pc \in Critical /\ tap'[t].pc \in Critical
  /\ tap'[t].clean = tap[t].clean
  /\ tap'[t].file = tap[t].file /\ tap'[t].asked = tap[t].asked /\ tap'[t].by = tap[t].by
  /\ tap'[t].pc # "inspect" => /\ tap[t].file = tap[t].asked
                               /\ content[tap[t].file] \in Archives
  /\ tap'[t].pc \in Early => tap'[t].saved = FALSE
  /\ DumpOf(t)'
  /\ \A s \in Taps \ {t} : SeenSame(s)
  /\ \A h \in Handlers :
       /\ upd'[h].pc = "idle" <=> upd[h].pc = "idle"
       /\ upd'[h].what = upd[h].what /\ upd'[h].by = upd[h].by
  /\ UNCHANGED <<site, phase, head, flag, fsm, content, buttons>>
  /\ schema.have \subseteq schema'.have

\* A restore that is alone is the only one that can move.
LEMMA AdvanceKeeps ==
  ASSUME IInv, NEW t \in Taps, Advances(t), TypeOK'
  PROVE  IInv'
  <1>1. ASSUME NEW s \in Taps \ {t}
        PROVE  ~Alone(s)'
    <2>1. SUFFICES ASSUME Alone(s)'
                   PROVE  FALSE
      OBVIOUS
    <2>2. Alone(s)
      BY <2>1 DEF Alone, Advances, SeenSame
    <2>3. tap[t].pc \in Passive
      BY <2>2 DEF IInv, RestoresAlone
    <2> QED BY <2>3 DEF Advances, Passive, Critical
  <1>2. Alone(t)' => Alone(t)
    BY DEF Alone, Advances
  <1>3. FlagHasOwner'
    BY DEF FlagHasOwner, Advances
  <1>4. RestoresAlone'
    <2>1. ASSUME Alone(t)'
          PROVE  /\ flag'
                 /\ \A h \in Handlers : Up(h, "idle")'
                 /\ \A s \in Taps \ {t} : tap'[s].pc \in Passive
      <3>1. /\ flag
            /\ \A h \in Handlers : Up(h, "idle")
            /\ \A s \in Taps \ {t} : tap[s].pc \in Passive
        BY <1>2, <2>1 DEF IInv, RestoresAlone
      <3> QED BY <3>1 DEF Advances, SeenSame, Up
    <2> QED BY <1>1, <2>1 DEF RestoresAlone
  <1>5. DumpSoFar'
    BY <1>1 DEF DumpSoFar, DumpOf, Advances
  <1>6. OneUpload'
    <2>1. \A s \in Taps : tap'[s].file = tap[s].file /\ tap'[s].asked = tap[s].asked
      BY DEF Advances, SeenSame
    <2> QED BY <2>1 DEF IInv, OneUpload, Advances
  <1>7. RestoredIsConfirmed'
    BY DEF IInv, RestoredIsConfirmed, Advances, SeenSame
  <1>8. ServesTables'
    <2>1. MissingTables(schema.have, head) = {} => MissingTables(schema'.have, head) = {}
      BY MoreTables DEF Advances
    <2> QED BY <2>1 DEF IInv, ServesTables, Running, Advances
  <1>9. NotYetSaved'
    BY DEF IInv, NotYetSaved, Advances, SeenSame
  <1>10. Genuine'
    BY DEF IInv, Genuine, Advances, SeenSame, Critical, Passive
  <1>11. Actors'
    BY DEF IInv, Actors, Advances, SeenSame, Critical
  <1> QED BY <1>3, <1>4, <1>5, <1>6, <1>7, <1>8, <1>9, <1>10, <1>11 DEF IInv

\* A restore leaves that part, or goes on behind it.
Leaves(t) ==
  /\ tap[t].pc \notin Passive /\ tap'[t].pc \in {"idle", "report"}
  /\ tap'[t].pc # "idle" => tap'[t].asked = tap[t].asked /\ tap'[t].by = tap[t].by
  /\ tap'[t].file \in {NoFile, tap'[t].asked}
  /\ tap'[t].pc = "idle" => tap'[t].file = NoFile
  /\ \A s \in Taps \ {t} : tap'[s] = tap[s]
  /\ flag' = FALSE \/ (flag' = flag /\ tap[t].pc \notin Critical)
  /\ UNCHANGED <<site, phase, head, schema, upd, content, buttons>>
  /\ (\A a \in Admins : fsm[a].path \in {NoFile, fsm[a].id})
       => \A a \in Admins : fsm'[a].path \in {NoFile, fsm'[a].id}

LEMMA LeaveKeeps ==
  ASSUME IInv, NEW t \in Taps, Leaves(t), TypeOK'
  PROVE  IInv'
  <1>0. tap'[t].pc \notin Critical /\ tap'[t].pc \notin Early
    BY DEF Leaves, Critical, Early
  <1>1. ASSUME NEW s \in Taps
        PROVE  ~Alone(s)'
    <2>1. SUFFICES ASSUME Alone(s)'
                   PROVE  FALSE
      OBVIOUS
    <2>2. s # t
      BY <1>0, <2>1 DEF Alone
    <2>3. Alone(s)
      BY <2>1, <2>2 DEF Alone, Leaves
    <2>4. tap[t].pc \in Passive
      BY <2>2, <2>3 DEF IInv, RestoresAlone
    <2> QED BY <2>4 DEF Leaves
  <1>2. FlagHasOwner'
    <2>1. SUFFICES ASSUME flag'
                   PROVE  \E s \in Taps : tap'[s].pc \in Critical
      BY DEF FlagHasOwner
    <2>2. flag /\ tap[t].pc \notin Critical
      BY <2>1 DEF Leaves
    <2>3. PICK s \in Taps : tap[s].pc \in Critical
      BY <2>2 DEF IInv, FlagHasOwner
    <2> QED BY <2>2, <2>3 DEF Leaves
  <1>3. RestoresAlone' /\ DumpSoFar'
    BY <1>1 DEF RestoresAlone, DumpSoFar, DumpOf
  <1>4. OneUpload'
    BY DEF IInv, OneUpload, Leaves
  <1>5. RestoredIsConfirmed'
    BY <1>0 DEF IInv, RestoredIsConfirmed, Leaves
  <1>6. ServesTables'
    BY DEF IInv, ServesTables, Running, Leaves
  <1>7. NotYetSaved' /\ Genuine'
    BY <1>0 DEF IInv, NotYetSaved, Genuine, Leaves, Passive
  <1>8. Actors'
    BY DEF IInv, Actors, Leaves, Passive
  <1> QED BY <1>2, <1>3, <1>4, <1>5, <1>6, <1>7, <1>8 DEF IInv

\* A tap takes its first step: the others do not move.
TakesTap(t, r) ==
  /\ tap' = [tap EXCEPT ![t] = r]
  /\ r \in Restores /\ r.pc \in {"confirmed", "refused"}
  /\ r.clean = FALSE /\ r.saved = FALSE
  /\ r.by \in Admins /\ r.file \in {NoFile, r.asked}
  /\ r.pc = "refused" => r.file = NoFile

LEMMA TakeKeeps ==
  ASSUME IInv, NEW t \in Taps, NEW r, TakesTap(t, r), At(t, "idle"),
         r.pc = "confirmed" => ~flag /\ r.asked \in buttons,
         UNCHANGED <<site, head, stops, asked, phase, schema, data, flag, upd, content,
                     buttons, faults>>,
         fsm' \in [Admins -> Dialogues], staged' \subseteq staged,
         \A b \in Admins : fsm'[b].path \in {NoFile, fsm'[b].id}
  PROVE  IInv'
  <1>1. tap \in [Taps -> Restores]
    BY DEF IInv, TypeOK
  <1>2. /\ tap' \in [Taps -> Restores] /\ tap'[t] = r
        /\ \A s \in Taps \ {t} : tap'[s] = tap[s]
    BY <1>1 DEF TakesTap
  <1>3. /\ r.pc \notin Critical /\ r.clean = FALSE /\ r.saved = FALSE
        /\ r.by \in Admins /\ r.file \in {NoFile, r.asked}
        /\ r.pc # "confirmed" => r.pc \in Passive /\ r.file = NoFile
        /\ r.pc = "confirmed" => r.pc \notin Passive
    BY DEF TakesTap, Critical, Passive
  <1>4. TypeOK'
    BY <1>2 DEF IInv, TypeOK
  <1>5. \A s \in Taps : Alone(s)' => s # t /\ Alone(s)
    BY <1>2, <1>3 DEF Alone
  <1>6. RestoresAlone'
    <2>1. ASSUME NEW s \in Taps, Alone(s)'
          PROVE  /\ flag'
                 /\ \A h \in Handlers : Up(h, "idle")'
                 /\ \A o \in Taps \ {s} : tap'[o].pc \in Passive
      <3>1. Alone(s) /\ s # t
        BY <1>5, <2>1
      <3>2. /\ flag /\ \A h \in Handlers : Up(h, "idle")
            /\ \A o \in Taps \ {s} : tap[o].pc \in Passive
        BY <3>1 DEF IInv, RestoresAlone
      <3>3. r.pc \in Passive
        BY <1>3, <3>2
      <3> QED BY <1>2, <3>2, <3>3 DEF Up
    <2> QED BY <2>1 DEF RestoresAlone
  <1>7. DumpSoFar'
    BY <1>2, <1>5 DEF IInv, DumpSoFar, DumpOf, HoldsTables, At
  <1>8. FlagHasOwner'
    BY <1>2, <1>3 DEF IInv, FlagHasOwner, At, Critical
  <1>9. OneUpload' /\ RestoredIsConfirmed'
    BY <1>2, <1>3 DEF IInv, OneUpload, RestoredIsConfirmed
  <1>10. NotYetSaved' /\ Genuine'
    BY <1>2, <1>3 DEF IInv, NotYetSaved, Genuine
  <1>11. Actors'
    BY <1>2, <1>3 DEF IInv, Actors
  <1> QED BY <1>4, <1>6, <1>7, <1>8, <1>9, <1>10, <1>11 DEF IInv, ServesTables, Running

LEMMA RefusedTaken ==
  ASSUME NEW t \in Taps, NEW a \in Admins, Refuses(t, a)
  PROVE  \E r : TakesTap(t, r) /\ r.pc = "refused" /\ r.file = NoFile
  <1> DEFINE r == [NoRestore EXCEPT !.pc = "refused", !.by = a, !.own = TRUE]
  <1>1. /\ r \in Restores /\ r.pc = "refused" /\ r.clean = FALSE /\ r.saved = FALSE
        /\ r.by = a /\ r.file = NoFile
    BY Rests DEF Restores, TapPCs
  <1>2. tap' = [tap EXCEPT ![t] = r]
    BY DEF Refuses
  <1> HIDE DEF r
  <1>3. TakesTap(t, r)
    BY <1>1, <1>2 DEF TakesTap
  <1> QED BY <1>1, <1>3

LEMMA PassedTaken ==
  ASSUME IInv, NEW t \in Taps, NEW a \in Admins, NEW u \in buttons, fsm[a].id = u,
         Passes(t, a, u)
  PROVE  \E r : TakesTap(t, r) /\ r.pc = "confirmed" /\ r.asked = u
  <1> DEFINE r == [NoRestore EXCEPT !.pc = "confirmed", !.by = a, !.asked = u,
                                    !.file = fsm[a].path, !.own = TRUE]
  <1>1. u \in Uploads /\ fsm \in [Admins -> Dialogues]
    BY DEF IInv, TypeOK
  <1>2. fsm[a].path \in {NoFile, u} /\ fsm[a].path \in Uploads \cup {NoFile}
    BY <1>1 DEF IInv, OneUpload, Dialogues
  <1>3. /\ r \in Restores /\ r.pc = "confirmed" /\ r.clean = FALSE /\ r.saved = FALSE
        /\ r.by = a /\ r.asked = u /\ r.file \in {NoFile, r.asked}
    BY <1>1, <1>2, Rests DEF Restores, TapPCs
  <1>4. tap' = [tap EXCEPT ![t] = r]
    BY DEF Passes
  <1> HIDE DEF r
  <1>5. TakesTap(t, r)
    BY <1>3, <1>4 DEF TakesTap
  <1> QED BY <1>3, <1>5

LEMMA ConfirmKeeps ==
  ASSUME IInv, NEW t \in Taps, NEW a \in Admins, Confirm(t, a)
  PROVE  IInv'
  <1>1. /\ At(t, "idle")
        /\ UNCHANGED <<site, head, stops, asked, phase, schema, data, flag, upd, content,
                       buttons, faults>>
    BY DEF Confirm, Visits, Deployed, Database
  <1>2. PICK u \in buttons :
          \/ flag /\ Refuses(t, a) /\ UNCHANGED <<fsm, staged>>
          \/ ~flag /\ fsm[a].id = u /\ Passes(t, a, u)
          \/ /\ Refuses(t, a)
             /\ fsm' = [fsm EXCEPT ![a] = NoDialogue]
             /\ staged' = staged \ {fsm[a].path}
    BY DEF Confirm
  <1>3. fsm \in [Admins -> Dialogues] /\ \A b \in Admins : fsm[b].path \in {NoFile, fsm[b].id}
    BY DEF IInv, TypeOK, OneUpload
  <1>4. CASE ~flag /\ fsm[a].id = u /\ Passes(t, a, u)
    <2>1. UNCHANGED <<fsm, staged>>
      BY <1>4 DEF Passes
    <2>2. PICK r : TakesTap(t, r) /\ r.pc = "confirmed" /\ r.asked = u
      BY <1>4, PassedTaken
    <2> QED BY <1>1, <1>3, <1>4, <2>1, <2>2, TakeKeeps
  <1>5. CASE Refuses(t, a) /\ UNCHANGED <<fsm, staged>>
    <2>1. PICK r : TakesTap(t, r) /\ r.pc = "refused"
      BY <1>5, RefusedTaken
    <2> QED BY <1>1, <1>3, <1>5, <2>1, TakeKeeps
  <1>6. CASE /\ Refuses(t, a) /\ fsm' = [fsm EXCEPT ![a] = NoDialogue]
             /\ staged' = staged \ {fsm[a].path}
    <2>1. PICK r : TakesTap(t, r) /\ r.pc = "refused"
      BY <1>6, RefusedTaken
    <2>2. fsm' \in [Admins -> Dialogues]
          /\ \A b \in Admins : fsm'[b].path \in {NoFile, fsm'[b].id}
      BY <1>3, <1>6, DialogueTyped DEF IInv
    <2>3. staged' \subseteq staged
      BY <1>6
    <2> QED BY <1>1, <2>1, <2>2, <2>3, TakeKeeps
  <1> QED BY <1>2, <1>4, <1>5, <1>6

\* The commit of a refused tap, beside a restore that may be alone: a users row at most.
LEMMA LeaveTapKeeps ==
  ASSUME IInv, NEW t \in Taps, LeaveTap(t)
  PROVE  IInv'
  <1>1. /\ tap[t].pc = "refused" /\ tap' = [tap EXCEPT ![t] = NoRestore]
        /\ TouchProfile(tap[t].by, tap[t].own)
        /\ UNCHANGED <<site, head, stops, asked, phase, schema, flag, upd, fsm, staged,
                       content, buttons, faults>>
    BY DEF LeaveTap, At, Deployed, Conversation
  <1>2. tap \in [Taps -> Restores] /\ tap[t].by \in Admins
    BY <1>1 DEF IInv, TypeOK, Actors
  <1>3. /\ data' \in Data
        /\ data'.plans = data.plans /\ data'.days = data.days
        /\ data.users \subseteq data'.users
    BY <1>1, <1>2, TouchTyped DEF IInv
  <1>4. /\ tap' \in [Taps -> Restores] /\ tap'[t] = NoRestore
        /\ \A s \in Taps \ {t} : tap'[s] = tap[s]
    BY <1>1, <1>2, Rests
  <1>5. TypeOK'
    BY <1>1, <1>3, <1>4 DEF IInv, TypeOK
  <1>6. \A s \in Taps : Alone(s)' => s # t /\ Alone(s)
    BY <1>4, Rests DEF Alone
  <1>7. RestoresAlone'
    BY <1>1, <1>4, <1>6, Rests DEF IInv, RestoresAlone, Up, Passive
  <1>8. DumpSoFar'
    <2>1. ASSUME NEW s \in Taps
          PROVE  DumpOf(s)'
      <3>1. SUFFICES ASSUME Alone(s)'
                     PROVE  /\ At(s, "dumping")' => HoldsTables(tap[s].dump)'
                            /\ tap'[s].saved /\ tap'[s].pc \in {"dumped", "load", "loading"}
                                 => HoldsTables(tap[s].dump)' /\ tap'[s].dump.days = data'.days
        BY <1>6 DEF DumpOf
      <3>2. tap'[s] = tap[s] /\ Alone(s)
        BY <1>4, <1>6, <3>1
      <3> QED BY <1>3, <3>2 DEF IInv, DumpSoFar, DumpOf, HoldsTables, At
    <2> QED BY <2>1 DEF DumpSoFar
  <1>9. FlagHasOwner'
    BY <1>1, <1>4 DEF IInv, FlagHasOwner, Critical
  <1>10. OneUpload' /\ RestoredIsConfirmed' /\ NotYetSaved' /\ Genuine'
    BY <1>1, <1>4, Rests DEF IInv, OneUpload, RestoredIsConfirmed, NotYetSaved, Genuine,
                             Critical, Passive, Early
  <1>11. Actors'
    BY <1>1, <1>4, Rests DEF IInv, Actors
  <1> QED BY <1>1, <1>5, <1>7, <1>8, <1>9, <1>10, <1>11 DEF IInv, ServesTables, Running

LEMMA RaiseKeeps ==
  ASSUME IInv, NEW t \in Taps, RaiseFlag(t)
  PROVE  IInv'
  <1> DEFINE clean == /\ \A h \in Handlers : Up(h, "idle")
                      /\ \A o \in Taps \ {t} : tap[o].pc \in Passive
  <1> HIDE DEF clean
  <1>1. /\ tap[t].pc = "confirmed" /\ flag' = TRUE
        /\ tap' = [s \in Taps |-> IF s = t THEN [tap[t] EXCEPT !.pc = "inspect", !.clean = clean]
                                ELSE [tap[s] EXCEPT !.clean = FALSE]]
        /\ UNCHANGED <<site, head, stops, asked, phase, schema, data, upd, fsm, staged,
                       content, buttons, faults>>
    BY DEF RaiseFlag, At, Deployed, Database, Conversation, clean
  <1>2. tap \in [Taps -> Restores] /\ clean \in BOOLEAN
    BY DEF IInv, TypeOK, clean
  <1>3. /\ tap'[t] = [tap[t] EXCEPT !.pc = "inspect", !.clean = clean]
        /\ \A s \in Taps \ {t} : tap'[s] = [tap[s] EXCEPT !.clean = FALSE]
    BY <1>1
  <1>4. tap' \in [Taps -> Restores]
    <2>1. ASSUME NEW s \in Taps
          PROVE  tap'[s] \in Restores
      <3>1. tap[s] \in Restores
        BY <1>2
      <3>2. CASE s = t
        <4>1. tap'[s] = [tap[s] EXCEPT !.pc = "inspect", !.clean = clean]
          BY <1>3, <3>2
        <4> QED BY <1>2, <3>1, <4>1 DEF Restores, TapPCs
      <3>3. CASE s # t
        <4>1. tap'[s] = [tap[s] EXCEPT !.clean = FALSE]
          BY <1>3, <3>3
        <4> QED BY <3>1, <4>1 DEF Restores
      <3> QED BY <3>2, <3>3
    <2> QED BY <1>1, <2>1
  <1>5. /\ tap'[t].pc = "inspect" /\ tap'[t].clean = clean /\ tap'[t].saved = tap[t].saved
        /\ tap'[t].file = tap[t].file /\ tap'[t].asked = tap[t].asked
        /\ tap'[t].by = tap[t].by
    BY <1>2, <1>3 DEF Restores
  <1>6. \A s \in Taps \ {t} : /\ tap'[s].pc = tap[s].pc /\ tap'[s].clean = FALSE
                              /\ tap'[s].saved = tap[s].saved /\ tap'[s].by = tap[s].by
                              /\ tap'[s].file = tap[s].file /\ tap'[s].asked = tap[s].asked
    <2> TAKE s \in Taps \ {t}
    <2>1. tap[s] \in Restores /\ tap'[s] = [tap[s] EXCEPT !.clean = FALSE]
      BY <1>2, <1>3
    <2> QED BY <2>1 DEF Restores
  <1>7. TypeOK'
    BY <1>1, <1>4 DEF IInv, TypeOK
  <1>8. FlagHasOwner'
    BY <1>5 DEF FlagHasOwner, Critical
  <1>9. \A s \in Taps \ {t} : ~Alone(s)'
    BY <1>6 DEF Alone
  <1>10. RestoresAlone'
    <2>1. ASSUME Alone(t)'
          PROVE  /\ \A h \in Handlers : Up(h, "idle")'
                 /\ \A s \in Taps \ {t} : tap'[s].pc \in Passive
      <3>1. clean
        BY <1>5, <2>1 DEF Alone
      <3> QED BY <1>1, <1>6, <3>1 DEF clean, Up
    <2> QED BY <1>1, <1>9, <2>1 DEF RestoresAlone
  <1>11. DumpSoFar'
    BY <1>5, <1>9 DEF DumpSoFar, DumpOf, At
  <1>12. OneUpload' /\ RestoredIsConfirmed'
    BY <1>1, <1>5, <1>6 DEF IInv, OneUpload, RestoredIsConfirmed
  <1>13. NotYetSaved' /\ Genuine'
    BY <1>1, <1>5, <1>6 DEF IInv, NotYetSaved, Genuine, Early, Passive
  <1>14. Actors'
    BY <1>1, <1>5, <1>6 DEF IInv, Actors
  <1> QED BY <1>1, <1>7, <1>8, <1>10, <1>11, <1>12, <1>13, <1>14 DEF IInv, ServesTables, Running

\* A step that only moves the pc, inside the protected part, and maybe the
\* schema or, past the dump, the data.
LEMMA GotoAdvances ==
  ASSUME IInv, NEW t \in Taps, NEW pc \in Critical \ {"inspect", "dumping"}, Goto(t, pc),
         tap[t].pc \in Critical,
         tap[t].file = tap[t].asked, content[tap[t].file] \in Archives,
         pc = "dump" => tap[t].pc = "inspect",
         tap[t].saved /\ pc \in {"dumped", "load", "loading"} =>
           tap[t].pc \in {"dumped", "load"} /\ data' = data,
         UNCHANGED <<site, phase, head, flag, fsm, content, buttons, upd>>,
         schema.have \subseteq schema'.have
  PROVE  Advances(t) /\ tap' \in [Taps -> Restores]
  <1>1. pc \in TapPCs
    BY DEF Critical, TapPCs
  <1>2. /\ tap' \in [Taps -> Restores]
        /\ tap'[t] = [tap[t] EXCEPT !.pc = pc]
        /\ \A s \in Taps \ {t} : tap'[s] = tap[s]
    BY <1>1, GotoTyped DEF IInv
  <1>3. tap[t] \in Restores
    BY DEF IInv, TypeOK
  <1>4. /\ tap'[t].pc = pc /\ tap'[t].clean = tap[t].clean /\ tap'[t].saved = tap[t].saved
        /\ tap'[t].file = tap[t].file /\ tap'[t].asked = tap[t].asked
        /\ tap'[t].dump = tap[t].dump /\ tap'[t].by = tap[t].by
    BY <1>2, <1>3 DEF Restores
  <1>5. Alone(t)' => Alone(t)
    BY <1>4 DEF Alone
  <1>6. DumpOf(t)'
    BY <1>4, <1>5 DEF DumpOf, HoldsTables, At, IInv, DumpSoFar
  <1>7. \A s \in Taps \ {t} : SeenSame(s)
    BY <1>2 DEF SeenSame
  <1>8. tap'[t].pc \in Early => tap'[t].saved = FALSE
    BY <1>4 DEF IInv, NotYetSaved, Early, Critical
  <1> QED BY <1>2, <1>4, <1>6, <1>7, <1>8 DEF Advances

LEMMA ConfirmedFile ==
  ASSUME IInv, NEW t \in Taps, tap[t].pc \in Critical \ {"inspect"}
  PROVE  tap[t].file = tap[t].asked /\ content[tap[t].file] \in Archives
  BY DEF IInv, RestoredIsConfirmed, Genuine

\* A RestoreError.
LEMMA AbortLeaves ==
  ASSUME IInv, NEW t \in Taps, tap[t].pc \in Critical, Abort(t)
  PROVE  IInv'
  <1>1. /\ flag' = FALSE
        /\ fsm' = [fsm EXCEPT ![tap[t].by] = NoDialogue]
        /\ tap' = [tap EXCEPT ![t] = NoRestore]
        /\ TouchProfile(tap[t].by, tap[t].own)
        /\ UNCHANGED <<site, head, stops, asked, phase, schema, upd, staged, content,
                       buttons, faults>>
    BY DEF Abort, Deployed
  <1>2. tap \in [Taps -> Restores] /\ fsm \in [Admins -> Dialogues]
    BY DEF IInv, TypeOK
  <1>3. /\ fsm' \in [Admins -> Dialogues]
        /\ (\A a \in Admins : fsm[a].path \in {NoFile, fsm[a].id})
             => \A a \in Admins : fsm'[a].path \in {NoFile, fsm'[a].id}
    <2>1. tap[t].by \in Admins
      BY DEF IInv, Actors, Critical
    <2> QED BY <1>1, <2>1, DialogueTyped DEF IInv
  <1>4. /\ tap'[t] = NoRestore /\ tap' \in [Taps -> Restores]
        /\ \A s \in Taps \ {t} : tap'[s] = tap[s]
    BY <1>1, <1>2, Rests
  <1>5. TypeOK'
    <2>1. data' \in Data
      BY <1>1, TouchTyped DEF IInv, Actors, Critical
    <2> QED BY <1>1, <1>3, <1>4, <2>1 DEF IInv, TypeOK
  <1>6. Leaves(t)
    BY <1>1, <1>3, <1>4, Rests DEF Leaves, Critical, Passive
  <1> QED BY <1>5, <1>6, LeaveKeeps

LEMMA InspectKeeps ==
  ASSUME IInv, NEW t \in Taps, Inspect(t)
  PROVE  IInv'
  <1>1. tap[t].pc = "inspect" /\ tap[t].pc \in Critical
    BY DEF Inspect, At, Critical
  <1>2. CASE tap[t].file \in staged /\ Inspected(content[tap[t].file])
    <2>1. /\ Goto(t, "dump")
          /\ UNCHANGED <<site, head, stops, asked, phase, schema, data, flag, upd, fsm, staged,
                         content, buttons, faults>>
      BY <1>2 DEF Inspect, Deployed, Database, Conversation
    <2>2. tap[t].file \in Uploads /\ tap[t].file = tap[t].asked
      BY <1>2, BotAssumption DEF IInv, TypeOK, OneUpload
    <2>3. content[tap[t].file] \in Archives
      BY <1>2, <2>2 DEF Inspected, IInv, TypeOK
    <2>4. Advances(t) /\ tap' \in [Taps -> Restores]
      BY <1>1, <2>1, <2>2, <2>3, GotoAdvances DEF Critical
    <2>5. TypeOK'
      BY <2>1, <2>4 DEF IInv, TypeOK
    <2> QED BY <2>4, <2>5, AdvanceKeeps
  <1>3. CASE ~(tap[t].file \in staged /\ Inspected(content[tap[t].file]))
    <2>1. Abort(t)
      BY <1>3 DEF Inspect
    <2> QED BY <1>1, <2>1, AbortLeaves
  <1> QED BY <1>2, <1>3

\* The steps that move the pc and nothing else that an invariant reads.
LEMMA PlainAdvance ==
  ASSUME IInv, NEW t \in Taps, NEW pc \in {"dumped", "load", "loading", "failed"}, Goto(t, pc),
         tap[t].pc \in {"dump", "dumping", "dumped", "load", "loading"},
         tap[t].pc \in {"dump", "dumping"} => pc = "dumped",
         tap[t].pc = "loading" => pc = "failed",
         UNCHANGED <<site, head, stops, asked, phase, schema, data, flag, upd, fsm, staged,
                     content, buttons>>,
         faults' \in Nat
  PROVE  IInv'
  <1>1. tap[t].pc \in Critical \ {"inspect"} /\ pc \in Critical \ {"inspect", "dumping"}
    BY DEF Critical
  <1>2. tap[t].file = tap[t].asked /\ content[tap[t].file] \in Archives
    BY <1>1, ConfirmedFile
  <1>3. tap[t].saved => tap[t].pc \notin {"dump", "dumping"}
    BY DEF IInv, NotYetSaved, Early
  <1>4. Advances(t) /\ tap' \in [Taps -> Restores]
    BY <1>1, <1>2, <1>3, GotoAdvances
  <1>5. TypeOK'
    BY <1>4 DEF IInv, TypeOK
  <1> QED BY <1>4, <1>5, AdvanceKeeps

LEMMA PlainSteps ==
  ASSUME IInv, NEW t \in Taps,
         \/ DumpFails(t) \/ TerminateFails(t) \/ TakeTables(t)
         \/ LoadTimesOut(t) \/ LoadFails(t)
  PROVE  IInv'
  <1>0. faults \in Nat
    BY DEF IInv, TypeOK
  <1>1. CASE DumpFails(t)
    BY <1>0, <1>1, PlainAdvance DEF DumpFails, Deployed, Database, Conversation
  <1>2. CASE TerminateFails(t)
    BY <1>0, <1>2, PlainAdvance DEF TerminateFails, At, Deployed, Database, Conversation
  <1>3. CASE TakeTables(t)
    BY <1>0, <1>3, PlainAdvance DEF TakeTables, At, Deployed, Database, Conversation
  <1>4. CASE LoadTimesOut(t)
    BY <1>0, <1>4, PlainAdvance DEF LoadTimesOut, At, Deployed, Database, Conversation
  <1>5. CASE LoadFails(t)
    BY <1>0, <1>5, PlainAdvance DEF LoadFails, Deployed, Database, Conversation
  <1> QED BY <1>1, <1>2, <1>3, <1>4, <1>5

LEMMA DumpPlansKeeps ==
  ASSUME IInv, NEW t \in Taps, DumpPlans(t)
  PROVE  IInv'
  <1> DEFINE dump == [data EXCEPT !.days = {}]
  <1>1. /\ tap[t].pc = "dump"
        /\ tap' = [tap EXCEPT ![t].pc = "dumping", ![t].dump = dump]
        /\ UNCHANGED <<site, head, stops, asked, phase, schema, data, flag, upd, fsm, staged,
                       content, buttons, faults>>
    BY DEF DumpPlans, At, Deployed, Database, Conversation
  <1>2. tap \in [Taps -> Restores] /\ tap[t] \in Restores /\ data \in Data
    BY DEF IInv, TypeOK
  <1>3. dump \in Data /\ dump.plans = data.plans /\ dump.users = data.users
    BY <1>2 DEF Data
  <1> HIDE DEF dump
  <1>4. /\ tap'[t] = [tap[t] EXCEPT !.pc = "dumping", !.dump = dump]
        /\ \A s \in Taps \ {t} : tap'[s] = tap[s]
        /\ DOMAIN tap' = Taps
    BY <1>1, <1>2
  <1>5. /\ tap'[t].pc = "dumping" /\ tap'[t].clean = tap[t].clean /\ tap'[t].saved = tap[t].saved
        /\ tap'[t].file = tap[t].file /\ tap'[t].asked = tap[t].asked /\ tap'[t].by = tap[t].by
        /\ tap'[t].dump = dump /\ tap'[t] \in Restores
    BY <1>2, <1>3, <1>4 DEF Restores, TapPCs
  <1>6. tap' \in [Taps -> Restores]
    <2>1. tap' = [s \in Taps |-> tap'[s]]
      BY <1>1, <1>2
    <2> QED BY <1>2, <1>4, <1>5, <2>1
  <1>7. tap[t].saved = FALSE
    BY <1>1 DEF IInv, NotYetSaved, Early
  <1>8. tap[t].file = tap[t].asked /\ content[tap[t].file] \in Archives
    BY <1>1, ConfirmedFile DEF Critical
  <1>9. DumpOf(t)'
    BY <1>1, <1>3, <1>5, <1>7 DEF DumpOf, HoldsTables, At
  <1>10. Advances(t)
    BY <1>1, <1>4, <1>5, <1>7, <1>8, <1>9 DEF Advances, SeenSame, Critical
  <1>11. TypeOK'
    BY <1>1, <1>6 DEF IInv, TypeOK
  <1> QED BY <1>10, <1>11, AdvanceKeeps

LEMMA DumpDaysKeeps ==
  ASSUME IInv, NEW t \in Taps, DumpDays(t)
  PROVE  IInv'
  <1>1. /\ tap[t].pc = "dumping"
        /\ tap' = [tap EXCEPT ![t].pc = "dumped", ![t].dump.days = data.days, ![t].saved = TRUE]
        /\ UNCHANGED <<site, head, stops, asked, phase, schema, data, flag, upd, fsm, staged,
                       content, buttons, faults>>
    BY DEF DumpDays, At, Deployed, Database, Conversation
  <1>2. tap \in [Taps -> Restores] /\ tap[t] \in Restores /\ tap[t].dump \in Data /\ data \in Data
    BY DEF IInv, TypeOK, Restores
  <1>3. /\ tap'[t] = [tap[t] EXCEPT !.pc = "dumped", !.dump.days = data.days, !.saved = TRUE]
        /\ \A s \in Taps \ {t} : tap'[s] = tap[s]
        /\ DOMAIN tap' = Taps
    BY <1>1, <1>2
  <1> DEFINE dump == [tap[t].dump EXCEPT !.days = data.days]
  <1>10. /\ dump \in Data /\ dump.plans = tap[t].dump.plans /\ dump.users = tap[t].dump.users
         /\ dump.days = data.days
    BY <1>2 DEF Data
  <1>11. tap'[t] = [tap[t] EXCEPT !.pc = "dumped", !.dump = dump, !.saved = TRUE]
    BY <1>2, <1>3 DEF Restores
  <1> HIDE DEF dump
  <1>4. /\ tap'[t].pc = "dumped" /\ tap'[t].clean = tap[t].clean
        /\ tap'[t].file = tap[t].file /\ tap'[t].asked = tap[t].asked /\ tap'[t].by = tap[t].by
        /\ tap'[t].dump = dump
        /\ tap'[t] \in Restores
    BY <1>2, <1>10, <1>11 DEF Restores, TapPCs
  <1>5. tap' \in [Taps -> Restores]
    <2>1. tap' = [s \in Taps |-> tap'[s]]
      BY <1>1, <1>2
    <2> QED BY <1>2, <1>3, <1>4, <2>1
  <1>6. tap[t].file = tap[t].asked /\ content[tap[t].file] \in Archives
    BY <1>1, ConfirmedFile DEF Critical
  <1>7. DumpOf(t)'
    <2>1. SUFFICES ASSUME Alone(t)'
                   PROVE  HoldsTables(dump) /\ dump.days = data.days
      BY <1>1, <1>4 DEF DumpOf, HoldsTables, At
    <2>2. Alone(t)
      BY <1>1, <1>4, <2>1 DEF Alone, Critical
    <2>3. HoldsTables(tap[t].dump)
      BY <1>1, <2>2 DEF IInv, DumpSoFar, DumpOf, At
    <2> QED BY <1>10, <2>3 DEF HoldsTables
  <1>8. Advances(t)
    BY <1>1, <1>3, <1>4, <1>6, <1>7 DEF Advances, SeenSame, Critical, Early
  <1>9. TypeOK'
    BY <1>1, <1>5 DEF IInv, TypeOK
  <1> QED BY <1>8, <1>9, AdvanceKeeps

\* What Terminate does to another restore.
LEMMA CutTyped ==
  ASSUME NEW r \in Restores
  PROVE  /\ Cut(r) \in Restores
         /\ Cut(r).pc = (IF r.pc = "loading" THEN "failed"
                         ELSE IF r.pc = "dumping" THEN "dumped" ELSE r.pc)
         /\ Cut(r).clean = r.clean /\ Cut(r).saved = r.saved
         /\ Cut(r).file = r.file /\ Cut(r).asked = r.asked /\ Cut(r).by = r.by
  <1> DEFINE pc == CASE r.pc = "loading" -> "failed"
                     [] r.pc = "dumping" -> "dumped"
                     [] OTHER -> r.pc
  <1>1. pc = (IF r.pc = "loading" THEN "failed" ELSE IF r.pc = "dumping" THEN "dumped" ELSE r.pc)
    OBVIOUS
  <1>2. pc \in TapPCs
    BY <1>1 DEF Restores, TapPCs
  <1>3. Cut(r) = [r EXCEPT !.own = FALSE, !.pc = pc]
    BY DEF Cut
  <1> HIDE DEF pc
  <1> QED BY <1>1, <1>2, <1>3 DEF Restores

LEMMA TerminateKeeps ==
  ASSUME IInv, NEW t \in Taps, Terminate(t)
  PROVE  IInv'
  <1>1. /\ tap[t].pc = "dumped"
        /\ tap' = [s \in Taps |-> IF s = t THEN [tap[t] EXCEPT !.pc = "load", !.own = FALSE]
                                ELSE Cut(tap[s])]
        /\ upd' = [h \in Handlers |-> [upd[h] EXCEPT !.dead = upd[h].dead \/ Open(h)]]
        /\ UNCHANGED <<site, head, stops, asked, phase, schema, data, flag, fsm, staged,
                       content, buttons, faults>>
    BY DEF Terminate, At, Deployed, Database, Conversation
  <1>2. tap \in [Taps -> Restores] /\ tap[t] \in Restores /\ upd \in [Handlers -> Updates]
    BY DEF IInv, TypeOK
  <1>3. /\ tap'[t] = [tap[t] EXCEPT !.pc = "load", !.own = FALSE]
        /\ \A s \in Taps \ {t} : tap'[s] = Cut(tap[s])
    BY <1>1
  <1>4. /\ tap'[t].pc = "load" /\ tap'[t].clean = tap[t].clean /\ tap'[t].saved = tap[t].saved
        /\ tap'[t].file = tap[t].file /\ tap'[t].asked = tap[t].asked
        /\ tap'[t].dump = tap[t].dump /\ tap'[t].by = tap[t].by /\ tap'[t] \in Restores
    BY <1>2, <1>3 DEF Restores, TapPCs
  <1>5. ASSUME NEW s \in Taps \ {t}
        PROVE  SeenSame(s) /\ tap'[s] \in Restores
    <2>1. tap[s] \in Restores /\ tap'[s] = Cut(tap[s])
      BY <1>2, <1>3
    <2> QED BY <2>1, CutTyped DEF SeenSame, Critical, Early, Passive
  <1>6. tap' \in [Taps -> Restores]
    BY <1>1, <1>4, <1>5
  <1>7. ASSUME NEW h \in Handlers
        PROVE  /\ upd'[h] \in Updates /\ upd'[h].pc = upd[h].pc
               /\ upd'[h].what = upd[h].what /\ upd'[h].by = upd[h].by
    <2>1. upd[h] \in Updates
      BY <1>2
    <2>2. (upd[h].dead \/ Open(h)) \in BOOLEAN
      BY <2>1 DEF Updates, Open
    <2> QED BY <1>1, <2>1, <2>2 DEF Updates
  <1>8. upd' \in [Handlers -> Updates]
    BY <1>1, <1>7
  <1>9. TypeOK'
    BY <1>1, <1>6, <1>8 DEF IInv, TypeOK
  <1>10. tap[t].file = tap[t].asked /\ content[tap[t].file] \in Archives
    BY <1>1, ConfirmedFile DEF Critical
  <1>11. DumpOf(t)'
    BY <1>1, <1>4 DEF DumpOf, HoldsTables, At, Alone, Critical, IInv, DumpSoFar
  <1>12. Advances(t)
    BY <1>1, <1>4, <1>5, <1>7, <1>10, <1>11 DEF Advances, Critical, Early
  <1> QED BY <1>9, <1>12, AdvanceKeeps

LEMMA LoadKeeps ==
  ASSUME IInv, NEW t \in Taps, Load(t)
  PROVE  IInv'
  <1> DEFINE archive == content[tap[t].file]
             objects == LoadedObjects(schema.have, archive.schema.have)
             revision == LoadedRevision(schema.rev, archive.schema.rev)
  <1>1. /\ tap[t].pc = "loading"
        /\ \/ /\ data' = archive.data /\ schema' = Schema(objects, revision)
              /\ Goto(t, "migrate")
           \/ Goto(t, "failed") /\ UNCHANGED <<schema, data>>
        /\ UNCHANGED <<site, head, stops, asked, phase, flag, upd, fsm, staged, content,
                       buttons, faults>>
    BY DEF Load, At, Deployed, Database, Conversation
  <1>2. tap[t].file = tap[t].asked /\ archive \in Archives
    BY <1>1, ConfirmedFile DEF Critical
  <1>3. schema \in Schemas /\ data \in Data
    BY DEF IInv, TypeOK
  <1>4. archive.data \in Data /\ archive.schema \in Schemas
    BY <1>2 DEF Archives
  <1> HIDE DEF archive
  <1>5. Schema(objects, revision) \in Schemas /\ schema.have \subseteq objects
    BY <1>3, <1>4 DEF LoadedObjects, LoadedRevision, Schema, Schemas
  <1> HIDE DEF objects, revision
  <1>6. schema' \in Schemas /\ data' \in Data /\ schema.have \subseteq schema'.have
    BY <1>1, <1>3, <1>4, <1>5 DEF Schema
  <1>7. Advances(t) /\ tap' \in [Taps -> Restores]
    <2>1. content[tap[t].file] \in Archives
      BY <1>2 DEF archive
    <2>2. CASE Goto(t, "migrate")
      BY <1>1, <1>2, <1>6, <2>1, <2>2, GotoAdvances DEF Critical
    <2>3. CASE Goto(t, "failed")
      BY <1>1, <1>2, <1>6, <2>1, <2>3, GotoAdvances DEF Critical
    <2> QED BY <1>1, <2>2, <2>3
  <1>8. TypeOK'
    BY <1>1, <1>6, <1>7 DEF IInv, TypeOK
  <1> QED BY <1>7, <1>8, AdvanceKeeps

LEMMA MigrateKeeps ==
  ASSUME IInv, NEW t \in Taps, Migrate(t)
  PROVE  IInv'
  <1> DEFINE ensured == EnsureSchema(schema.have, schema.rev, head, site.onStart, site.autocreate)
  <1>1. /\ tap[t].pc = "migrate" /\ Goto(t, "lower")
        /\ schema' = ensured \/ schema' = schema
        /\ UNCHANGED <<site, head, stops, asked, phase, data, flag, upd, fsm, staged, content,
                       buttons, faults>>
    BY DEF Migrate, At, Deployed, Conversation
  <1>2. /\ schema.have \in SUBSET Chain /\ schema.rev \in Chain \cup {0} /\ head \in Chain
        /\ site.onStart \in BOOLEAN /\ site.autocreate \in BOOLEAN /\ schema \in Schemas
    BY SiteTyped DEF IInv, TypeOK, Schemas
  <1>3. ensured \in Schemas /\ schema.have \subseteq ensured.have
    BY <1>2, EnsuredTyped
  <1> HIDE DEF ensured
  <1>4. schema' \in Schemas /\ schema.have \subseteq schema'.have
    BY <1>1, <1>2, <1>3
  <1>5. tap[t].file = tap[t].asked /\ content[tap[t].file] \in Archives
    BY <1>1, ConfirmedFile DEF Critical
  <1>6. Advances(t) /\ tap' \in [Taps -> Restores]
    BY <1>1, <1>4, <1>5, GotoAdvances DEF Critical
  <1>7. TypeOK'
    BY <1>1, <1>4, <1>6 DEF IInv, TypeOK
  <1> QED BY <1>6, <1>7, AdvanceKeeps

LEMMA LowerKeeps ==
  ASSUME IInv, NEW t \in Taps, LowerFlag(t)
  PROVE  IInv'
  <1>1. /\ tap[t].pc \in {"lower", "failed"} /\ flag' = FALSE /\ Goto(t, "report")
        /\ UNCHANGED <<site, head, stops, asked, phase, schema, data, upd, fsm, staged,
                       content, buttons, faults>>
    BY DEF LowerFlag, Deployed, Database, Conversation
  <1>2. /\ tap' \in [Taps -> Restores]
        /\ tap'[t] = [tap[t] EXCEPT !.pc = "report"]
        /\ \A s \in Taps \ {t} : tap'[s] = tap[s]
    BY <1>1, GotoTyped DEF IInv, TapPCs
  <1>3. tap[t] \in Restores
    BY DEF IInv, TypeOK
  <1>4. /\ tap'[t].pc = "report" /\ tap'[t].file = tap[t].file
        /\ tap'[t].asked = tap[t].asked /\ tap'[t].by = tap[t].by
    BY <1>2, <1>3 DEF Restores
  <1>5. TypeOK'
    BY <1>1, <1>2 DEF IInv, TypeOK
  <1>6. Leaves(t)
    BY <1>1, <1>2, <1>4 DEF Leaves, Passive, IInv, OneUpload
  <1> QED BY <1>5, <1>6, LeaveKeeps

LEMMA ReportKeeps ==
  ASSUME IInv, NEW t \in Taps, Report(t)
  PROVE  IInv'
  <1>1. /\ tap[t].pc = "report"
        /\ fsm' = [fsm EXCEPT ![tap[t].by] = NoDialogue]
        /\ staged' = staged \ {tap[t].file}
        /\ tap' = [tap EXCEPT ![t] = NoRestore]
        /\ UNCHANGED <<site, head, stops, asked, phase, schema, data, flag, upd, content,
                       buttons, faults>>
    BY DEF Report, At, Deployed, Database
  <1>2. tap \in [Taps -> Restores] /\ fsm \in [Admins -> Dialogues]
    BY DEF IInv, TypeOK
  <1>3. /\ fsm' \in [Admins -> Dialogues]
        /\ (\A a \in Admins : fsm[a].path \in {NoFile, fsm[a].id})
             => \A a \in Admins : fsm'[a].path \in {NoFile, fsm'[a].id}
    <2>1. tap[t].by \in Admins
      BY <1>1 DEF IInv, Actors
    <2> QED BY <1>1, <2>1, DialogueTyped DEF IInv
  <1>4. /\ tap'[t] = NoRestore /\ tap' \in [Taps -> Restores]
        /\ \A s \in Taps \ {t} : tap'[s] = tap[s]
    BY <1>1, <1>2, Rests
  <1>5. TypeOK'
    BY <1>1, <1>3, <1>4 DEF IInv, TypeOK
  <1>6. Leaves(t)
    BY <1>1, <1>3, <1>4, Rests DEF Leaves, Critical, Passive
  <1> QED BY <1>5, <1>6, LeaveKeeps

LEMMA RestoreKeeps ==
  ASSUME IInv, NEW t \in Taps,
         RestoreStep(t) \/ DumpFails(t) \/ TerminateFails(t) \/ LoadFails(t)
  PROVE  IInv'
  <1>1. CASE ArchiveGone(t)
    <2>1. tap[t].pc \in Critical /\ Abort(t)
      BY <1>1 DEF ArchiveGone, At, Critical
    <2> QED BY <2>1, AbortLeaves
  <1> QED BY <1>1, RaiseKeeps, InspectKeeps, DumpPlansKeeps, DumpDaysKeeps, PlainSteps,
             TerminateKeeps, LoadKeeps, MigrateKeeps, LowerKeeps, ReportKeeps DEF RestoreStep

-----------------------------------------------------------------------------
(* The process.                                                            *)

LEMMA BootKeeps ==
  ASSUME IInv, Boot
  PROVE  IInv'
  <1> DEFINE ensured == EnsureSchema(schema.have, schema.rev, head, site.onStart, site.autocreate)
  <1>1. /\ SchemaUsable(schema.have, schema.rev, head, site.autocreate)
        /\ phase' = "serving" /\ schema' = ensured
        /\ UNCHANGED <<site, head, stops, asked, data, flag, upd, tap, fsm, staged, content,
                       buttons, faults>>
    BY DEF Boot, Deployed, Conversation
  <1>2. /\ schema.have \in SUBSET Chain /\ schema.rev \in Chain \cup {0} /\ head \in Chain
        /\ site.onStart \in BOOLEAN /\ site.autocreate \in BOOLEAN
    BY SiteTyped DEF IInv, TypeOK, Schemas
  <1>3. ensured \in Schemas /\ MissingTables(ensured.have, head) = {}
    BY <1>1, <1>2, EnsuredTyped, UsableIsWhole, ZenonT(30)
  <1> HIDE DEF ensured
  <1>4. TypeOK' /\ ServesTables'
    BY <1>1, <1>3, SMTT(30) DEF IInv, TypeOK, ServesTables
  <1> QED BY <1>1, <1>4 DEF IInv, FlagHasOwner, RestoresAlone, Alone, Up, At, DumpSoFar,
             DumpOf, HoldsTables, NotYetSaved, OneUpload, RestoredIsConfirmed, Genuine, Actors

LEMMA DeployKeeps ==
  ASSUME IInv, Deploy
  PROVE  IInv'
  <1>1. /\ phase = "down" /\ head < site.heads /\ head' = head + 1
        /\ UNCHANGED <<site, phase, schema, data, flag, upd, tap, fsm, staged, content,
                       buttons, asked, stops, faults>>
    BY DEF Deploy, Database, Conversation
  <1>2. head \in Nat \ {0} /\ site.heads \in Nat /\ 1..site.heads \subseteq Chain
    BY SiteTyped, ChainTyped DEF IInv, TypeOK
  <1>3. head' \in Chain
    BY <1>1, <1>2
  <1>4. TypeOK' /\ ServesTables'
    BY <1>1, <1>3 DEF IInv, TypeOK, ServesTables, Running
  <1> QED BY <1>1, <1>4 DEF IInv, FlagHasOwner, RestoresAlone, Alone, Up, At, DumpSoFar,
             DumpOf, HoldsTables, NotYetSaved, OneUpload, RestoredIsConfirmed, Genuine, Actors

LEMMA StopKeeps ==
  ASSUME IInv, StopSignal
  PROVE  IInv'
  <1>1. /\ phase = "serving" /\ phase' = "draining"
        /\ UNCHANGED <<site, head, stops, asked, schema, data, flag, upd, tap, fsm, staged,
                       content, buttons, faults>>
    BY DEF StopSignal, Serving, Deployed, Database, Conversation
  <1>2. TypeOK' /\ ServesTables'
    BY <1>1 DEF IInv, TypeOK, ServesTables, Running
  <1> QED BY <1>1, <1>2 DEF IInv, FlagHasOwner, RestoresAlone, Alone, Up, At, DumpSoFar,
             DumpOf, HoldsTables, NotYetSaved, OneUpload, RestoredIsConfirmed, Genuine, Actors

LEMMA ExitKeeps ==
  ASSUME IInv, Drained \/ DrainTimesOut \/ Crash
  PROVE  IInv'
  <1>1. Exit /\ faults' \in Nat
    BY DEF Drained, DrainTimesOut, Crash, IInv, TypeOK
  <1>2. /\ phase' = "down" /\ stops' \in Nat /\ flag' = FALSE
        /\ upd' = [h \in Handlers |-> NoUpdate] /\ tap' = [t \in Taps |-> NoRestore]
        /\ fsm' = fsm \/ fsm' = [a \in Admins |-> NoDialogue]
        /\ UNCHANGED <<site, head, asked, schema, data, staged, content, buttons>>
    BY <1>1 DEF Exit, Database, IInv, TypeOK
  <1>3. /\ upd' \in [Handlers -> Updates] /\ tap' \in [Taps -> Restores]
        /\ fsm' \in [Admins -> Dialogues]
        /\ \A a \in Admins : fsm'[a].path \in {NoFile, fsm'[a].id}
    BY <1>2, Rests DEF IInv, TypeOK, OneUpload
  <1>4. \A t \in Taps : tap'[t] = NoRestore
    BY <1>2
  <1>5. TypeOK'
    BY <1>1, <1>2, <1>3 DEF IInv, TypeOK
  <1>6. \A t \in Taps : tap'[t].pc \notin Critical /\ ~Alone(t)' /\ tap'[t].pc \notin Early
                        /\ tap'[t].pc = "idle" /\ tap'[t].file = NoFile
    BY <1>4, Rests DEF Critical, Early, Alone
  <1>7. RestoresAlone' /\ DumpSoFar' /\ RestoredIsConfirmed' /\ NotYetSaved' /\ Genuine'
    BY <1>6 DEF RestoresAlone, DumpSoFar, DumpOf, RestoredIsConfirmed, NotYetSaved, Genuine, Passive
  <1>8. OneUpload' /\ FlagHasOwner' /\ ServesTables'
    BY <1>2, <1>3, <1>4, Rests DEF OneUpload, FlagHasOwner, ServesTables, Running
  <1>9. Actors'
    BY <1>2, <1>6, Rests DEF Actors
  <1> QED BY <1>5, <1>7, <1>8, <1>9 DEF IInv

LEMMA InitIInv == Init => IInv
  <1> SUFFICES ASSUME Init
               PROVE  IInv
    OBVIOUS
  <1>1. TypeOK /\ flag = FALSE /\ phase = "down"
    BY InitTyped DEF Init
  <1>2. (\A t \in Taps : tap[t] = NoRestore) /\ \A a \in Admins : fsm[a] = NoDialogue
    BY DEF Init
  <1>3. \A t \in Taps : /\ tap[t].pc \notin Critical /\ ~Alone(t) /\ tap[t].pc \notin Early
                        /\ tap[t].pc = "idle" /\ tap[t].file = NoFile
    BY <1>2, Rests DEF Critical, Early, Alone
  <1>4. RestoresAlone /\ DumpSoFar /\ RestoredIsConfirmed /\ NotYetSaved /\ Genuine
    BY <1>3 DEF RestoresAlone, DumpSoFar, DumpOf, RestoredIsConfirmed, NotYetSaved, Genuine, Passive
  <1>5. OneUpload /\ FlagHasOwner /\ ServesTables
    BY <1>1, <1>2, Rests DEF OneUpload, FlagHasOwner, ServesTables, Running
  <1>6. Actors
    BY <1>3, Rests DEF Init, Actors
  <1> QED BY <1>1, <1>4, <1>5, <1>6 DEF IInv

LEMMA NextKeeps == IInv /\ [Next]_vars => IInv'
  <1> SUFFICES ASSUME IInv, [Next]_vars
               PROVE  IInv'
    OBVIOUS
  <1>1. CASE UNCHANGED vars
    BY <1>1 DEF vars, IInv, TypeOK, FlagHasOwner, RestoresAlone, Alone, Up, At, DumpSoFar,
                DumpOf, HoldsTables, Actors, NotYetSaved, OneUpload, RestoredIsConfirmed, Genuine, ServesTables, Running
  <1>2. CASE Next
    <2>1. CASE Boot \/ Deploy \/ StopSignal \/ Drained \/ DrainTimesOut \/ Crash
      BY <2>1, BootKeeps, DeployKeeps, StopKeeps, ExitKeeps
    <2>2. ASSUME NEW h \in Handlers, Admit(h) \/ Work(h)
          PROVE  IInv'
      BY <2>2, AdmitKeeps, WorkKeeps
    <2>3. ASSUME NEW t \in Taps, NEW a \in Admins, Confirm(t, a)
          PROVE  IInv'
      BY <2>3, ConfirmKeeps
    <2>4. ASSUME NEW t \in Taps,
                 RestoreStep(t) \/ DumpFails(t) \/ TerminateFails(t) \/ LoadFails(t)
          PROVE  IInv'
      BY <2>4, RestoreKeeps
    <2>5. ASSUME NEW t \in Taps, LeaveTap(t)
          PROVE  IInv'
      BY <2>5, LeaveTapKeeps
    <2> QED BY <1>2, <2>1, <2>2, <2>3, <2>4, <2>5 DEF Next
  <1> QED BY <1>1, <1>2

LEMMA Inductive == Spec => []IInv
  BY InitIInv, NextKeeps, PTL DEF Spec

-----------------------------------------------------------------------------
(* The theorems.                                                           *)

\* Every variable of the process keeps its type, whoever restores what: a file
\* that is loaded is an archive still, though its dialogue may have gone on.
THEOREM TypeCorrect == Spec => []TypeOK
  <1>1. IInv => TypeOK
    BY DEF IInv
  <1> QED BY <1>1, Inductive, PTL

\* The flag that keeps everybody out is never up without a restore whose finally
\* will lower it (admin_backup_restore_run), across crashes too.
THEOREM FlagIsHeld == Spec => []FlagHasOwner
  <1>1. IInv => FlagHasOwner
    BY DEF IInv
  <1> QED BY <1>1, Inductive, PTL

\* A restore that raised the flag while nothing else ran, refused taps aside, stays
\* alone behind it: what DatabaseMiddleware still lets in is taps on confirmation
\* buttons, and the question that their handler asks keeps each of them from becoming
\* a second restore.
THEOREM RestoresStayAlone == Spec => []RestoresAlone
  <1>1. IInv => RestoresAlone
    BY DEF IInv
  <1> QED BY <1>1, Inductive, PTL

\* The safety archive of such a restore, read table by table (python_dump), holds
\* every plan and plan_day that the load then replaces, though the updates that are
\* let in commit between its steps.
THEOREM SafetyIsWhole == Spec => []SafetyHoldsAll
  <1>1. IInv => SafetyHoldsAll
    BY DEF IInv, DumpSoFar, DumpOf, HoldsTables, SafetyHoldsAll
  <1> QED BY <1>1, Inductive, PTL

\* What is loaded is the upload named by the button that the admin tapped, though
\* another upload of his may end between his tap and the load.
THEOREM RestoredWasConfirmed == Spec => []RestoredIsConfirmed
  <1>1. IInv => RestoredIsConfirmed
    BY DEF IInv
  <1> QED BY <1>1, Inductive, PTL

\* Whatever archive is loaded and whatever ensure_schema makes of it, the bot
\* never serves a database that lacks a table of its code.
THEOREM TablesAreServed == Spec => []ServesTables
  <1>1. IInv => ServesTables
    BY DEF IInv
  <1> QED BY <1>1, Inductive, PTL
-----------------------------------------------------------------------------
(* The staged uploads.  A dialogue offers a file that is on disk because a   *)
(* file has one owner: whoever removes it is the dialogue that offers it, or *)
(* a restore that this dialogue confirmed, or the upload that is under way.  *)

\* No two dialogues offer one file.
OwnFile ==
  \A a, b \in Admins : fsm[a].path = fsm[b].path => a = b \/ fsm[a].path = NoFile

\* An upload that is under way is nobody else's: not of another handler, not offered
\* yet and without a button; from the inspection on its file is staged.
OwnUpload ==
  \A h \in Handlers :
    /\ upd[h].what \in Uploads \cup {"cancel"} => upd[h].by \in Admins
    /\ upd[h].what \in Uploads =>
         /\ upd[h].pc \in {"admitted", "tx", "saving"}
         /\ upd[h].pc = "saving" => upd[h].what \in staged
         /\ upd[h].what \notin buttons
         /\ \A a \in Admins : fsm[a].path # upd[h].what
         /\ \A g \in Handlers : upd[g].what = upd[h].what => g = h

\* The file of a restore is offered by the admin who confirmed it, or by nobody.
OwnRestore ==
  \A t \in Taps, a \in Admins :
    tap[t].pc # "idle" /\ tap[t].file # NoFile /\ fsm[a].path = tap[t].file => a = tap[t].by

FilesInv == OffersStagedFile /\ OwnFile /\ OwnUpload /\ OwnRestore

\* A handler goes on with what it has, takes up something else, or ends.
HandlerRests(h) ==
  \/ upd'[h].what \notin Uploads /\ (upd'[h].what = "cancel" => upd'[h].by \in Admins)
  \/ /\ upd'[h].what = upd[h].what /\ upd'[h].by = upd[h].by
     /\ upd[h].what \in Uploads =>
          /\ upd'[h].pc \in {"admitted", "tx", "saving"}
          /\ upd'[h].pc = "saving" => upd[h].what \in staged'

TapRests(t) ==
  \/ tap'[t].pc = "idle" \/ tap'[t].file = NoFile
  \/ tap[t].pc # "idle" /\ tap'[t].file = tap[t].file /\ tap'[t].by = tap[t].by

\* Nobody gets hold of a file, and nobody holds on to one that goes.
FilesRest ==
  /\ buttons' = buttons
  /\ \A a \in Admins : fsm'[a].path \in {fsm[a].path, NoFile}
  /\ \A u \in staged \ staged' :
       /\ \A a \in Admins : fsm'[a].path # u
       /\ \A h \in Handlers : upd'[h].pc = "saving" => upd'[h].what # u
  /\ \A h \in Handlers : HandlerRests(h)
  /\ \A t \in Taps : TapRests(t)

LEMMA RestKeeps ==
  ASSUME TypeOK, FilesInv, FilesRest
  PROVE  FilesInv'
  <1>1. staged \subseteq Uploads /\ NoFile \notin Uploads
    BY BotAssumption DEF TypeOK
  <1>2. OffersStagedFile'
    BY DEF FilesInv, OffersStagedFile, FilesRest
  <1>3. OwnFile'
    BY DEF FilesInv, OwnFile, FilesRest
  <1>4. OwnRestore'
    BY DEF FilesInv, OwnRestore, FilesRest, TapRests
  <1>5. ASSUME NEW h \in Handlers
        PROVE  /\ upd'[h].what \in Uploads \cup {"cancel"} => upd'[h].by \in Admins
               /\ upd'[h].what \in Uploads =>
                    /\ upd'[h].pc \in {"admitted", "tx", "saving"}
                    /\ upd'[h].pc = "saving" => upd'[h].what \in staged'
                    /\ upd'[h].what \notin buttons'
                    /\ \A a \in Admins : fsm'[a].path # upd'[h].what
                    /\ \A g \in Handlers : upd'[g].what = upd'[h].what => g = h
    BY <1>1 DEF FilesInv, OwnUpload, FilesRest, HandlerRests
  <1>6. OwnUpload'
    BY <1>5 DEF OwnUpload
  <1> QED BY <1>2, <1>3, <1>4, <1>6 DEF FilesInv

\* A handler moves on or ends.
LEMMA HandlersRest ==
  ASSUME TypeOK, FilesInv, NEW h \in Handlers, NEW pc,
         \/ upd' = [upd EXCEPT ![h] = NoUpdate]
         \/ /\ upd' = [upd EXCEPT ![h].pc = pc]
            /\ upd[h].what \in Uploads => /\ pc \in {"tx", "saving"}
                                          /\ pc = "saving" => upd[h].what \in staged',
         \A u \in staged \ staged' : \A g \in Handlers \ {h} : upd[g].what # u
  PROVE  \A g \in Handlers : HandlerRests(g)
  <1>0. NoUpdate.what \notin Uploads /\ NoUpdate.what # "cancel"
    BY BotAssumption DEF NoUpdate
  <1>1. upd \in [Handlers -> Updates]
    BY DEF TypeOK
  <1>2. ASSUME NEW g \in Handlers \ {h}
        PROVE  HandlerRests(g)
    <2>1. upd'[g] = upd[g]
      BY <1>1
    <2> QED BY <2>1 DEF HandlerRests, FilesInv, OwnUpload
  <1>3. HandlerRests(h)
    <2>1. CASE upd' = [upd EXCEPT ![h] = NoUpdate]
      BY <1>0, <1>1, <2>1 DEF HandlerRests
    <2>2. CASE /\ upd' = [upd EXCEPT ![h].pc = pc]
               /\ upd[h].what \in Uploads => /\ pc \in {"tx", "saving"}
                                             /\ pc = "saving" => upd[h].what \in staged'
      <3>1. upd'[h].what = upd[h].what /\ upd'[h].by = upd[h].by /\ upd'[h].pc = pc
        BY <1>1, <2>2 DEF Updates
      <3> QED BY <2>2, <3>1 DEF HandlerRests
    <2> QED BY <2>1, <2>2
  <1> QED BY <1>2, <1>3

LEMMA SameRests ==
  /\ TypeOK /\ FilesInv /\ upd' = upd /\ staged' = staged => \A h \in Handlers : HandlerRests(h)
  /\ tap' = tap => \A t \in Taps : TapRests(t)
  BY DEF HandlerRests, TapRests, FilesInv, OwnUpload

\* The dialogue of one admin is closed and its file goes.
LEMMA CloseRests ==
  ASSUME TypeOK, FilesInv, NEW a \in Admins,
         fsm' = [fsm EXCEPT ![a] = NoDialogue], staged' = staged \ {fsm[a].path}
  PROVE  /\ \A b \in Admins : fsm'[b].path \in {fsm[b].path, NoFile}
         /\ \A u \in staged \ staged' :
              /\ \A b \in Admins : fsm'[b].path # u
              /\ \A h \in Handlers : upd[h].what # u
  <1>1. fsm \in [Admins -> Dialogues] /\ staged \subseteq Uploads /\ NoFile \notin Uploads
    BY BotAssumption DEF TypeOK
  <1>2. \A b \in Admins : fsm'[b] = IF b = a THEN NoDialogue ELSE fsm[b]
    BY <1>1
  <1>3. \A b \in Admins : fsm'[b].path \in {fsm[b].path, NoFile}
    BY <1>2, Rests
  <1>4. ASSUME NEW u \in staged \ staged'
        PROVE  /\ \A b \in Admins : fsm'[b].path # u
               /\ \A h \in Handlers : upd[h].what # u
    <2>1. u = fsm[a].path /\ u # NoFile /\ u \in Uploads
      BY <1>1
    <2>2. \A b \in Admins : fsm'[b].path # u
      BY <1>2, <2>1, Rests DEF FilesInv, OwnFile
    <2>3. \A h \in Handlers : upd[h].what # u
      BY <2>1 DEF FilesInv, OwnUpload
    <2> QED BY <2>2, <2>3
  <1> QED BY <1>3, <1>4

LEMMA WorkFiles ==
  ASSUME IInv, FilesInv, NEW h \in Handlers, Work(h)
  PROVE  FilesInv'
  <1>0. TypeOK /\ upd \in [Handlers -> Updates] /\ Keys \cap Uploads = {}
        /\ NoUpdate.what \notin Uploads
    BY BotAssumption DEF IInv, TypeOK, NoUpdate
  <1>1. CASE Query(h) \/ Enqueue(h) \/ StartRender(h) \/ EndRender(h) \/ Commit(h) \/ Fail(h)
    <2>1. UNCHANGED <<fsm, staged, buttons, tap>>
      BY <1>1 DEF Query, Enqueue, StartRender, EndRender, Commit, Fail, Conversation
    <2>2. \/ upd' = [upd EXCEPT ![h] = NoUpdate]
          \/ upd' = [upd EXCEPT ![h].pc = "tx"]
          \/ \E pc \in {"queued", "rendering", "saving"} :
               upd' = [upd EXCEPT ![h].pc = pc] /\ upd[h].what \notin Uploads
      BY <1>0, <1>1 DEF Query, Enqueue, StartRender, EndRender, Commit, Fail, Up,
                        FilesInv, OwnUpload
    <2>3. \A g \in Handlers : HandlerRests(g)
      BY <1>0, <2>1, <2>2, HandlersRest
    <2>4. FilesRest
      BY <2>1, <2>3, SameRests DEF FilesRest
    <2> QED BY <1>0, <2>4, RestKeeps
  <1>2. CASE Prompt(h)
    <2>1. /\ UNCHANGED <<staged, buttons, tap>> /\ upd' = [upd EXCEPT ![h] = NoUpdate]
          /\ \/ fsm' = fsm
             \/ fsm' = [fsm EXCEPT ![upd[h].by].state = "file", ![upd[h].by].path = NoFile]
      BY <1>2 DEF Prompt
    <2>2. \A a \in Admins : fsm'[a].path \in {fsm[a].path, NoFile}
      BY <1>0, <2>1 DEF TypeOK, Dialogues
    <2>3. \A g \in Handlers : HandlerRests(g)
      BY <1>0, <2>1, HandlersRest
    <2>4. FilesRest
      BY <2>1, <2>2, <2>3, SameRests DEF FilesRest
    <2> QED BY <1>0, <2>4, RestKeeps
  <1>3. CASE Cancel(h)
    <2>1. /\ UNCHANGED <<buttons, tap>> /\ upd' = [upd EXCEPT ![h] = NoUpdate]
          /\ fsm' = [fsm EXCEPT ![upd[h].by] = NoDialogue]
          /\ staged' = staged \ {fsm[upd[h].by].path}
          /\ upd[h].what = "cancel"
      BY <1>3 DEF Cancel
    <2>2. upd[h].by \in Admins
      BY <2>1 DEF FilesInv, OwnUpload
    <2>3. /\ \A b \in Admins : fsm'[b].path \in {fsm[b].path, NoFile}
          /\ \A u \in staged \ staged' :
               /\ \A b \in Admins : fsm'[b].path # u
               /\ \A g \in Handlers : upd[g].what # u
      BY <1>0, <2>1, <2>2, CloseRests
    <2>4. \A g \in Handlers : HandlerRests(g)
      BY <1>0, <2>1, <2>3, HandlersRest
    <2>5. \A g \in Handlers : upd'[g] \in {upd[g], NoUpdate}
      BY <1>0, <2>1
    <2>6. FilesRest
      BY <2>1, <2>3, <2>4, <2>5, Rests, SameRests DEF FilesRest
    <2> QED BY <1>0, <2>6, RestKeeps
  <1>4. CASE Stage(h)
    <2>1. /\ UNCHANGED <<fsm, buttons, tap>> /\ upd' = [upd EXCEPT ![h].pc = "saving"]
          /\ staged' = staged \cup {upd[h].what}
      BY <1>4 DEF Stage
    <2>2. \A g \in Handlers : HandlerRests(g)
      BY <1>0, <2>1, HandlersRest
    <2>3. FilesRest
      BY <2>1, <2>2, SameRests DEF FilesRest
    <2> QED BY <1>0, <2>3, RestKeeps
  <1>5. CASE EndUpload(h)
    <2> DEFINE u == upd[h].what
    <2>1. /\ upd[h].pc = "saving" /\ u \in Uploads /\ upd' = [upd EXCEPT ![h] = NoUpdate]
          /\ tap' = tap
          /\ \/ /\ staged' = staged \ {u} /\ UNCHANGED <<fsm, buttons>>
             \/ /\ staged' = staged /\ buttons' \in {buttons, buttons \cup {u}}
                /\ fsm' = [fsm EXCEPT ![upd[h].by] = [state |-> "confirm", path |-> u, id |-> u]]
      BY <1>5 DEF EndUpload, Up
    <2>2. /\ upd[h].by \in Admins /\ u \in staged /\ u \notin buttons
          /\ \A a \in Admins : fsm[a].path # u
          /\ \A g \in Handlers \ {h} : upd[g].what # u
      BY <2>1 DEF FilesInv, OwnUpload
    <2>3. /\ \A g \in Handlers \ {h} : upd'[g] = upd[g]
          /\ upd'[h] = NoUpdate
      BY <1>0, <2>1
    <2>4. \A g \in Handlers : upd'[g].what # u
      BY <1>0, <2>1, <2>2, <2>3
    <2>5. CASE staged' = staged \ {u} /\ UNCHANGED <<fsm, buttons>>
      <3>1. \A g \in Handlers : HandlerRests(g)
        BY <1>0, <2>1, <2>2, <2>5, HandlersRest
      <3>2. FilesRest
        BY <2>1, <2>2, <2>4, <2>5, <3>1, SameRests DEF FilesRest
      <3> QED BY <1>0, <3>2, RestKeeps
    <2>6. CASE /\ staged' = staged /\ buttons' \in {buttons, buttons \cup {u}}
               /\ fsm' = [fsm EXCEPT ![upd[h].by] = [state |-> "confirm", path |-> u, id |-> u]]
      <3>1. fsm'[upd[h].by].path = u /\ \A a \in Admins \ {upd[h].by} : fsm'[a] = fsm[a]
        BY <2>2, <2>6 DEF IInv, TypeOK
      <3>2. \A t \in Taps : tap[t].pc # "idle" => tap[t].file # u
        BY <2>1, <2>2, BotAssumption DEF IInv, Genuine, OneUpload, Passive
      <3> HIDE DEF u
      <3>3. OffersStagedFile' /\ OwnFile'
        BY <2>2, <2>6, <3>1 DEF FilesInv, OffersStagedFile, OwnFile
      <3>4. OwnRestore'
        BY <2>1, <3>1, <3>2 DEF FilesInv, OwnRestore
      <3>5. NoUpdate.what # "cancel"
        BY DEF NoUpdate
      <3>6. OwnUpload'
        BY <1>0, <2>2, <2>3, <2>4, <2>6, <3>1, <3>5 DEF FilesInv, OwnUpload
      <3> QED BY <3>3, <3>4, <3>6 DEF FilesInv
    <2> QED BY <2>1, <2>5, <2>6
  <1> QED BY <1>1, <1>2, <1>3, <1>4, <1>5 DEF Work

LEMMA AdmitFiles ==
  ASSUME IInv, FilesInv, NEW h \in Handlers, Admit(h)
  PROVE  FilesInv'
  <1>0. /\ TypeOK /\ upd \in [Handlers -> Updates] /\ Keys \cap Uploads = {}
        /\ NoFile \notin Uploads /\ {"prompt", "cancel"} \cap (Keys \cup Uploads) = {}
    BY BotAssumption DEF IInv, TypeOK
  <1>1. Arrive(h) /\ UNCHANGED <<tap, fsm, staged, buttons>>
    BY DEF Admit, Arrive
  <1>2. site.admins \subseteq Admins /\ site.uploads \subseteq Uploads
    BY <1>0, SiteTyped DEF TypeOK
  <1>3. ASSUME NEW what, NEW by, Asks(h, what, by)
        PROVE  /\ upd'[h].what = what /\ upd'[h].by = by /\ upd'[h].pc = "admitted"
               /\ \A g \in Handlers \ {h} : upd'[g] = upd[g]
    BY <1>0, <1>3 DEF Asks, NoUpdate
  <1>4. ASSUME NEW what, NEW by, Asks(h, what, by), what \notin Uploads,
               what = "cancel" => by \in Admins
        PROVE  FilesInv'
    <2>1. \A g \in Handlers : HandlerRests(g)
      BY <1>0, <1>1, <1>3, <1>4, SameRests DEF HandlerRests, FilesInv, OwnUpload
    <2>2. FilesRest
      BY <1>1, <2>1, SameRests DEF FilesRest
    <2> QED BY <1>0, <2>2, RestKeeps
  <1>5. ASSUME NEW a \in Admins, NEW u \in Uploads \ (staged \cup buttons),
               \A g \in Handlers : upd[g].what # u, Asks(h, u, a)
        PROVE  FilesInv'
    <2>1. /\ upd'[h].what = u /\ upd'[h].by = a /\ upd'[h].pc = "admitted"
          /\ \A g \in Handlers \ {h} : upd'[g] = upd[g]
      BY <1>3, <1>5
    <2>2. \A b \in Admins : fsm[b].path # u
      BY <1>0, <1>5 DEF FilesInv, OffersStagedFile
    <2>3. OwnUpload'
      BY <1>0, <1>1, <1>5, <2>1, <2>2 DEF FilesInv, OwnUpload
    <2> QED BY <1>1, <2>3 DEF FilesInv, OffersStagedFile, OwnFile, OwnRestore
  <1>6. CASE \E k \in Keys \ data.plans : Asks(h, k, NoFile)
    BY <1>0, <1>4, <1>6
  <1>7. CASE \E a \in site.admins : Asks(h, "prompt", a) \/ Asks(h, "cancel", a)
    <2>1. PICK a \in Admins : Asks(h, "prompt", a) \/ Asks(h, "cancel", a)
      BY <1>2, <1>7
    <2> QED BY <1>0, <1>4, <2>1
  <1>8. CASE \E a \in site.admins : \E u \in site.uploads \ (staged \cup buttons) :
               (\A g \in Handlers : upd[g].what # u) /\ Asks(h, u, a)
    BY <1>2, <1>5, <1>8
  <1> QED BY <1>1, <1>6, <1>7, <1>8 DEF Arrive

LEMMA ConfirmFiles ==
  ASSUME IInv, FilesInv, NEW t \in Taps, NEW a \in Admins, Confirm(t, a)
  PROVE  FilesInv'
  <1>0. TypeOK /\ tap \in [Taps -> Restores]
    BY DEF IInv, TypeOK
  <1>1. /\ UNCHANGED <<upd, buttons>>
        /\ \/ \E u \in buttons : Passes(t, a, u)
           \/ Refuses(t, a) /\ UNCHANGED <<fsm, staged>>
           \/ /\ Refuses(t, a) /\ fsm' = [fsm EXCEPT ![a] = NoDialogue]
              /\ staged' = staged \ {fsm[a].path}
    BY DEF Confirm
  <1>2. ASSUME NEW u \in buttons, Passes(t, a, u)
        PROVE  FilesInv'
    <2>1. /\ tap'[t].file = fsm[a].path /\ tap'[t].by = a
          /\ \A s \in Taps \ {t} : tap'[s] = tap[s]
          /\ UNCHANGED <<fsm, staged>>
      BY <1>0, <1>2 DEF Passes, NoRestore
    <2>2. OwnRestore'
      BY <2>1 DEF FilesInv, OwnRestore, OwnFile
    <2> QED BY <1>1, <2>1, <2>2 DEF FilesInv, OffersStagedFile, OwnFile, OwnUpload
  <1>3. ASSUME Refuses(t, a)
        PROVE  \A s \in Taps : TapRests(s)
    <2>1. PICK r : TakesTap(t, r) /\ r.file = NoFile
      BY <1>3, RefusedTaken
    <2>2. tap'[t] = r /\ \A s \in Taps \ {t} : tap'[s] = tap[s]
      BY <1>0, <2>1 DEF TakesTap
    <2> QED BY <2>1, <2>2 DEF TapRests
  <1>4. CASE Refuses(t, a) /\ UNCHANGED <<fsm, staged>>
    <2>1. FilesRest
      BY <1>0, <1>1, <1>3, <1>4, SameRests DEF FilesRest
    <2> QED BY <1>0, <2>1, RestKeeps
  <1>5. CASE /\ Refuses(t, a) /\ fsm' = [fsm EXCEPT ![a] = NoDialogue]
             /\ staged' = staged \ {fsm[a].path}
    <2>1. /\ \A b \in Admins : fsm'[b].path \in {fsm[b].path, NoFile}
          /\ \A u \in staged \ staged' :
               /\ \A b \in Admins : fsm'[b].path # u
               /\ \A h \in Handlers : upd[h].what # u
      BY <1>0, <1>5, CloseRests
    <2>2. \A h \in Handlers : HandlerRests(h)
      BY <1>0, <1>1, <2>1 DEF HandlerRests, FilesInv, OwnUpload
    <2>3. FilesRest
      BY <1>1, <1>3, <1>5, <2>1, <2>2 DEF FilesRest
    <2> QED BY <1>0, <2>3, RestKeeps
  <1> QED BY <1>1, <1>2, <1>4, <1>5

\* A step of a restore moves it on, or ends it and closes its dialogue.
LEMMA TapsRest ==
  ASSUME TypeOK, NEW t \in Taps, tap[t].pc # "idle",
         \/ \E pc : Goto(t, pc)
         \/ tap' = [tap EXCEPT ![t] = NoRestore]
         \/ \A s \in Taps : /\ tap'[s].file = tap[s].file /\ tap'[s].by = tap[s].by
                            /\ tap[s].pc = "idle" => tap'[s].pc = "idle"
  PROVE  \A s \in Taps : TapRests(s)
  <1>1. tap \in [Taps -> Restores]
    BY DEF TypeOK
  <1>2. CASE \E pc : Goto(t, pc)
    <2>1. PICK pc : tap' = [tap EXCEPT ![t].pc = pc]
      BY <1>2 DEF Goto
    <2>2. \A s \in Taps : tap'[s] = IF s = t THEN [tap[t] EXCEPT !.pc = pc] ELSE tap[s]
      BY <1>1, <2>1
    <2> QED BY <1>1, <2>2 DEF TapRests, Restores
  <1>3. CASE tap' = [tap EXCEPT ![t] = NoRestore]
    BY <1>1, <1>3, Rests DEF TapRests
  <1>4. CASE \A s \in Taps : /\ tap'[s].file = tap[s].file /\ tap'[s].by = tap[s].by
                             /\ tap[s].pc = "idle" => tap'[s].pc = "idle"
    BY <1>4 DEF TapRests
  <1> QED BY <1>2, <1>3, <1>4

LEMMA LeaveTapFiles ==
  ASSUME IInv, FilesInv, NEW t \in Taps, LeaveTap(t)
  PROVE  FilesInv'
  <1>1. TypeOK /\ tap \in [Taps -> Restores]
    BY DEF IInv, TypeOK
  <1>2. /\ UNCHANGED <<upd, fsm, staged, buttons>> /\ tap[t].pc # "idle"
        /\ tap' = [tap EXCEPT ![t] = NoRestore]
    BY DEF LeaveTap, At, Conversation
  <1>3. FilesRest
    BY <1>1, <1>2, TapsRest, SameRests DEF FilesRest
  <1> QED BY <1>1, <1>3, RestKeeps

LEMMA RestoreFiles ==
  ASSUME IInv, FilesInv, NEW t \in Taps,
         RestoreStep(t) \/ DumpFails(t) \/ TerminateFails(t) \/ LoadFails(t)
  PROVE  FilesInv'
  <1>0. /\ TypeOK /\ tap \in [Taps -> Restores] /\ upd \in [Handlers -> Updates]
        /\ fsm \in [Admins -> Dialogues]
    BY DEF IInv, TypeOK
  <1>1. CASE \/ DumpFails(t) \/ TerminateFails(t) \/ LoadFails(t) \/ TakeTables(t) \/ Load(t)
             \/ LoadTimesOut(t) \/ Migrate(t) \/ LowerFlag(t)
             \/ At(t, "inspect") /\ Goto(t, "dump") /\ UNCHANGED <<upd, Conversation>>
    <2>1. /\ UNCHANGED <<upd, fsm, staged, buttons>> /\ tap[t].pc # "idle"
          /\ \E pc : Goto(t, pc)
      BY <1>1 DEF DumpFails, TerminateFails, LoadFails, TakeTables, Load, LoadTimesOut,
         Migrate, LowerFlag, At, Conversation
    <2>2. FilesRest
      BY <1>0, <2>1, TapsRest, SameRests DEF FilesRest
    <2> QED BY <1>0, <2>2, RestKeeps
  <1>2. CASE RaiseFlag(t) \/ DumpPlans(t) \/ DumpDays(t)
    <2>1. UNCHANGED <<upd, fsm, staged, buttons>> /\ tap[t].pc # "idle"
      BY <1>2 DEF RaiseFlag, DumpPlans, DumpDays, At, Conversation
    <2>2. ASSUME NEW s \in Taps
          PROVE  /\ tap'[s].file = tap[s].file /\ tap'[s].by = tap[s].by
                 /\ tap[s].pc = "idle" => tap'[s].pc = "idle"
      <3>0. tap[s] \in Restores /\ tap[t] \in Restores
        BY <1>0
      <3>1. CASE RaiseFlag(t)
        <4>1. tap'[s] = IF s = t
                        THEN [tap[t] EXCEPT !.pc = "inspect",
                                            !.clean = /\ \A h \in Handlers : Up(h, "idle")
                                                      /\ \A o \in Taps \ {t} : tap[o].pc \in Passive]
                        ELSE [tap[s] EXCEPT !.clean = FALSE]
          BY <3>1 DEF RaiseFlag
        <4> QED BY <2>1, <3>0, <4>1 DEF Restores
      <3>2. CASE DumpPlans(t) \/ DumpDays(t)
        <4>1. \E d, pc, v :
                tap'[s] = IF s = t THEN [tap[t] EXCEPT !.pc = pc, !.dump = d, !.saved = v] ELSE tap[s]
          <5>1. CASE DumpPlans(t)
            <6> DEFINE d == [data EXCEPT !.days = {}]
            <6>1. tap'[s] = IF s = t THEN [tap[t] EXCEPT !.pc = "dumping", !.dump = d,
                                                         !.saved = tap[t].saved] ELSE tap[s]
              BY <1>0, <3>0, <5>1 DEF DumpPlans, Restores
            <6> HIDE DEF d
            <6> QED BY <6>1
          <5>2. CASE DumpDays(t)
            <6> DEFINE d == [tap[t].dump EXCEPT !.days = data.days]
            <6>1. tap'[s] = IF s = t THEN [tap[t] EXCEPT !.pc = "dumped", !.dump = d,
                                                         !.saved = TRUE] ELSE tap[s]
              BY <1>0, <3>0, <5>2 DEF DumpDays, Restores
            <6> HIDE DEF d
            <6> QED BY <6>1
          <5> QED BY <3>2, <5>1, <5>2
        <4> QED BY <2>1, <3>0, <4>1 DEF Restores
      <3> QED BY <1>2, <3>1, <3>2
    <2>3. FilesRest
      BY <1>0, <2>1, <2>2, TapsRest, SameRests DEF FilesRest
    <2> QED BY <1>0, <2>3, RestKeeps
  <1>3. CASE Terminate(t)
    <2>1. /\ UNCHANGED <<fsm, staged, buttons>> /\ tap[t].pc # "idle"
          /\ tap' = [s \in Taps |-> IF s = t THEN [tap[t] EXCEPT !.pc = "load", !.own = FALSE]
                                    ELSE Cut(tap[s])]
          /\ upd' = [h \in Handlers |-> [upd[h] EXCEPT !.dead = upd[h].dead \/ Open(h)]]
      BY <1>3 DEF Terminate, At, Conversation
    <2>2. ASSUME NEW s \in Taps
          PROVE  /\ tap'[s].file = tap[s].file /\ tap'[s].by = tap[s].by
                 /\ tap[s].pc = "idle" => tap'[s].pc = "idle"
      <3>1. tap[s] \in Restores
        BY <1>0
      <3>2. CASE s = t
        BY <2>1, <3>1, <3>2 DEF Restores
      <3>3. CASE s # t
        <4>1. tap'[s] = Cut(tap[s])
          BY <2>1, <3>3
        <4> QED BY <3>1, <4>1 DEF Cut, Restores
      <3> QED BY <3>2, <3>3
    <2>3. ASSUME NEW h \in Handlers
          PROVE  HandlerRests(h) /\ upd'[h].what = upd[h].what
      <3>1. upd[h] \in Updates
        BY <1>0
      <3>2. upd'[h].what = upd[h].what /\ upd'[h].by = upd[h].by /\ upd'[h].pc = upd[h].pc
        BY <2>1, <3>1 DEF Updates
      <3> QED BY <2>1, <3>2 DEF HandlerRests, FilesInv, OwnUpload
    <2>4. FilesRest
      BY <1>0, <2>1, <2>2, <2>3, TapsRest DEF FilesRest
    <2> QED BY <1>0, <2>4, RestKeeps
  <1>4. CASE tap[t].pc # "idle" /\ Abort(t)
    <2>1. /\ UNCHANGED <<upd, staged, buttons>>
          /\ fsm' = [fsm EXCEPT ![tap[t].by] = NoDialogue]
          /\ tap' = [tap EXCEPT ![t] = NoRestore]
      BY <1>4 DEF Abort
    <2>2. \A a \in Admins : fsm'[a].path \in {fsm[a].path, NoFile}
      BY <1>0, <2>1, Rests
    <2>3. FilesRest
      BY <1>0, <1>4, <2>1, <2>2, TapsRest, SameRests DEF FilesRest
    <2> QED BY <1>0, <2>3, RestKeeps
  <1>5. CASE Report(t)
    <2>1. /\ UNCHANGED <<upd, buttons>> /\ tap[t].pc # "idle"
          /\ staged' = staged \ {tap[t].file}
          /\ fsm' = [fsm EXCEPT ![tap[t].by] = NoDialogue]
          /\ tap' = [tap EXCEPT ![t] = NoRestore]
      BY <1>5 DEF Report, At
    <2>2. \A a \in Admins : fsm'[a].path \in {fsm[a].path, NoFile}
      BY <1>0, <2>1, Rests
    <2>3. ASSUME NEW u \in staged \ staged'
          PROVE  /\ \A a \in Admins : fsm'[a].path # u
                 /\ \A h \in Handlers : upd[h].what # u
      <3>1. u = tap[t].file /\ u \in Uploads /\ u # NoFile
        BY <2>1, BotAssumption DEF IInv, TypeOK
      <3>2. u \in buttons
        BY <2>1, <3>1 DEF IInv, Genuine, OneUpload, Passive
      <3>3. \A h \in Handlers : upd[h].what # u
        BY <3>1, <3>2 DEF FilesInv, OwnUpload
      <3>4. ASSUME NEW a \in Admins
            PROVE  fsm'[a].path # u
        <4>1. CASE a = tap[t].by
          BY <1>0, <2>1, <3>1, <4>1, Rests
        <4>2. CASE a # tap[t].by
          BY <1>0, <2>1, <3>1, <4>2 DEF FilesInv, OwnRestore
        <4> QED BY <4>1, <4>2
      <3> QED BY <3>3, <3>4
    <2>4. \A h \in Handlers : HandlerRests(h)
      BY <2>1, <2>3 DEF HandlerRests, FilesInv, OwnUpload
    <2>5. FilesRest
      BY <1>0, <2>1, <2>2, <2>3, <2>4, TapsRest DEF FilesRest
    <2> QED BY <1>0, <2>5, RestKeeps
  <1>6. CASE Inspect(t) \/ ArchiveGone(t)
    <2>1. tap[t].pc # "idle"
      BY <1>6 DEF Inspect, ArchiveGone, At
    <2>2. \/ At(t, "inspect") /\ Goto(t, "dump") /\ UNCHANGED <<upd, Conversation>>
          \/ Abort(t)
      BY <1>6 DEF Inspect, ArchiveGone
    <2> QED BY <1>1, <1>4, <2>1, <2>2
  <1> QED BY <1>1, <1>2, <1>3, <1>5, <1>6 DEF RestoreStep

LEMMA ProcessFiles ==
  ASSUME IInv, FilesInv, Boot \/ Deploy \/ StopSignal \/ Drained \/ DrainTimesOut \/ Crash
  PROVE  FilesInv'
  <1>0. TypeOK
    BY DEF IInv
  <1>1. CASE Boot \/ Deploy \/ StopSignal
    <2>1. UNCHANGED <<upd, tap, fsm, staged, buttons>>
      BY <1>1 DEF Boot, Deploy, StopSignal, Conversation
    <2> QED BY <2>1 DEF FilesInv, OffersStagedFile, OwnFile, OwnUpload, OwnRestore
  <1>2. CASE Drained \/ DrainTimesOut \/ Crash
    <2>1. /\ upd' = [h \in Handlers |-> NoUpdate] /\ tap' = [t \in Taps |-> NoRestore]
          /\ fsm' = fsm \/ fsm' = [a \in Admins |-> NoDialogue]
          /\ UNCHANGED <<staged, buttons>>
      BY <1>2 DEF Drained, DrainTimesOut, Crash, Exit
    <2>2. NoUpdate.what \notin Uploads /\ NoUpdate.what # "cancel"
      BY BotAssumption DEF NoUpdate
    <2>3. FilesRest
      BY <2>1, <2>2, Rests DEF FilesRest, HandlerRests, TapRests
    <2> QED BY <1>0, <2>3, RestKeeps
  <1> QED BY <1>1, <1>2

LEMMA FilesInductive == Spec => []FilesInv
  <1>1. Init => FilesInv
    <2> SUFFICES ASSUME Init
                 PROVE  FilesInv
      OBVIOUS
    <2>1. /\ \A h \in Handlers : upd[h] = NoUpdate
          /\ \A t \in Taps : tap[t] = NoRestore
          /\ \A a \in Admins : fsm[a] = NoDialogue
      BY DEF Init
    <2>2. NoUpdate.what \notin Uploads /\ NoUpdate.what # "cancel"
      BY BotAssumption DEF NoUpdate
    <2> QED BY <2>1, <2>2, Rests DEF FilesInv, OffersStagedFile, OwnFile, OwnUpload, OwnRestore
  <1>2. IInv /\ FilesInv /\ [Next]_vars => FilesInv'
    <2> SUFFICES ASSUME IInv, FilesInv, [Next]_vars
                 PROVE  FilesInv'
      OBVIOUS
    <2>1. CASE UNCHANGED vars
      BY <2>1 DEF vars, FilesInv, OffersStagedFile, OwnFile, OwnUpload, OwnRestore
    <2>2. CASE Next
      BY <2>2, ProcessFiles, AdmitFiles, WorkFiles, ConfirmFiles, LeaveTapFiles, RestoreFiles
         DEF Next
    <2> QED BY <2>1, <2>2
  <1> QED BY <1>1, <1>2, Inductive, PTL DEF Spec

\* Whatever uploads, cancellations and restores of any admins overlap, a dialogue
\* offers a file that is still on disk: _drop_staged removes only the file of the
\* dialogue that it closes, and no dialogue shares it.
THEOREM OffersStaged == Spec => []OffersStagedFile
  <1>1. FilesInv => OffersStagedFile
    BY DEF FilesInv
  <1> QED BY <1>1, FilesInductive, PTL

=============================================================================
