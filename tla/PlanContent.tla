---------------------------- MODULE PlanContent ----------------------------
(***************************************************************************)
(* What is in a plan: the cells of its days and its assignments, and the   *)
(* handlers that edit them: set_slot, clear_day, copy_day,                 *)
(* copy_previous_week and set_assignments.                                 *)
(*                                                                         *)
(* An edit is its DELETE and INSERT statements, made from what the handler *)
(* loaded, each with its place in the order in which they run; the         *)
(* statements of other handlers come in between.                           *)
(* PostgreSQL runs them READ COMMITTED: a DELETE takes the rows that were  *)
(* there when it began, waits for whoever deletes them already, and does   *)
(* not see what was inserted in the meantime; an INSERT into a cell waits  *)
(* for, or fails on, another row of the cell (uq_day_slot).  Assignments   *)
(* have no such key.                                                       *)
(*                                                                         *)
(* A text stands for an activity or for a list of assignments.  Rights,    *)
(* status and version are left out (Dialogue, PlanLifecycle), and with     *)
(* them the row lock that an edit of a published plan waits for: it only   *)
(* takes interleavings away.                                               *)
(***************************************************************************)
EXTENDS Integers, Sequences

CONSTANTS
  Sessions,   \* handlers that may run at once
  Plans,
  NoPlan,
  Previous,   \* previous_plan: the latest plan of the student before this one
  Week,       \* WEEKDAY_KEYS, in their order
  SlotsPerDay,   \* SLOTS_PER_DAY
  Blank,      \* an empty cell, no assignments
  Requests,      \* the edits a run considers
  MaxEdits,   \* model bound: edits in a behaviour
  Contents    \* the plans at the start: which days they have, and their rows

VARIABLES
  days,     \* the weekdays in the range of each plan (plan_days)
  stored,     \* the committed rows of activities and assignments
  sess,     \* what each handler does
  asked,    \* how many edits began
  commits   \* how many were committed

cvars == <<days, stored, sess, asked, commits>>

\* The weekdays are apart, and the edits are those of PlanManager.
ASSUME ContentAssumption ==
  /\ SlotsPerDay \in Nat
  /\ Week \in Seq({Week[i] : i \in DOMAIN Week})
  /\ \A i, j \in DOMAIN Week : Week[i] = Week[j] => i = j
  /\ \A e \in Requests : e.op \in {"slot", "clear", "copy", "assignments", "week"}

\* A cell's key, and the key all assignments of a plan share.
Cell(p, d, s) == <<p, d, s>>
Assignments(p) == <<p>>
IsCell(key) == Len(key) = 3
DayCells(p, d) == {Cell(p, d, s) : s \in 0 .. SlotsPerDay - 1}
Cells(p) == UNION {DayCells(p, Week[i]) : i \in DOMAIN Week}

Idle == [pc |-> "idle", edit |-> Blank, prog |-> {}, doing |-> {}, seen |-> {}, dead |-> {},
         new |-> {}, want |-> {}, began |-> 0]

\* A row: its key, its text, and by which commit it came.
ContentInit ==
  /\ \E c \in Contents :
       /\ days = c.days
       /\ stored = {[key |-> r.key, text |-> r.text, by |-> 0] : r \in c.stored}
  /\ sess = [h \in Sessions |-> Idle]
  /\ asked = 0 /\ commits = 0

-----------------------------------------------------------------------------
(* The statements of an edit.                                              *)

Delete(n, keys) == [at |-> n, does |-> "delete", keys |-> keys, text |-> Blank]
Insert(n, key, text) == [at |-> n, does |-> "insert", keys |-> {key}, text |-> text]
Raise(n) == [at |-> n, does |-> "raise", keys |-> {}, text |-> Blank]  \* "unknown weekday"

\* to_domain: every weekday has a row on the sheet; one outside the range of the
\* plan is empty, and so is a plan there is none of.
Loaded(key) ==
  IF \E r \in stored : r.key = key THEN (CHOOSE r \in stored : r.key = key).text ELSE Blank

\* PlanRepository.set_slot, which wants the day to be in the plan's range, and
\* clear_day, which does not.
SetSlot(n, c, text) ==
  IF c[2] \notin days[c[1]] THEN {Raise(n)}
  ELSE {Delete(n, {c})} \cup {Insert(n + 1, c, t) : t \in {text} \ {Blank}}
ClearDay(n, p, d) == {Delete(n, DayCells(p, d))}

\* One set_slot for each activity of the source day.
FillDay(n, p, d, from, source) ==
  UNION {SetSlot(n + 2 * i, Cell(p, d, i), Loaded(Cell(from, source, i))) :
           i \in {j \in 0 .. SlotsPerDay - 1 : Loaded(Cell(from, source, j)) # Blank}}

\* Mutant: the target day is not cleared first.
CopyDayOver(n, p, d, from, source) == FillDay(n + 1, p, d, from, source)

CopyDay(n, p, d, from, source) == ClearDay(n, p, d) \cup FillDay(n + 1, p, d, from, source)

\* The i-th day of a copy of the week begins here.
Place(i) == (2 * SlotsPerDay + 1) * (i - 1)

\* replace_assignments; no two of its rows collide, so their order is left open.
ReplaceAssignments(n, p, texts) ==
  {Delete(n, {Assignments(p)})}
  \cup {Insert(n + 1, Assignments(p), t) : t \in texts \ {Blank}}

Program(e) ==
  CASE e.op = "slot" -> SetSlot(0, Cell(e.plan, e.day, e.slot), e.text)
    [] e.op = "clear" -> ClearDay(0, e.plan, e.day)
    [] e.op = "copy" -> CopyDay(0, e.plan, e.to, e.plan, e.day)
    [] e.op = "assignments" -> ReplaceAssignments(0, e.plan, {e.text})
    [] e.op = "week" -> UNION {CopyDay(Place(i), e.plan, Week[i], Previous[e.plan], Week[i]) :
                                 i \in DOMAIN Week}

-----------------------------------------------------------------------------
(* What an edit is for: the keys it is about, and what shall be there.     *)

Targets(e) ==
  CASE e.op = "slot" -> {Cell(e.plan, e.day, e.slot)}
    [] e.op = "clear" -> DayCells(e.plan, e.day)
    [] e.op = "copy" -> DayCells(e.plan, e.to)
    [] e.op = "assignments" -> {Assignments(e.plan)}
    [] e.op = "week" -> Cells(e.plan) \cup {Assignments(e.plan)}

\* The text a cell gets.
Meant(e, c) ==
  CASE e.op = "slot" -> e.text
    [] e.op = "copy" -> Loaded(Cell(e.plan, e.day, c[3]))
    [] e.op = "week" -> Loaded(Cell(Previous[e.plan], c[2], c[3]))
    [] OTHER -> Blank

Meaning(e) ==
  IF e.op = "assignments" THEN {[key |-> Assignments(e.plan), text |-> e.text]}
  ELSE {[key |-> c, text |-> Meant(e, c)] : c \in {k \in Targets(e) : IsCell(k)}}

Filled(want) == {w \in want : w.text # Blank}

-----------------------------------------------------------------------------
(* A handler.                                                              *)

Is(h, pc) == sess[h].pc = pc
Quiet == \A h \in Sessions : Is(h, "idle")

\* get_editable has loaded the plan, and for a copy of the week previous_plan the
\* other one, if there is any: its cells first.
BeginEdit(h, e) ==
  /\ Is(h, "idle") /\ asked < MaxEdits
  /\ e.op = "week" => Previous[e.plan] # NoPlan
  /\ asked' = asked + 1
  /\ sess' = [sess EXCEPT ![h] =
       [Idle EXCEPT !.pc = IF e.op = "week" THEN "list" ELSE "ready", !.edit = e,
                    !.prog = Program(e), !.want = Filled(Meaning(e)), !.began = commits]]
  /\ UNCHANGED <<days, stored, commits>>

\* Then its assignments.
LoadAssignments(h) ==
  LET e == sess[h].edit
      texts == {r.text : r \in {x \in stored : x.key = Assignments(Previous[e.plan])}}
  IN /\ Is(h, "list")
     /\ sess' = [sess EXCEPT
          ![h].pc = "ready",
          ![h].prog = @ \cup ReplaceAssignments(Place(Len(Week) + 1), e.plan, texts),
          ![h].want = @ \cup
             Filled({[key |-> Assignments(e.plan), text |-> t] : t \in texts})]
     /\ UNCHANGED <<days, stored, asked, commits>>

\* The statement whose turn it is.
Due(h, does) ==
  {s \in sess[h].prog : s.does = does /\ \A t \in sess[h].prog : s.at <= t.at}

\* A DELETE begins: the rows it will take.
Look(h) ==
  /\ Is(h, "ready")
  /\ \E s \in Due(h, "delete") :
       sess' = [sess EXCEPT
         ![h].pc = "deleting", ![h].prog = @ \ {s}, ![h].doing = s.keys,
         ![h].seen = {r \in stored : r.key \in s.keys} \ sess[h].dead]
  /\ UNCHANGED <<days, stored, asked, commits>>

\* It has its locks: rows that another handler deleted by now are passed over.
Strike(h) ==
  /\ Is(h, "deleting")
  /\ \A g \in Sessions \ {h} : sess[h].seen \cap sess[g].dead = {}
  /\ sess' = [sess EXCEPT
       ![h].pc = "ready", ![h].seen = {}, ![h].doing = {},
       ![h].dead = @ \cup (sess[h].seen \cap stored),
       ![h].new = {n \in @ : n.key \notin sess[h].doing}]
  /\ UNCHANGED <<days, stored, asked, commits>>

\* The cell is free, or becomes free with this handler's own commit.
Free(h, key) ==
  IsCell(key) =>
    /\ \A r \in stored : r.key = key => r \in sess[h].dead
    /\ \A g \in Sessions \ {h} : \A n \in sess[g].new : n.key # key

Add(h) ==
  /\ Is(h, "ready")
  /\ \E s \in Due(h, "insert") :
       /\ \A key \in s.keys : Free(h, key)
       /\ sess' = [sess EXCEPT
            ![h].prog = @ \ {s},
            ![h].new = @ \cup {[key |-> key, text |-> s.text] : key \in s.keys}]
  /\ UNCHANGED <<days, stored, asked, commits>>

CommitEdit(h) ==
  /\ Is(h, "ready") /\ sess[h].prog = {}
  /\ commits' = commits + 1
  /\ stored' = (stored \ sess[h].dead)
             \cup {[key |-> n.key, text |-> n.text, by |-> commits'] : n \in sess[h].new}
  /\ sess' = [sess EXCEPT ![h] = Idle]
  /\ UNCHANGED <<days, asked>>

\* It raises: on a cell that is taken, a day outside the range or anything else;
\* or the bot stops.
Rollback(h) ==
  /\ ~Is(h, "idle")
  /\ sess' = [sess EXCEPT ![h] = Idle]
  /\ UNCHANGED <<days, stored, asked, commits>>

ContentNext ==
  \E h \in Sessions :
    \/ \E e \in Requests : BeginEdit(h, e)
    \/ LoadAssignments(h)
    \/ Look(h) \/ Strike(h) \/ Add(h)
    \/ CommitEdit(h) \/ Rollback(h)

ContentSpec == ContentInit /\ [][ContentNext]_cvars

-----------------------------------------------------------------------------
(* An edit that is committed changes nothing but what it is about, and      *)
(* there it leaves what was meant (for a copy: the source as it was loaded, *)
(* empty cells too), except for what other handlers committed since it      *)
(* began.                                                                   *)
EditLands ==
  [][\A h \in Sessions : CommitEdit(h) =>
       LET x == sess[h]
       IN /\ \A r \in (stored \ stored') \cup (stored' \ stored) : r.key \in Targets(x.edit)
          /\ \A w \in x.want : \E r \in stored' : r.key = w.key /\ r.text = w.text
          /\ \A r \in stored' : r.key \in Targets(x.edit) =>
               \/ [key |-> r.key, text |-> r.text] \in x.want
               \/ r.by \in x.began + 1 .. commits]_cvars

=============================================================================
