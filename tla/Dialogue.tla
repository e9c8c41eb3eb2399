------------------------------ MODULE Dialogue ------------------------------
(***************************************************************************)
(* The conversation with the bot: the wizard position (FSM state and data) *)
(* of an advisor and of an administrator, and the handlers that read it,   *)
(* move it and write what the user typed.                                  *)
(*                                                                         *)
(* Every update is its own task.  The filters compare the FSM state when   *)
(* the update arrives; the handler reads the FSM data later, after the     *)
(* middlewares; it checks the caller's rights against the rows of that     *)
(* moment, writes rows, moves the wizard, shows the next screen, and the   *)
(* session is committed last, so the position a screen shows can be ahead  *)
(* of the rows.  A button of any message of the chat can be tapped at any  *)
(* time, whatever the wizard waits for.                                    *)
(*                                                                         *)
(* The handlers are tables, one per section of the handler modules: what a *)
(* button carries or a text says, what is read from the FSM data, the      *)
(* right that is checked, what is written and where the wizard goes.  The  *)
(* actions below run any row of them.  Left out: pages, search terms, list *)
(* modes and screens that neither move the wizard nor write.               *)
(***************************************************************************)
EXTENDS Naturals, FiniteSets

CONSTANTS
  Handlers,   \* invocations that may be in flight at the same time
  Advisor,    \* the advisor's account
  Admin,      \* an account of ADMIN_IDS
  Other,      \* another advisor
  Students,
  PlanIds,    \* model bound: plans that may ever be created
  LastDate,   \* model bound: the dates are 1 .. LastDate
  WeekLength, \* days of a calendar week
  Weeks,      \* the first days of the weeks that are offered
  Days,       \* weekday keys
  Slots,      \* SLOTS_PER_DAY
  None,       \* a key the FSM data does not have, or has as None
  Unborn,     \* no plan has this id yet
  Gone,       \* of a plan: not committed yet, rolled back, or deleted
  Sites       \* the deployments and users a run considers

Users == {Advisor, Admin}
Dates == 1 .. LastDate

ASSUME DialogueAssumption ==
  /\ Slots \in Nat \ {0}
  /\ LastDate \in Nat
  /\ WeekLength \in Nat \ {0}
  /\ \A d \in Weeks : d \in Dates /\ d + WeekLength - 1 \in Dates
  /\ Advisor # Admin /\ Unborn # Gone

\* Where the wizard is: PlanFlow and AdminFlow, or nowhere.  The states that
\* wait for a file or a confirmation of a restore are in BotProcess.
States == {"idle", "select_student", "add_student", "edit_student",
           "link_student", "select_week", "range_start", "range_end",
           "edit_day", "edit_slot", "edit_assignments", "add_advisor",
           "edit_advisor", "edit_person", "search_advisor", "search_person",
           "search_student"}

\* The keys of the FSM data the properties tell apart; "heir" is carried by
\* buttons only.
Keys == {"plan", "day", "slot", "student", "start", "end", "target"}
Fields == Keys \cup {"heir"}

Domain(f) ==
  CASE f = "plan" -> PlanIds
    [] f = "day" -> Days
    [] f = "slot" -> 0 .. Slots - 1
    [] f = "student" -> Students
    [] f \in {"start", "end"} -> Dates
    [] f = "target" -> Students \cup {Advisor, Other}
    [] f = "heir" -> {Advisor, Other}

ASSUME NoneAssumption == \A f \in Fields : None \notin Domain(f)

-----------------------------------------------------------------------------
(* Rows of the tables.  carries: the fields of the button, or of the text; *)
(* reads: data["key"]; gets: data.get("key"); right: what is checked; does:*)
(* what is written; to: the FSM state that is set; puts: the keys that are *)
(* updated.                                                                *)

On(carries, right) ==
  [carries |-> carries, reads |-> {}, gets |-> {}, right |-> right,
   does |-> "show", to |-> "same", puts |-> {}]
Reads(keys, right) == [On({}, right) EXCEPT !.reads = keys]
Does(r, what) == [r EXCEPT !.does = what]
Moves(r, to, puts) == [r EXCEPT !.to = to, !.puts = puts]
Clears(r) == Moves(r, "clear", {})
All(names, r) == [n \in names |-> r]

\* Tables of different handlers together.
Joined(tables) ==
  [n \in UNION {DOMAIN t : t \in tables} |-> (CHOOSE t \in tables : n \in DOMAIN t)[n]]

\* /start, with or without an invite, and /cancel forget the dialogue; the other
\* commands and the profile show something.
Commands == Joined({All({"start", "cancel"}, Clears(On({}, "open"))),
                    All({"help", "profile"}, On({}, "open"))})

\* The menu, a new plan, the roster, a new student.
Entries ==
  [menu     |-> Clears(On({}, "open")),
   new      |-> Moves(On({}, "open"), "select_student", {}),
   students |-> Clears(On({}, "open")),
   add      |-> Moves(On({}, "open"), "add_student", {})]
AddStudentInput == Clears(Does(On({}, "active"), "add"))

\* Choosing the student and the week of a new plan, or a range of one's own, for
\* which an earlier start is forgotten.
Picking ==
  [page   |-> On({}, "open"),
   search |-> Moves(On({}, "open"), "search_student", {}),
   pick   |-> Moves(On({"student"}, "student"), "select_week", {"student"}),
   week   |-> Moves(Does(On({"student", "start"}, "create"), "create"),
                    "edit_day", {"plan", "student"}),
   custom |-> Moves(On({"student"}, "open"), "range_start", {"student", "start"})]
SearchStudentInput == Moves(On({}, "open"), "select_student", {})

\* Both dates in one message, or one at a time; the summary of the range follows.
RangeInput == Moves([On({"start", "end"}, "range") EXCEPT !.gets = {"student"}],
                    "same", {"start", "end"})
RangeStartInput == Moves(On({"start"}, "open"), "range_end", {"start"})

\* Mutant: the summary stores the start again and not the end.
RangeEndForgotten ==
  [RangeInput EXCEPT !.carries = {"end"}, !.reads = {"start"}, !.puts = {"start"}]

RangeEndInput == [RangeInput EXCEPT !.carries = {"end"}, !.reads = {"start"}]

\* What the data says is created, for the student of the button.
RangeConfirm ==
  [confirm |-> Moves(Does([On({"student"}, "create") EXCEPT !.reads = {"start", "end"}],
                          "create"), "edit_day", {"plan", "student"})]

\* The card of a student and the invite link on it.  "connect" forgets the
\* dialogue before it checks anything.
StudentCards == Joined({
  All({"card", "copylink", "sharelink", "ask_invite"}, On({"student"}, "student")),
  [unlink  |-> Does(On({"student"}, "admin student"), "student"),
   connect |-> Clears(On({"student"}, "open"))]})

\* Invite links, the numeric id and the name; none asks whether the account is
\* active.
StudentEdits == Joined({
  All({"invite", "revoke"}, Does(On({"student"}, "student"), "student")),
  [setid |-> Moves(On({"student"}, "student"), "link_student", {"student"}),
   edit  |-> Moves(On({"student"}, "student"), "edit_student", {"student"})]})

\* Mutant: the input trusts the check of the prompt.
StudentInputUnchecked == Clears(Does(Reads({"student"}, "open"), "student"))

\* The numeric id, or the name and the grade, of the student of the data.
StudentInput == Clears(Does(Reads({"student"}, "student"), "student"))

\* The plan of the current week, found or made, and the deletion in two steps.
StudentWeek == Joined({
  [thisweek |-> Moves(Does(On({"student", "start"}, "student"), "this week"),
                      "edit_day", {"plan", "student"}),
   del      |-> Does(On({"student"}, "scope"), "delete student")],
  All({"ask_del", "del_confirm"}, On({"student"}, "scope"))})

\* The days of a plan: opened, cleared and copied from buttons.
PlanDays == Joined({
  [days     |-> Moves(On({"plan"}, "plan"), "edit_day", {"plan"}),
   open_day |-> Moves(On({"plan", "day"}, "plan"), "edit_day", {"plan", "day"}),
   copy     |-> On({"plan"}, "plan")],
  All({"clear_day", "copyto", "copyweek"}, Does(On({"plan"}, "plan"), "plan"))})

\* Mutant: the prompt of a cell leaves the day to the data.
PlanSlotsNoDay ==
  [edit_slot  |-> Moves(On({"plan", "day", "slot"}, "plan"), "edit_slot", {"plan", "slot"}),
   clear_slot |-> Does(On({"plan"}, "plan"), "plan")]

\* One cell of a day: asked for, or cleared from its button.
PlanSlots ==
  [edit_slot  |-> Moves(On({"plan", "day", "slot"}, "plan"), "edit_slot",
                        {"plan", "day", "slot"}),
   clear_slot |-> Does(On({"plan"}, "plan"), "plan")]

\* What is typed goes into the cell of the data; then the next cell is asked for.
SlotInput == Moves(Does(Reads({"plan", "day", "slot"}, "plan"), "plan"), "same", {"slot"})

PlanAssignments ==
  [open_assignments  |-> Moves(On({"plan"}, "plan"), "edit_assignments", {"plan"}),
   clear_assignments |-> Does(On({"plan"}, "plan"), "plan")]
AssignmentsInput == Moves(Does(Reads({"plan"}, "plan"), "plan"), "edit_day", {})

\* Preview, confirmation and generation; sending; lists, versions and deletion.
Generation == Joined({All({"preview", "confirm_plan"}, On({"plan"}, "plan")),
                      [generate |-> Clears(Does(On({"plan"}, "plan"), "plan"))]})
Sending == [resend   |-> On({"plan"}, "view"),
            ask_send |-> On({"plan"}, "plan"),
            send     |-> Does(On({"plan"}, "plan"), "plan")]
Listing == [list_plans |-> Clears(On({}, "open")),
            paginate   |-> On({}, "open")]
Opening == Joined({
  All({"versions", "get_file", "open"}, On({"plan"}, "view")),
  [ask_delete |-> On({"plan"}, "open"),
   delete     |-> Clears(Does(On({"plan"}, "plan"), "delete plan"))]})

\* The administrator's panel.  Access requests: Accounts has what they grant.
AdminHome == [home |-> Clears(On({}, "admin"))]
AdminRequests == Joined({
  All({"requests", "request", "grant_student"}, On({}, "admin")),
  All({"grant", "reject"}, Does(On({}, "admin"), "add"))})

AdminAdvisors == Joined({
  [add_advisor  |-> Moves(On({}, "admin"), "add_advisor", {}),
   edit_advisor |-> Moves(On({"target"}, "account"), "edit_advisor", {"target"}),
   search_advisor |-> Moves(On({}, "admin"), "search_advisor", {})],
  All({"advisors", "advisor", "advisor_students", "advisor_plans"}, On({}, "admin"))})
AddAdvisorInput == Clears(Does(On({}, "admin"), "add"))

\* The name and the id of the account of the data, if it still exists.
EditAdvisorInput == Clears(Does(Reads({"target"}, "account"), "account"))
AdminSearchInput == Clears(On({}, "admin"))

\* Suspension toggles; deletion hands the students on or leaves them without.
AdminSuspension ==
  [ask_suspend |-> On({"target"}, "account"),
   do_suspend  |-> Does(On({"target"}, "account"), "suspend")]
AdminAdvisorRemoval == Joined({
  All({"ask_del_advisor", "del_advisor_pick"}, On({}, "admin")),
  [del_advisor    |-> Does(On({}, "removable"), "delete advisor"),
   del_advisor_to |-> Does(On({}, "removable"), "hand over")]})

AdminStudents == Joined({
  [edit_person   |-> Moves(On({"target"}, "account"), "edit_person", {"target"}),
   search_person |-> Moves(On({}, "admin"), "search_person", {})],
  All({"persons", "person", "person_plans"}, On({}, "admin"))})
EditPersonInput == Clears(Does(Reads({"target"}, "account"), "account"))

AdminStudentRemoval == Joined({
  All({"ask_suspend_student", "ask_del_student", "del_student"}, On({}, "admin")),
  [do_suspend_student |-> Does(On({"student"}, "scope"), "student"),
   del_student_final  |-> Does(On({"student"}, "scope"), "delete student")]})

AdminTransfer == Joined({
  All({"transfer", "transfer_to"}, On({}, "admin")),
  [do_transfer |-> Does(On({"student", "heir"}, "scope"), "transfer")]})

AdminConnection == Joined({
  All({"connection", "ask_unlink"}, On({}, "admin")),
  All({"reissue", "revoke_invite", "do_unlink"}, Does(On({"student"}, "scope"), "student"))})

AdminPlans == Joined({
  All({"plans", "plan", "ask_del_plan"}, On({}, "admin")),
  [del_plan |-> Does(On({"plan"}, "plan"), "delete plan")]})

AdminTaps == Joined({AdminHome, AdminRequests, AdminAdvisors, AdminSuspension,
                     AdminAdvisorRemoval, AdminStudents, AdminStudentRemoval,
                     AdminTransfer, AdminConnection, AdminPlans})

Taps == Joined({Commands, Entries, Picking, RangeConfirm, StudentCards, StudentEdits,
                StudentWeek, PlanDays, PlanSlots, PlanAssignments, Generation, Sending,
                Listing, Opening, AdminTaps})

\* The handlers of texts, by the state their filter asks for; a message with
\* both dates has a row of its own.
Inputs ==
  [add_student |-> AddStudentInput, search_student |-> SearchStudentInput,
   range_start |-> RangeStartInput, range_end |-> RangeEndInput,
   link_student |-> StudentInput, edit_student |-> StudentInput,
   edit_slot |-> SlotInput, edit_assignments |-> AssignmentsInput,
   add_advisor |-> AddAdvisorInput, edit_advisor |-> EditAdvisorInput,
   search_advisor |-> AdminSearchInput, edit_person |-> EditPersonInput,
   search_person |-> AdminSearchInput]

-----------------------------------------------------------------------------
VARIABLES
  site,     \* a Setting, fixed when a behaviour starts
  fsm,      \* per user: the FSM state and data
  hs,       \* the handlers in flight
  people,   \* students that exist
  linked,   \* the students linked to the advisor
  account,  \* the advisor's account: active, suspended or deleted
  plans,    \* the plans, by id
  screen    \* per user: the latest screen that moved the wizard, kept for
            \* patient users only

rows == <<people, linked, account, plans>>
vars == <<site, fsm, hs, people, linked, account, plans, screen>>

Values == (UNION {Domain(f) : f \in Fields}) \cup {None}
Position == [at : States, data : [Keys -> Values]]
Nowhere == [at |-> "idle", data |-> [k \in Keys |-> None]]

Plan == [student : Students, start : Dates, end : Dates, by : Users \cup {Other}]
Live(p) == plans[p] \notin {Unborn, Gone}

\* The FSM storage the process was configured with; the rows it starts with, no
\* two plans of one student starting on one day; whether a user waits for the
\* answer before the next update; and, a bound of the model, the buttons a user
\* taps.
Setting ==
  {x \in [storage : {"memory", "redis"}, linked : SUBSET Students,
          plans : [PlanIds -> Plan \cup {Unborn, Gone}], patient : BOOLEAN,
          taps : [Users -> SUBSET DOMAIN Taps]] :
     \A p, q \in PlanIds : p # q /\ {x.plans[p], x.plans[q]} \subseteq Plan =>
       \/ x.plans[p].student # x.plans[q].student
       \/ x.plans[p].start # x.plans[q].start}

ASSUME SitesAssumption == Sites \subseteq Setting

\* A handler in flight: what it was started with, the values it works with, what
\* it will put into the FSM data, and what it was entitled to at some moment since
\* the update arrived (kept for WrittenByEntitled only).
NoHandler ==
  [user |-> None, act |-> None, on |-> None, pc |-> "none", active |-> FALSE,
   it |-> [f \in Fields |-> None], does |-> "show", to |-> "same", puts |-> {},
   seen |-> [k \in Keys |-> None], may |-> {}]

Row(h) ==
  IF hs[h].on = "button" THEN Taps[hs[h].act]
  ELSE IF hs[h].act = "both dates" THEN RangeInput ELSE Inputs[hs[h].on]

At(h, pc) == hs[h].pc = pc

Init ==
  /\ site \in Sites
  /\ fsm = [u \in Users |-> Nowhere]
  /\ hs = [h \in Handlers |-> NoHandler]
  /\ people = Students
  /\ linked = site.linked
  /\ account = "active"
  /\ plans = site.plans
  /\ screen = [u \in Users |-> Nowhere]

-----------------------------------------------------------------------------
(* Rights.                                                                 *)

Owns(u, s) == s \in people /\ (u = Admin \/ s \in linked)
Edits(u, p) == Live(p) /\ (u = Admin \/ plans[p].by = u)
Exists(x) == x \in people \/ x = Other \/ (x = Advisor /\ account # "deleted")

\* The last day of a range, or of the calendar week that a button names.
LastDay(it) == IF it["end"] = None THEN it["start"] + WeekLength - 1 ELSE it["end"]

\* What the handler checks, against the committed rows; `active' is what
\* UserMiddleware loaded.
Allowed(h, right) ==
  LET x == hs[h]
  IN CASE right = "open" -> TRUE
       [] right = "active" -> x.active
       [] right = "admin" -> x.user = Admin
       [] right = "admin student" -> x.user = Admin /\ x.it["student"] \in people
       [] right = "account" -> x.user = Admin /\ Exists(x.it["target"])
       [] right = "removable" -> x.user = Admin /\ account # "deleted"
       [] right = "student" -> Owns(x.user, x.it["student"])
       [] right = "scope" -> x.active /\ Owns(x.user, x.it["student"])
       [] right = "view" -> Edits(x.user, x.it["plan"])
       [] right = "plan" -> x.active /\ Edits(x.user, x.it["plan"])
       [] right = "range" -> x.it["start"] <= x.it["end"]
       [] right = "create" -> /\ x.active
                              /\ Owns(x.user, x.it["student"])
                              /\ x.it["start"] <= LastDay(x.it)

\* The students and plans that are a user's to change; and the user, while the
\* account is active.
Entitled(u) ==
  IF u = Admin THEN {u} \cup people \cup {p \in PlanIds : Live(p)}
  ELSE (linked \cap people) \cup {p \in PlanIds : Live(p) /\ plans[p].by = u}
       \cup (IF account = "active" THEN {u} ELSE {})

-----------------------------------------------------------------------------
(* An update arrives and its filter is evaluated.                          *)

Begin(h, u, act, on, it) ==
  /\ At(h, "none")
  /\ site.patient => \A g \in Handlers : hs[g].user # u
  /\ hs' = [hs EXCEPT ![h] = [NoHandler EXCEPT
              !.user = u, !.act = act, !.on = on, !.pc = "admitted", !.it = it,
              !.may = Entitled(u)]]
  /\ UNCHANGED <<site, fsm, rows, screen>>

\* The ways to fill in the fields a button or a text carries.
Carried(fields) ==
  {[f \in Fields |-> IF f \in fields THEN v[f] ELSE None] :
     v \in {w \in [fields -> UNION {Domain(f) : f \in fields}] :
              \A f \in fields : w[f] \in Domain(f)}}

Buttons == [act \in DOMAIN Taps |-> Carried(Taps[act].carries)]
Texts == [at \in DOMAIN Inputs |-> Carried(Inputs[at].carries)]
BothDates == Carried(RangeInput.carries)

\* The administrator's buttons are in nobody else's chat; a button names a plan
\* or a student that exists or existed, whoever it belongs to by now.
Tap(h, u, act, it) ==
  /\ act \in DOMAIN AdminTaps => u = Admin
  /\ it["plan"] # None => plans[it["plan"]] # Unborn
  /\ it["start"] # None => it["start"] \in Weeks
  /\ Begin(h, u, act, "button", it)

Type(h, u, at, it) ==
  /\ fsm[u].at = at
  /\ Begin(h, u, "text", at, it)

TypeBothDates(h, u, it) ==
  /\ fsm[u].at = "range_start"
  /\ Begin(h, u, "both dates", "range_start", it)

\* The handler's task ends.
End(h) == hs' = [hs EXCEPT ![h] = NoHandler]

\* Who a handler answers and what its values name: nothing else matters of what it
\* is entitled to.
Named(u, it) == {u, it["plan"], it["student"]}

\* UserMiddleware has loaded the account; the handler reads the FSM data.
Enter(h) ==
  LET x == hs[h]  r == Row(h)  data == fsm[x.user].data
      it == [f \in Fields |-> IF f \in r.reads \cup r.gets THEN data[f] ELSE x.it[f]]
  IN /\ At(h, "admitted")
     /\ x.user = Advisor => account # "deleted"
     /\ \A k \in r.reads : data[k] # None
     /\ hs' = [hs EXCEPT ![h].pc = "checking",
                         ![h].active = (x.user = Admin \/ account = "active"),
                         ![h].it = it, ![h].may = @ \cap Named(x.user, it)]
     /\ UNCHANGED <<site, fsm, rows, screen>>

-----------------------------------------------------------------------------
(* The handler checks and works.                                           *)

\* It goes on with the values `it' to do `does' and then move the wizard.
Proceed(h, it, does, to, puts) ==
  hs' = [hs EXCEPT ![h].pc = "moving", ![h].it = it, ![h].does = does,
                   ![h].to = to, ![h].puts = puts]

\* The plan of the student that starts on that day, whoever wrote it.
PlanAt(s, d) == {p \in PlanIds : Live(p) /\ plans[p].student = s /\ plans[p].start = d}

\* Most handlers: what the row says.  In the last cell of a day the wizard goes
\* back to the day, in any other it moves to the next one.
CheckPlain(h) ==
  LET r == Row(h)  x == hs[h]
  IN /\ At(h, "checking")
     /\ r.does \notin {"create", "this week"}
     /\ Allowed(h, r.right)
     /\ IF x.on = "edit_slot" /\ x.it["slot"] + 1 = Slots
        THEN Proceed(h, x.it, r.does, "edit_day", {})
        ELSE Proceed(h, x.it, r.does, r.to, r.puts)
     /\ UNCHANGED <<site, fsm, rows, screen>>

\* create_plan finds the plan that starts on that day: it is opened, whatever its
\* last day and its author; the current week's is opened with no state set.
CheckFound(h) ==
  LET r == Row(h)  x == hs[h]
  IN /\ At(h, "checking")
     /\ r.does \in {"create", "this week"}
     /\ Allowed(h, r.right)
     /\ \E p \in PlanAt(x.it["student"], x.it["start"]) :
          LET it == [x.it EXCEPT !["plan"] = p]
          IN IF r.does = "this week" THEN Proceed(h, it, "show", "same", {"plan"})
             ELSE Proceed(h, it, "show", r.to, r.puts)
     /\ UNCHANGED <<site, fsm, rows, screen>>

\* It does not find one: the row is inserted, which takes an id for good, and is
\* there for others when the handler commits.
CheckNew(h) ==
  LET r == Row(h)  x == hs[h]
  IN /\ At(h, "checking")
     /\ r.does \in {"create", "this week"}
     /\ Allowed(h, r.right)
     /\ x.active
     /\ PlanAt(x.it["student"], x.it["start"]) = {}
     /\ \E p \in PlanIds :
          /\ plans[p] = Unborn
          /\ plans' = [plans EXCEPT ![p] = Gone]
          /\ Proceed(h, [x.it EXCEPT !["plan"] = p, !["end"] = LastDay(x.it)],
                     "create", r.to, r.puts)
     /\ UNCHANGED <<site, fsm, people, linked, account, screen>>

\* It ends early: an unknown account, a key the data does not have, a check that
\* fails, a text that is refused, or an exception at any point.  The session is
\* rolled back; what the wizard was moved to stays.
Stop(h) ==
  /\ ~At(h, "none")
  /\ End(h)
  /\ UNCHANGED <<site, fsm, rows, screen>>

-----------------------------------------------------------------------------
(* The wizard is moved.  MemoryStorage does it without giving way to other *)
(* tasks; with Redis every call is a round trip, and update_data is two.   *)

\* What the handler puts under the key k.
Put(h, k) ==
  IF hs[h].on = "edit_slot" THEN hs[h].it["slot"] + 1 ELSE hs[h].it[k]

NewAt(h, at) ==
  CASE hs[h].to = "same" -> at
    [] hs[h].to = "clear" -> "idle"
    [] OTHER -> hs[h].to

NewData(h, data) ==
  IF hs[h].to = "clear" THEN Nowhere.data
  ELSE [k \in Keys |-> IF k \in hs[h].puts THEN Put(h, k) ELSE data[k]]

\* The prompt a screen is: the state it waits in, the summary of a range, or an
\* overview that asks for nothing.
Prompt(h) ==
  IF hs[h].to # "same" THEN NewAt(h, "idle")
  ELSE CASE hs[h].on \in {"range_start", "range_end"} -> "summary"
         [] hs[h].on = "edit_slot" -> "edit_slot"
         [] OTHER -> "overview"

\* The next screen is sent, with the values the handler worked with; one that
\* moved nothing leaves the dialogue where it is.  A handler that wrote nothing
\* has nothing to commit.
Show(h) ==
  /\ screen' = IF ~site.patient \/ (hs[h].to = "same" /\ hs[h].puts = {}) THEN screen
               ELSE [screen EXCEPT ![hs[h].user] =
                       [at |-> Prompt(h), data |-> NewData(h, [k \in Keys |-> hs[h].it[k]])]]
  /\ IF hs[h].does = "show" THEN End(h) ELSE hs' = [hs EXCEPT ![h].pc = "writing"]

Move(h) ==
  LET u == hs[h].user
  IN /\ At(h, "moving")
     /\ site.storage = "memory"
     /\ fsm' = [fsm EXCEPT ![u] = [at |-> NewAt(h, fsm[u].at),
                                   data |-> NewData(h, fsm[u].data)]]
     /\ Show(h)
     /\ UNCHANGED <<site, rows>>

SetState(h) ==
  LET u == hs[h].user
  IN /\ At(h, "moving")
     /\ site.storage = "redis"
     /\ fsm' = [fsm EXCEPT ![u].at = NewAt(h, @)]
     /\ hs' = [hs EXCEPT ![h].pc = "placed"]
     /\ UNCHANGED <<site, rows, screen>>

GetData(h) ==
  /\ At(h, "placed")
  /\ hs' = [hs EXCEPT ![h].pc = "got", ![h].seen = fsm[hs[h].user].data]
  /\ UNCHANGED <<site, fsm, rows, screen>>

\* Nothing is put back when there is nothing to update.
SetData(h) ==
  LET x == hs[h]
  IN /\ At(h, "got")
     /\ fsm' = IF x.puts = {} /\ x.to # "clear" THEN fsm
               ELSE [fsm EXCEPT ![x.user].data = NewData(h, x.seen)]
     /\ Show(h)
     /\ UNCHANGED <<site, rows>>

-----------------------------------------------------------------------------
(* The session is committed.                                               *)

Writes == {"show", "add", "plan", "student", "account", "create", "delete plan",
           "delete student", "suspend", "transfer", "delete advisor", "hand over"}

\* The rows as the handler leaves them; the content of plans and of accounts is
\* not modelled here.
PlansAfter(x) ==
  [p \in PlanIds |->
     CASE x.does = "create" /\ p = x.it["plan"] ->
            [student |-> x.it["student"], start |-> x.it["start"],
             end |-> x.it["end"], by |-> x.user]
       [] x.does = "delete plan" /\ p = x.it["plan"] -> Gone
       [] x.does = "delete student" /\ Live(p) /\ plans[p].student = x.it["student"] -> Gone
       [] x.does = "delete advisor" /\ Live(p) /\ plans[p].by = Advisor -> Gone
       [] x.does = "hand over" /\ Live(p) /\ plans[p].by = Advisor ->
            [plans[p] EXCEPT !.by = Other]
       [] OTHER -> plans[p]]

\* The links, deleted with the student.
LinkedAfter(x) ==
  CASE x.does = "transfer" ->
         IF x.it["heir"] = Advisor THEN linked \cup {x.it["student"]}
         ELSE linked \ {x.it["student"]}
    [] x.does = "delete student" -> linked \ {x.it["student"]}
    [] x.does \in {"delete advisor", "hand over"} -> {}
    [] OTHER -> linked

AccountAfter(x) ==
  CASE x.does = "suspend" /\ x.it["target"] = Advisor ->
         IF account = "active" THEN "suspended" ELSE "active"
    [] x.does \in {"delete advisor", "hand over"} -> "deleted"
    [] OTHER -> account

\* The row a handler updates or refers to is still there, and a new plan is the
\* only one of its student that starts on that day.
StillThere(x) ==
  CASE x.does \in {"plan", "delete plan"} -> Live(x.it["plan"])
    [] x.does \in {"student", "transfer"} -> x.it["student"] \in people
    [] x.does \in {"account", "suspend"} -> Exists(x.it["target"])
    [] x.does = "create" -> /\ x.it["student"] \in people
                            /\ PlanAt(x.it["student"], x.it["start"]) = {}
    [] OTHER -> TRUE

Commit(h) ==
  LET x == hs[h]  entitled == [u \in Users |-> Entitled(u)]
  IN /\ At(h, "writing")
     /\ StillThere(x)
     /\ plans' = PlansAfter(x)
     /\ linked' = LinkedAfter(x)
     /\ account' = AccountAfter(x)
     /\ people' = IF x.does = "delete student" THEN people \ {x.it["student"]} ELSE people
     /\ hs' = [g \in Handlers |->
                 CASE g = h -> NoHandler
                   [] g # h /\ At(g, "none") -> hs[g]
                   [] OTHER -> [hs[g] EXCEPT !.may = @ \cup
                        IF At(g, "admitted") THEN entitled'[hs[g].user]
                        ELSE entitled'[hs[g].user] \cap Named(hs[g].user, hs[g].it)]]
     /\ UNCHANGED <<site, fsm, screen>>

\* The bot restarts: what was not committed is rolled back, and a wizard kept in
\* memory is forgotten.  The chat stays as it is.
Restart ==
  /\ hs' = [h \in Handlers |-> NoHandler]
  /\ fsm' = IF site.storage = "memory" THEN [u \in Users |-> Nowhere] ELSE fsm
  /\ UNCHANGED <<site, rows, screen>>

Handle(h) ==
  \/ Enter(h)
  \/ CheckPlain(h) \/ CheckFound(h) \/ CheckNew(h)
  \/ Move(h) \/ SetState(h) \/ GetData(h) \/ SetData(h)
  \/ Commit(h)
  \/ Stop(h)

Arrive(h, u) ==
  \/ \E act \in site.taps[u] : \E it \in Buttons[act] : Tap(h, u, act, it)
  \/ \E at \in DOMAIN Inputs : \E it \in Texts[at] : Type(h, u, at, it)
  \/ \E it \in BothDates : TypeBothDates(h, u, it)

Next ==
  \/ \E h \in Handlers : Handle(h)
  \/ \E h \in Handlers, u \in Users : Arrive(h, u)
  \/ Restart

Spec == Init /\ [][Next]_vars

-----------------------------------------------------------------------------
(* Properties.                                                             *)

\* The storage and the rows have their types, and a student who is gone has no link
\* (delete_student takes it along).
TypeOK ==
  /\ fsm \in [Users -> Position]
  /\ linked \subseteq people /\ people \subseteq Students
  /\ account \in {"active", "suspended", "deleted"}
  /\ plans \in [PlanIds -> Plan \cup {Unborn, Gone}]
  /\ \A h \in Handlers :
       /\ hs[h].pc \in {"none", "admitted", "checking", "moving", "placed", "got", "writing"}
       /\ hs[h].does \in Writes

\* The keys the text handlers of a state index without asking whether they exist.
Needs(at) == IF at \in DOMAIN Inputs THEN Inputs[at].reads ELSE {}

(* states.py promises that every step is resumable.  Wherever the wizard    *)
(* waits for a text, the data has every key the handler of that text        *)
(* indexes, however taps, texts and restarts overlap.  With Redis a handler *)
(* sets the state before the data, so this is said of memory.               *)
StateHasItsData ==
  site.storage = "memory" =>
    \A u \in Users : \A k \in Needs(fsm[u].at) : fsm[u].data[k] # None

(* Authority is checked again when the text arrives, never inherited from  *)
(* the prompt: a handler that goes on to write a plan or a student owned it *)
(* at some moment since its update arrived, and at some moment its account  *)
(* was active (which edits of a student do not ask), although students are  *)
(* handed over, plans deleted and accounts suspended in between.  The two   *)
(* moments can differ: a plan whose handler commits late may come to an     *)
(* advisor who is suspended by then.                                        *)
WrittenByEntitled ==
  \A h \in Handlers :
    LET x == hs[h]
    IN x.pc \in {"moving", "placed", "got", "writing"} =>
         /\ x.does \in {"plan", "delete plan"} => x.it["plan"] \in x.may
         /\ x.does \in {"student", "delete student", "transfer", "create"} =>
              x.it["student"] \in x.may
         /\ x.does \in {"plan", "delete plan", "delete student", "transfer", "create"} =>
              x.user \in x.may

(* A text goes where the latest screen that moved the wizard asked for it, *)
(* and a confirmed range is the one its summary showed: when that screen is *)
(* the prompt of the handler (and, for a summary, of the tapped button's    *)
(* student), the handler works with the values on the screen.              *)
DoneAsShown ==
  \A h \in Handlers :
    LET x == hs[h]  s == screen[x.user]
        asked == IF x.on = "button" THEN "summary" ELSE x.on
    IN /\ site.patient /\ At(h, "checking") /\ Row(h).reads # {} /\ s.at = asked
       /\ x.act = "confirm" => x.it["student"] = s.data["student"]
       => \A k \in Row(h).reads : x.it[k] = s.data[k]

=============================================================================
