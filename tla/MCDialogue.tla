----------------------------- MODULE MCDialogue -----------------------------
(* What happens to an update on its way to a handler and in it: the        *)
(* throttle, for one user because it keeps its numbers per user, the       *)
(* dialogue, and the statements of the edits a plan gets, each explored by *)
(* itself.                                                                 *)
EXTENDS Dialogue, Throttle, PlanContent, TLC

CONSTANTS
  MaxNow,  \* model bound: the clock the throttle is explored to
  old, new, a, b, sat, sun,    \* see PlanContent
  h1, h2, s1, s2, p1, p2, p3

MCHandlers == {h1, h2}
MCStudents == {s1, s2}
MCPlanIds == {p1, p2, p3}
MCIds == {Advisor}
MCWeeks == {1}
MCDays == {sat, sun}
HandlerSymmetry == Permutations(MCHandlers)

\* s1 has a plan of the advisor, s2 one of another advisor.
Both == [p \in MCPlanIds |->
           CASE p = p1 -> [student |-> s1, start |-> 1, end |-> 2, by |-> Advisor]
             [] p = p2 -> [student |-> s2, start |-> 1, end |-> 2, by |-> Other]
             [] OTHER -> Unborn]
Mine == [Both EXCEPT ![p2] = Unborn, ![p3] = Gone]

Site(storage, patient, roster, first, advisor, admin) ==
  [storage |-> storage, patient |-> patient, linked |-> roster, plans |-> first,
   taps |-> [u \in Users |-> IF u = Admin THEN admin ELSE advisor]]

\* Handlers that share keys of the FSM data or rows are explored together.
MCSites ==
  {Site("memory", TRUE, {s1}, Mine,
        {"menu", "open_day", "edit_slot", "open_assignments"}, {"do_suspend"}),
   Site("memory", FALSE, {s1}, Mine, {"open_day", "edit_slot", "delete"}, {"do_suspend"}),
   Site("memory", FALSE, {s1}, Mine, {"edit_slot", "thisweek"}, {"del_plan"}),
   Site("memory", TRUE, {s1, s2}, Both, {"pick", "week", "custom", "confirm"}, {}),
   Site("memory", FALSE, {s1}, Mine, {"custom", "confirm"}, {}),
   Site("memory", FALSE, {s1}, Mine, {"pick", "edit", "setid", "del"}, {"do_transfer"}),
   Site("memory", FALSE, {s1}, Mine, {"add", "edit", "connect", "invite"}, {"del_advisor_to"}),
   Site("memory", FALSE, {s1}, Mine, {},
        {"home", "add_advisor", "edit_advisor", "edit_person", "search_person"}),
   Site("redis", FALSE, {s1}, Mine, {"edit", "menu"}, {"del_student_final"})}

\* The plan of the week before has both days, and its first cells and two
\* assignments; the new plan has both days, or is a custom range of one.
MCContentPlans == {old, new}
MCWeek == <<sat, sun>>
MCPrevious == [p \in {old, new} |-> IF p = new THEN old ELSE NoPlan]
MCContents ==
  {[days |-> (old :> {sat, sun} @@ new :> range),
    stored |-> {[key |-> <<old, sat, 0>>, text |-> a], [key |-> <<old, sun, 1>>, text |-> b],
              [key |-> <<old>>, text |-> a], [key |-> <<old>>, text |-> b],
              [key |-> <<new, sun, 0>>, text |-> b], [key |-> <<new>>, text |-> b]}] :
     range \in {{sat, sun}, {sun}}}
Edit(op, p, day, slot, text, to) ==
  [op |-> op, plan |-> p, day |-> day, slot |-> slot, text |-> text, to |-> to]
MCEdits ==
  {Edit("slot", new, sun, 0, t, sun) : t \in {Blank, a}}
  \cup {Edit("slot", new, sat, 1, a, sun), Edit("slot", old, sun, 1, a, sun),
        Edit("clear", new, sun, 0, Blank, sun), Edit("clear", old, sat, 0, Blank, sun),
        Edit("copy", new, sun, 0, Blank, sat), Edit("copy", new, sat, 0, Blank, sun),
        Edit("week", new, sun, 0, Blank, sun)}
  \cup {Edit("assignments", p, sun, 0, t, sun) : p \in {old, new}, t \in {Blank, a}}

VARIABLE part  \* what the behaviour explores

MCInit ==
  /\ Init /\ ThrottleInit /\ ContentInit
  /\ part \in {"dialogue", "throttle", "content"}
  /\ part # "dialogue" => site = CHOOSE x \in MCSites : TRUE
  /\ part # "content" => days[new] = {sun}

MCNext ==
  /\ \/ part = "dialogue" /\ Next /\ UNCHANGED <<tvars, cvars>>
     \/ part = "throttle" /\ ThrottleNext /\ now' <= MaxNow /\ UNCHANGED <<vars, cvars>>
     \/ part = "content" /\ ContentNext /\ UNCHANGED <<vars, tvars>>
     \/ part = "content" /\ asked = MaxEdits /\ Quiet /\ UNCHANGED <<vars, tvars, cvars>>
  /\ UNCHANGED part

MCSpec == MCInit /\ [][MCNext]_<<vars, tvars, cvars, part>>

=============================================================================
