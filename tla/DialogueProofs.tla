--------------------------- MODULE DialogueProofs ---------------------------
(***************************************************************************)
(* Theorems about Dialogue, for any handlers in flight, students, plans,   *)
(* weeks, days, cells and users: types, StateHasItsData, WrittenByEntitled *)
(* and DoneAsShown.                                                        *)
(*                                                                         *)
(* First the tables: what every row of them has in common.  Then the       *)
(* invariants, which say what a handler of any row works with.             *)
(***************************************************************************)
EXTENDS Dialogue, TLAPS

-----------------------------------------------------------------------------
(* The tables.                                                             *)

\* The texts the wizard waits for.
LEMMA InputsAre ==
  /\ DOMAIN Inputs = {"add_student", "search_student", "range_start", "range_end",
          "link_student", "edit_student", "edit_slot", "edit_assignments", "add_advisor",
          "edit_advisor", "search_advisor", "edit_person", "search_person"}
  /\ Inputs["link_student"] = StudentInput /\ Inputs["edit_student"] = StudentInput
  /\ Inputs["edit_slot"] = SlotInput /\ Inputs["edit_assignments"] = AssignmentsInput
  /\ Inputs["edit_advisor"] = EditAdvisorInput /\ Inputs["edit_person"] = EditPersonInput
  /\ Inputs["range_end"] = RangeEndInput /\ Inputs["range_start"] = RangeStartInput
  /\ Inputs["add_student"] = AddStudentInput /\ Inputs["add_advisor"] = AddAdvisorInput
  /\ Inputs["search_advisor"] = AdminSearchInput /\ Inputs["search_person"] = AdminSearchInput
  /\ Inputs["search_student"] = SearchStudentInput
  BY DEF Inputs

LEMMA NeedsAre ==
  /\ Needs("link_student") = {"student"} /\ Needs("edit_student") = {"student"}
  /\ Needs("edit_slot") = {"plan", "day", "slot"}
  /\ Needs("edit_assignments") = {"plan"}
  /\ Needs("edit_advisor") = {"target"} /\ Needs("edit_person") = {"target"}
  /\ Needs("range_end") = {"start"}
  /\ \A at \in {"idle", "select_student", "add_student", "select_week", "range_start",
                "edit_day", "add_advisor", "search_advisor", "search_person",
                "search_student", "summary", "overview"} : Needs(at) = {}
  <1>1. /\ StudentInput.reads = {"student"} /\ SlotInput.reads = {"plan", "day", "slot"}
        /\ AssignmentsInput.reads = {"plan"} /\ EditAdvisorInput.reads = {"target"}
        /\ EditPersonInput.reads = {"target"} /\ RangeEndInput.reads = {"start"}
        /\ RangeStartInput.reads = {} /\ AddStudentInput.reads = {}
        /\ AddAdvisorInput.reads = {} /\ AdminSearchInput.reads = {}
        /\ SearchStudentInput.reads = {}
    BY DEF AddStudentInput, SearchStudentInput, RangeStartInput, RangeEndInput,
           StudentInput, SlotInput, AssignmentsInput, AddAdvisorInput, EditAdvisorInput,
           AdminSearchInput, EditPersonInput, RangeInput, On, Does, Moves, Clears, Reads
  <1> QED BY <1>1, InputsAre DEF Needs

\* The values a handler of row r has when it checks, and the plan it may find or make.
Full(r) == r.carries \cup r.reads
Made(r) == IF r.does \in {"create", "this week"} THEN {"plan"} ELSE {}

\* The right that is checked before a row is written.
Fits(does, right) ==
  /\ does \in {"plan", "delete plan"} => right = "plan"
  /\ does = "student" => right \in {"student", "admin student", "scope"}
  /\ does \in {"delete student", "transfer"} => right = "scope"
  /\ does = "create" => right = "create"
  /\ does = "this week" => right = "student"

Sound(r) ==
  /\ r.carries \subseteq Fields /\ r.reads \cup r.gets \cup r.puts \subseteq Keys
  /\ r.does \in Writes \cup {"this week"} /\ r.to \in States \cup {"same", "clear"}
  /\ Fits(r.does, r.right)
  /\ r.carries \cap (r.reads \cup r.gets) = {} /\ r.reads \cap r.gets = {}
  /\ r.to = "same" => r.puts \subseteq Full(r) \cup Made(r)
  /\ r.to \notin {"same", "clear"} => Needs(r.to) \subseteq r.puts \cap Full(r)
  /\ r.does \in {"create", "this week"} => {"student", "start"} \subseteq Full(r)
  /\ r.does \in {"plan", "delete plan"} => "plan" \in Full(r)

\* A button reads nothing but the two dates that a summary shows.
SoundTap(r) == Sound(r) /\ r.reads \in {{}, {"start", "end"}}
SoundTaps(table) == \A n \in DOMAIN table : SoundTap(table[n])

LEMMA JoinedSound ==
  ASSUME NEW tables, \A t \in tables : SoundTaps(t)
  PROVE  SoundTaps(Joined(tables))
  BY DEF SoundTaps, Joined

LEMMA AllSound ==
  ASSUME NEW names, NEW r, SoundTap(r)
  PROVE  SoundTaps(All(names, r))
  BY DEF SoundTaps, All

\* A row, spelt out.
Line(c, rd, g, right, does, to, p) ==
  [carries |-> c, reads |-> rd, gets |-> g, right |-> right, does |-> does, to |-> to,
   puts |-> p]

LEMMA OnLine ==
  ASSUME NEW c, NEW right
  PROVE  On(c, right) = Line(c, {}, {}, right, "show", "same", {})
  BY DEF On, Line

LEMMA ReadsLine ==
  ASSUME NEW c, NEW right, NEW rd
  PROVE  [On(c, right) EXCEPT !.reads = rd] = Line(c, rd, {}, right, "show", "same", {})
  BY DEF On, Line

LEMMA DoesLine ==
  ASSUME NEW c, NEW rd, NEW g, NEW right, NEW does, NEW to, NEW p, NEW what
  PROVE  Does(Line(c, rd, g, right, does, to, p), what) = Line(c, rd, g, right, what, to, p)
  BY DEF Does, Line

LEMMA MovesLine ==
  ASSUME NEW c, NEW rd, NEW g, NEW right, NEW does, NEW to, NEW p, NEW at, NEW q
  PROVE  Moves(Line(c, rd, g, right, does, to, p), at, q) = Line(c, rd, g, right, does, at, q)
  <1>1. [Line(c, rd, g, right, does, to, p) EXCEPT !.to = at]
          = Line(c, rd, g, right, does, at, p)
    BY DEF Line
  <1>2. [Line(c, rd, g, right, does, at, p) EXCEPT !.puts = q]
          = Line(c, rd, g, right, does, at, q)
    BY DEF Line
  <1> QED BY <1>1, <1>2 DEF Moves

LEMMA ClearsLine ==
  ASSUME NEW c, NEW rd, NEW g, NEW right, NEW does, NEW to, NEW p
  PROVE  Clears(Line(c, rd, g, right, does, to, p)) = Line(c, rd, g, right, does, "clear", {})
  BY MovesLine DEF Clears

LEMMA LineSound ==
  ASSUME NEW c \in SUBSET Fields, NEW rd \in SUBSET Keys, NEW g \in SUBSET Keys,
         NEW right, NEW does \in Writes \cup {"this week"},
         NEW to \in States \cup {"same", "clear"}, NEW p \in SUBSET Keys,
         Fits(does, right), c \cap (rd \cup g) = {}, rd \cap g = {},
         to = "same" =>
           p \subseteq c \cup rd \cup (IF does \in {"create", "this week"} THEN {"plan"} ELSE {}),
         to \notin {"same", "clear"} => Needs(to) \subseteq p \cap (c \cup rd),
         does \in {"create", "this week"} => {"student", "start"} \subseteq c \cup rd,
         does \in {"plan", "delete plan"} => "plan" \in c \cup rd
  PROVE  Sound(Line(c, rd, g, right, does, to, p))
  <1> DEFINE r == Line(c, rd, g, right, does, to, p)
  <1>1. /\ r.carries = c /\ r.reads = rd /\ r.gets = g /\ r.right = right /\ r.does = does
        /\ r.to = to /\ r.puts = p
    BY DEF Line
  <1> HIDE DEF r
  <1>3. Full(r) = c \cup rd /\ Made(r) = IF does \in {"create", "this week"} THEN {"plan"} ELSE {}
    BY <1>1 DEF Full, Made
  <1> QED BY <1>1, <1>3 DEF Sound, r

\* A row that shows something, or writes; and forgets the dialogue, too.
LEMMA ShowingRows ==
  ASSUME NEW c \in SUBSET Fields, NEW right
  PROVE  SoundTap(On(c, right)) /\ SoundTap(Clears(On(c, right)))
  <1>1. /\ On(c, right) = Line(c, {}, {}, right, "show", "same", {})
        /\ Clears(On(c, right)) = Line(c, {}, {}, right, "show", "clear", {})
    BY OnLine, ClearsLine
  <1>2. Fits("show", right) /\ "show" \in Writes
    BY DEF Fits, Writes
  <1>3. /\ Sound(Line(c, {}, {}, right, "show", "same", {}))
        /\ Sound(Line(c, {}, {}, right, "show", "clear", {}))
    BY <1>2, LineSound
  <1>4. \A to : Line(c, {}, {}, right, "show", to, {}).reads = {}
    BY DEF Line
  <1> QED BY <1>1, <1>3, <1>4 DEF SoundTap

LEMMA WritingLine ==
  ASSUME NEW c, NEW right, NEW what
  PROVE  /\ Does(On(c, right), what) = Line(c, {}, {}, right, what, "same", {})
         /\ Clears(Does(On(c, right), what)) = Line(c, {}, {}, right, what, "clear", {})
  <1>1. On(c, right) = Line(c, {}, {}, right, "show", "same", {})
    BY OnLine
  <1>2. Does(On(c, right), what) = Line(c, {}, {}, right, what, "same", {})
    BY <1>1, DoesLine
  <1> QED BY <1>2, ClearsLine

LEMMA WritingRows ==
  ASSUME NEW c \in SUBSET Fields, NEW right, NEW what \in Writes,
         Fits(what, right), what # "create", what \in {"plan", "delete plan"} => "plan" \in c
  PROVE  /\ SoundTap(Does(On(c, right), what)) /\ SoundTap(Clears(Does(On(c, right), what)))
  <1>1. what # "this week"
    BY DEF Writes
  <1>2. /\ Sound(Line(c, {}, {}, right, what, "same", {}))
        /\ Sound(Line(c, {}, {}, right, what, "clear", {}))
    BY <1>1, LineSound
  <1>3. \A to : Line(c, {}, {}, right, what, to, {}).reads = {}
    BY DEF Line
  <1>4. /\ SoundTap(Line(c, {}, {}, right, what, "same", {}))
        /\ SoundTap(Line(c, {}, {}, right, what, "clear", {}))
    BY <1>2, <1>3 DEF SoundTap
  <1> QED BY <1>4, WritingLine

\* A row that moves the wizard to a state, with what the state needs.
LEMMA MovingRows ==
  ASSUME NEW c \in SUBSET Fields, NEW right, NEW to \in States,
         NEW puts \in SUBSET Keys, Needs(to) \subseteq puts \cap c
  PROVE  SoundTap(Moves(On(c, right), to, puts))
  <1>1. Moves(On(c, right), to, puts) = Line(c, {}, {}, right, "show", to, puts)
    BY OnLine, MovesLine
  <1>2. Fits("show", right) /\ "show" \in Writes /\ to \notin {"same", "clear"}
    BY DEF Fits, Writes, States
  <1>3. Sound(Line(c, {}, {}, right, "show", to, puts))
    BY <1>2, LineSound
  <1>4. Line(c, {}, {}, right, "show", to, puts).reads = {}
    BY DEF Line
  <1> QED BY <1>1, <1>3, <1>4 DEF SoundTap

\* A row that creates or finds a plan, and shows its days.
LEMMA CreatingLine ==
  ASSUME NEW c, NEW right, NEW does, NEW p
  PROVE  Moves(Does(On(c, right), does), "edit_day", p)
           = Line(c, {}, {}, right, does, "edit_day", p)
  <1>1. On(c, right) = Line(c, {}, {}, right, "show", "same", {})
    BY OnLine
  <1>2. Does(On(c, right), does) = Line(c, {}, {}, right, does, "same", {})
    BY <1>1, DoesLine
  <1> QED BY <1>2, MovesLine

LEMMA CreatingReadsLine ==
  ASSUME NEW c, NEW rd, NEW right, NEW does, NEW p
  PROVE  Moves(Does([On(c, right) EXCEPT !.reads = rd], does), "edit_day", p)
           = Line(c, rd, {}, right, does, "edit_day", p)
  <1>1. [On(c, right) EXCEPT !.reads = rd] = Line(c, rd, {}, right, "show", "same", {})
    BY ReadsLine
  <1>2. Does([On(c, right) EXCEPT !.reads = rd], does) = Line(c, rd, {}, right, does, "same", {})
    BY <1>1, DoesLine
  <1> QED BY <1>2, MovesLine

LEMMA CreatingRows ==
  ASSUME NEW c \in SUBSET Fields, NEW rd \in {{}, {"start", "end"}}, NEW right,
         NEW does, does \in {"create", "this week"}, NEW p, p = {"plan", "student"},
         Fits(does, right), c \cap rd = {}, {"student", "start"} \subseteq c \cup rd
  PROVE  SoundTap(Line(c, rd, {}, right, does, "edit_day", p))
  <1>1. /\ rd \in SUBSET Keys /\ p \in SUBSET Keys /\ does \in Writes \cup {"this week"}
        /\ "edit_day" \in States /\ Needs("edit_day") = {}
    BY NeedsAre DEF Keys, Writes, States
  <1>2. Sound(Line(c, rd, {}, right, does, "edit_day", p))
    BY <1>1, LineSound
  <1>3. Line(c, rd, {}, right, does, "edit_day", p).reads = rd
    BY DEF Line
  <1> QED BY <1>2, <1>3 DEF SoundTap

-----------------------------------------------------------------------------
(* Each table.                                                             *)

LEMMA JoinedTwo ==
  ASSUME NEW t, NEW u, SoundTaps(t), SoundTaps(u)
  PROVE  SoundTaps(Joined({t, u}))
  BY JoinedSound

LEMMA FitsAre ==
  /\ \A right : /\ Fits("show", right) /\ Fits("add", right) /\ Fits("account", right)
                /\ Fits("suspend", right) /\ Fits("delete advisor", right)
                /\ Fits("hand over", right)
  /\ Fits("plan", "plan") /\ Fits("delete plan", "plan")
  /\ Fits("student", "student") /\ Fits("student", "admin student") /\ Fits("student", "scope")
  /\ Fits("delete student", "scope") /\ Fits("transfer", "scope")
  /\ Fits("create", "create") /\ Fits("this week", "student")
  BY DEF Fits

\* The rows that the tables repeat.
LEMMA Shows ==
  /\ SoundTap(On({}, "open")) /\ SoundTap(Clears(On({}, "open")))
  /\ SoundTap(On({}, "admin")) /\ SoundTap(Clears(On({}, "admin")))
  /\ SoundTap(On({"student"}, "student")) /\ SoundTap(On({"student"}, "scope"))
  /\ SoundTap(Clears(On({"student"}, "open")))
  /\ SoundTap(On({"plan"}, "plan")) /\ SoundTap(On({"plan"}, "view"))
  /\ SoundTap(On({"plan"}, "open")) /\ SoundTap(On({"target"}, "account"))
  <1>1. /\ {} \in SUBSET Fields /\ {"student"} \in SUBSET Fields
        /\ {"plan"} \in SUBSET Fields /\ {"target"} \in SUBSET Fields
    BY DEF Fields, Keys
  <1> QED BY <1>1, ShowingRows

LEMMA MovesFar ==
  /\ SoundTap(Moves(On({}, "open"), "select_student", {}))
  /\ SoundTap(Moves(On({}, "open"), "add_student", {}))
  /\ SoundTap(Moves(On({}, "open"), "search_student", {}))
  /\ SoundTap(Moves(On({"student"}, "student"), "select_week", {"student"}))
  /\ SoundTap(Moves(On({"student"}, "open"), "range_start", {"student", "start"}))
  /\ SoundTap(Moves(On({"student"}, "student"), "link_student", {"student"}))
  /\ SoundTap(Moves(On({"student"}, "student"), "edit_student", {"student"}))
  /\ SoundTap(Moves(On({"plan"}, "plan"), "edit_day", {"plan"}))
  /\ SoundTap(Moves(On({"plan", "day"}, "plan"), "edit_day", {"plan", "day"}))
  /\ SoundTap(Moves(On({"plan", "day", "slot"}, "plan"), "edit_slot", {"plan", "day", "slot"}))
  /\ SoundTap(Moves(On({"plan"}, "plan"), "edit_assignments", {"plan"}))
  /\ SoundTap(Moves(On({}, "admin"), "add_advisor", {}))
  /\ SoundTap(Moves(On({"target"}, "account"), "edit_advisor", {"target"}))
  /\ SoundTap(Moves(On({}, "admin"), "search_advisor", {}))
  /\ SoundTap(Moves(On({"target"}, "account"), "edit_person", {"target"}))
  /\ SoundTap(Moves(On({}, "admin"), "search_person", {}))
  <1> DEFINE far(c, right, to, puts) == SoundTap(Moves(On(c, right), to, puts))
             n == {}  s == {"student"}  p == {"plan"}  t == {"target"}
             sb == {"student", "start"}  pd == {"plan", "day"}  pds == {"plan", "day", "slot"}
  <1>1. /\ n \in SUBSET Keys /\ s \in SUBSET Keys /\ p \in SUBSET Keys /\ t \in SUBSET Keys
        /\ sb \in SUBSET Keys /\ pd \in SUBSET Keys /\ pds \in SUBSET Keys
    BY DEF Keys
  <1>2. /\ \A to \in {"select_student", "add_student", "search_student", "select_week",
                     "range_start", "edit_day", "add_advisor", "search_advisor",
                     "search_person"} : to \in States /\ Needs(to) = n
        /\ Needs("link_student") = s /\ Needs("edit_student") = s /\ Needs("edit_slot") = pds
        /\ Needs("edit_assignments") = p /\ Needs("edit_advisor") = t
        /\ Needs("edit_person") = t
    BY NeedsAre DEF States
  <1>3. \A at \in {"link_student", "edit_student", "edit_slot", "edit_assignments",
                   "edit_advisor", "edit_person"} : at \in States
    BY DEF States
  <1>4. \A c, q \in SUBSET Keys : \A right, to : to \in States /\ Needs(to) = n /\ n = {}
          => far(c, right, to, q)
    BY MovingRows DEF Fields
  <1>5. \A q \in SUBSET Keys : \A right, to : to \in States /\ Needs(to) = q => far(q, right, to, q)
    BY MovingRows DEF Fields
  <1>6. n = {}
    OBVIOUS
  <1> HIDE DEF far, n, s, p, t, sb, pd, pds
  <1>7. /\ far(n, "open", "select_student", n) /\ far(n, "open", "add_student", n)
        /\ far(n, "open", "search_student", n) /\ far(n, "admin", "add_advisor", n)
        /\ far(n, "admin", "search_advisor", n) /\ far(n, "admin", "search_person", n)
    BY <1>1, <1>2, <1>4, <1>6
  <1>8. /\ far(s, "student", "select_week", s) /\ far(s, "open", "range_start", sb)
        /\ far(p, "plan", "edit_day", p) /\ far(pd, "plan", "edit_day", pd)
    BY <1>1, <1>2, <1>4, <1>6
  <1>9. /\ far(s, "student", "link_student", s) /\ far(s, "student", "edit_student", s)
        /\ far(pds, "plan", "edit_slot", pds) /\ far(p, "plan", "edit_assignments", p)
        /\ far(t, "account", "edit_advisor", t) /\ far(t, "account", "edit_person", t)
    BY <1>1, <1>2, <1>3, <1>5
  <1> QED BY <1>7, <1>8, <1>9 DEF far, n, s, p, t, sb, pd, pds

LEMMA WritesRows ==
  /\ SoundTap(Does(On({"student"}, "student"), "student"))
  /\ SoundTap(Does(On({"student"}, "admin student"), "student"))
  /\ SoundTap(Does(On({"student"}, "scope"), "student"))
  /\ SoundTap(Does(On({"student"}, "scope"), "delete student"))
  /\ SoundTap(Does(On({"student", "heir"}, "scope"), "transfer"))
  /\ SoundTap(Does(On({"plan"}, "plan"), "plan"))
  /\ SoundTap(Clears(Does(On({"plan"}, "plan"), "plan")))
  /\ SoundTap(Does(On({"plan"}, "plan"), "delete plan"))
  /\ SoundTap(Clears(Does(On({"plan"}, "plan"), "delete plan")))
  /\ SoundTap(Does(On({}, "admin"), "add"))
  /\ SoundTap(Does(On({"target"}, "account"), "suspend"))
  /\ SoundTap(Does(On({}, "removable"), "delete advisor"))
  /\ SoundTap(Does(On({}, "removable"), "hand over"))
  <1>1. /\ {} \in SUBSET Fields /\ {"student"} \in SUBSET Fields
        /\ {"plan"} \in SUBSET Fields /\ {"target"} \in SUBSET Fields
        /\ {"student", "heir"} \in SUBSET Fields
    BY DEF Fields, Keys
  <1>2. \A what \in {"student", "delete student", "transfer", "plan", "delete plan", "add",
                     "suspend", "delete advisor", "hand over"} :
          what \in Writes /\ what # "create"
    BY DEF Writes
  <1> QED BY <1>1, <1>2, FitsAre, WritingRows

LEMMA CreateRows ==
  /\ SoundTap(Moves(Does(On({"student", "start"}, "create"), "create"),
                    "edit_day", {"plan", "student"}))
  /\ SoundTap(Moves(Does(On({"student", "start"}, "student"), "this week"),
                    "edit_day", {"plan", "student"}))
  /\ SoundTap(Moves(Does([On({"student"}, "create") EXCEPT !.reads = {"start", "end"}],
                         "create"), "edit_day", {"plan", "student"}))
  <1> DEFINE c == {"student", "start"}  s == {"student"}  d == {"start", "end"}
             p == {"plan", "student"}  n == {}
  <1>1. /\ c \in SUBSET Fields /\ s \in SUBSET Fields /\ d \in {{}, {"start", "end"}}
        /\ n \in {{}, {"start", "end"}} /\ n = {} /\ p = {"plan", "student"}
        /\ s \cap d = {} /\ c \cap n = {} /\ {"student", "start"} \subseteq c \cup n
        /\ {"student", "start"} \subseteq s \cup d
    BY DEF Fields, Keys
  <1> HIDE DEF c, s, d, p, n
  <1>2. /\ SoundTap(Line(c, n, {}, "create", "create", "edit_day", p))
        /\ SoundTap(Line(c, n, {}, "student", "this week", "edit_day", p))
        /\ SoundTap(Line(s, d, {}, "create", "create", "edit_day", p))
    BY <1>1, FitsAre, CreatingRows
  <1>3. Moves(Does(On(c, "create"), "create"), "edit_day", p)
          = Line(c, {}, {}, "create", "create", "edit_day", p)
    BY CreatingLine
  <1>4. Moves(Does(On(c, "student"), "this week"), "edit_day", p)
          = Line(c, {}, {}, "student", "this week", "edit_day", p)
    BY CreatingLine
  <1>5. Moves(Does([On(s, "create") EXCEPT !.reads = d], "create"), "edit_day", p)
          = Line(s, d, {}, "create", "create", "edit_day", p)
    BY CreatingReadsLine
  <1>6. n = {}
    BY <1>1
  <1>7. /\ SoundTap(Moves(Does(On(c, "create"), "create"), "edit_day", p))
        /\ SoundTap(Moves(Does(On(c, "student"), "this week"), "edit_day", p))
        /\ SoundTap(Moves(Does([On(s, "create") EXCEPT !.reads = d], "create"), "edit_day", p))
    BY <1>2, <1>3, <1>4, <1>5, <1>6
  <1> QED BY <1>7 DEF c, s, d, p

LEMMA TablesSound ==
  /\ SoundTaps(Commands)
  /\ SoundTaps(Entries)
  /\ SoundTaps(Picking)
  /\ SoundTaps(RangeConfirm)
  /\ SoundTaps(StudentCards)
  /\ SoundTaps(StudentEdits)
  /\ SoundTaps(StudentWeek)
  /\ SoundTaps(PlanDays)
  /\ SoundTaps(PlanSlots)
  /\ SoundTaps(PlanAssignments)
  /\ SoundTaps(Generation)
  /\ SoundTaps(Sending)
  /\ SoundTaps(Listing)
  /\ SoundTaps(Opening)
  <1>1. SoundTaps(Commands)
    <2> DEFINE a == All({"start", "cancel"}, Clears(On({}, "open")))
               b == All({"help", "profile"}, On({}, "open"))
    <2>1. SoundTaps(a)
      BY Shows, AllSound
    <2>2. SoundTaps(b)
      BY Shows, AllSound
    <2> HIDE DEF a, b
    <2>3. SoundTaps(Joined({a, b}))
      BY <2>1, <2>2, JoinedTwo
    <2> QED BY <2>3 DEF Commands, a, b
  <1>2. SoundTaps(Entries)
    <2> DEFINE p == Clears(On({}, "open"))
               q == Moves(On({}, "open"), "select_student", {})
               r == Clears(On({}, "open"))
               s == Moves(On({}, "open"), "add_student", {})
    <2>1. SoundTap(p)
      BY Shows
    <2>2. SoundTap(q)
      BY MovesFar
    <2>3. SoundTap(r)
      BY Shows
    <2>4. SoundTap(s)
      BY MovesFar
    <2> HIDE DEF p, q, r, s
    <2>5. SoundTaps([menu |-> p, new |-> q, students |-> r, add |-> s])
      BY <2>1, <2>2, <2>3, <2>4 DEF SoundTaps
    <2> QED BY <2>5 DEF Entries, p, q, r, s
  <1>3. SoundTaps(Picking)
    <2> DEFINE p == On({}, "open")
               q == Moves(On({}, "open"), "search_student", {})
               r == Moves(On({"student"}, "student"), "select_week", {"student"})
               s == Moves(Does(On({"student", "start"}, "create"), "create"),
                          "edit_day", {"plan", "student"})
               t == Moves(On({"student"}, "open"), "range_start", {"student", "start"})
    <2>1. SoundTap(p)
      BY Shows
    <2>2. SoundTap(q)
      BY MovesFar
    <2>3. SoundTap(r)
      BY MovesFar
    <2>4. SoundTap(s)
      BY CreateRows
    <2>5. SoundTap(t)
      BY MovesFar
    <2> HIDE DEF p, q, r, s, t
    <2>6. SoundTaps([page |-> p, search |-> q, pick |-> r, week |-> s, custom |-> t])
      BY <2>1, <2>2, <2>3, <2>4, <2>5 DEF SoundTaps
    <2> QED BY <2>6 DEF Picking, p, q, r, s, t
  <1>4. SoundTaps(RangeConfirm)
    <2> DEFINE p == Moves(Does([On({"student"}, "create") EXCEPT !.reads = {"start", "end"}],
                               "create"), "edit_day", {"plan", "student"})
    <2>1. SoundTap(p)
      BY CreateRows
    <2> HIDE DEF p
    <2>2. SoundTaps([confirm |-> p])
      BY <2>1 DEF SoundTaps
    <2> QED BY <2>2 DEF RangeConfirm, p
  <1>5. SoundTaps(StudentCards)
    <2> DEFINE a == All({"card", "copylink", "sharelink", "ask_invite"},
                        On({"student"}, "student"))
               b == [unlink |-> Does(On({"student"}, "admin student"), "student"),
                     connect |-> Clears(On({"student"}, "open"))]
    <2>1. SoundTaps(a)
      BY Shows, AllSound
    <2>2. SoundTaps(b)
      <3> DEFINE p == Does(On({"student"}, "admin student"), "student")
                 q == Clears(On({"student"}, "open"))
      <3>1. SoundTap(p)
        BY WritesRows
      <3>2. SoundTap(q)
        BY Shows
      <3> HIDE DEF p, q
      <3>3. SoundTaps([unlink |-> p, connect |-> q])
        BY <3>1, <3>2 DEF SoundTaps
      <3> QED BY <3>3 DEF b, p, q
    <2> HIDE DEF a, b
    <2>3. SoundTaps(Joined({a, b}))
      BY <2>1, <2>2, JoinedTwo
    <2> QED BY <2>3 DEF StudentCards, a, b
  <1>6. SoundTaps(StudentEdits)
    <2> DEFINE a == All({"invite", "revoke"}, Does(On({"student"}, "student"), "student"))
               b == [setid |-> Moves(On({"student"}, "student"), "link_student", {"student"}),
                     edit |-> Moves(On({"student"}, "student"), "edit_student", {"student"})]
    <2>1. SoundTaps(a)
      BY WritesRows, AllSound
    <2>2. SoundTaps(b)
      <3> DEFINE p == Moves(On({"student"}, "student"), "link_student", {"student"})
                 q == Moves(On({"student"}, "student"), "edit_student", {"student"})
      <3>1. SoundTap(p)
        BY MovesFar
      <3>2. SoundTap(q)
        BY MovesFar
      <3> HIDE DEF p, q
      <3>3. SoundTaps([setid |-> p, edit |-> q])
        BY <3>1, <3>2 DEF SoundTaps
      <3> QED BY <3>3 DEF b, p, q
    <2> HIDE DEF a, b
    <2>3. SoundTaps(Joined({a, b}))
      BY <2>1, <2>2, JoinedTwo
    <2> QED BY <2>3 DEF StudentEdits, a, b
  <1>7. SoundTaps(StudentWeek)
    <2> DEFINE a == [thisweek |-> Moves(Does(On({"student", "start"}, "student"), "this week"),
                                        "edit_day", {"plan", "student"}),
                     del |-> Does(On({"student"}, "scope"), "delete student")]
               b == All({"ask_del", "del_confirm"}, On({"student"}, "scope"))
    <2>1. SoundTaps(a)
      <3> DEFINE p == Moves(Does(On({"student", "start"}, "student"), "this week"),
                            "edit_day", {"plan", "student"})
                 q == Does(On({"student"}, "scope"), "delete student")
      <3>1. SoundTap(p)
        BY CreateRows
      <3>2. SoundTap(q)
        BY WritesRows
      <3> HIDE DEF p, q
      <3>3. SoundTaps([thisweek |-> p, del |-> q])
        BY <3>1, <3>2 DEF SoundTaps
      <3> QED BY <3>3 DEF a, p, q
    <2>2. SoundTaps(b)
      BY Shows, AllSound
    <2> HIDE DEF a, b
    <2>3. SoundTaps(Joined({a, b}))
      BY <2>1, <2>2, JoinedTwo
    <2> QED BY <2>3 DEF StudentWeek, a, b
  <1>8. SoundTaps(PlanDays)
    <2> DEFINE a == [days |-> Moves(On({"plan"}, "plan"), "edit_day", {"plan"}),
                     open_day |-> Moves(On({"plan", "day"}, "plan"), "edit_day", {"plan", "day"}),
                     copy |-> On({"plan"}, "plan")]
               b == All({"clear_day", "copyto", "copyweek"}, Does(On({"plan"}, "plan"), "plan"))
    <2>1. SoundTaps(a)
      <3> DEFINE p == Moves(On({"plan"}, "plan"), "edit_day", {"plan"})
                 q == Moves(On({"plan", "day"}, "plan"), "edit_day", {"plan", "day"})
                 r == On({"plan"}, "plan")
      <3>1. SoundTap(p)
        BY MovesFar
      <3>2. SoundTap(q)
        BY MovesFar
      <3>3. SoundTap(r)
        BY Shows
      <3> HIDE DEF p, q, r
      <3>4. SoundTaps([days |-> p, open_day |-> q, copy |-> r])
        BY <3>1, <3>2, <3>3 DEF SoundTaps
      <3> QED BY <3>4 DEF a, p, q, r
    <2>2. SoundTaps(b)
      BY WritesRows, AllSound
    <2> HIDE DEF a, b
    <2>3. SoundTaps(Joined({a, b}))
      BY <2>1, <2>2, JoinedTwo
    <2> QED BY <2>3 DEF PlanDays, a, b
  <1>9. SoundTaps(PlanSlots)
    <2> DEFINE p == Moves(On({"plan", "day", "slot"}, "plan"), "edit_slot",
                          {"plan", "day", "slot"})
               q == Does(On({"plan"}, "plan"), "plan")
    <2>1. SoundTap(p)
      BY MovesFar
    <2>2. SoundTap(q)
      BY WritesRows
    <2> HIDE DEF p, q
    <2>3. SoundTaps([edit_slot |-> p, clear_slot |-> q])
      BY <2>1, <2>2 DEF SoundTaps
    <2> QED BY <2>3 DEF PlanSlots, p, q
  <1>10. SoundTaps(PlanAssignments)
    <2> DEFINE p == Moves(On({"plan"}, "plan"), "edit_assignments", {"plan"})
               q == Does(On({"plan"}, "plan"), "plan")
    <2>1. SoundTap(p)
      BY MovesFar
    <2>2. SoundTap(q)
      BY WritesRows
    <2> HIDE DEF p, q
    <2>3. SoundTaps([open_assignments |-> p, clear_assignments |-> q])
      BY <2>1, <2>2 DEF SoundTaps
    <2> QED BY <2>3 DEF PlanAssignments, p, q
  <1>11. SoundTaps(Generation)
    <2> DEFINE a == All({"preview", "confirm_plan"}, On({"plan"}, "plan"))
               b == [generate |-> Clears(Does(On({"plan"}, "plan"), "plan"))]
    <2>1. SoundTaps(a)
      BY Shows, AllSound
    <2>2. SoundTaps(b)
      <3> DEFINE p == Clears(Does(On({"plan"}, "plan"), "plan"))
      <3>1. SoundTap(p)
        BY WritesRows
      <3> HIDE DEF p
      <3>2. SoundTaps([generate |-> p])
        BY <3>1 DEF SoundTaps
      <3> QED BY <3>2 DEF b, p
    <2> HIDE DEF a, b
    <2>3. SoundTaps(Joined({a, b}))
      BY <2>1, <2>2, JoinedTwo
    <2> QED BY <2>3 DEF Generation, a, b
  <1>12. SoundTaps(Sending)
    <2> DEFINE p == On({"plan"}, "view")
               q == On({"plan"}, "plan")
               r == Does(On({"plan"}, "plan"), "plan")
    <2>1. SoundTap(p)
      BY Shows
    <2>2. SoundTap(q)
      BY Shows
    <2>3. SoundTap(r)
      BY WritesRows
    <2> HIDE DEF p, q, r
    <2>4. SoundTaps([resend |-> p, ask_send |-> q, send |-> r])
      BY <2>1, <2>2, <2>3 DEF SoundTaps
    <2> QED BY <2>4 DEF Sending, p, q, r
  <1>13. SoundTaps(Listing)
    <2> DEFINE p == Clears(On({}, "open"))
               q == On({}, "open")
    <2>1. SoundTap(p)
      BY Shows
    <2>2. SoundTap(q)
      BY Shows
    <2> HIDE DEF p, q
    <2>3. SoundTaps([list_plans |-> p, paginate |-> q])
      BY <2>1, <2>2 DEF SoundTaps
    <2> QED BY <2>3 DEF Listing, p, q
  <1>14. SoundTaps(Opening)
    <2> DEFINE a == All({"versions", "get_file", "open"}, On({"plan"}, "view"))
               b == [ask_delete |-> On({"plan"}, "open"),
                     delete |-> Clears(Does(On({"plan"}, "plan"), "delete plan"))]
    <2>1. SoundTaps(a)
      BY Shows, AllSound
    <2>2. SoundTaps(b)
      <3> DEFINE p == On({"plan"}, "open")
                 q == Clears(Does(On({"plan"}, "plan"), "delete plan"))
      <3>1. SoundTap(p)
        BY Shows
      <3>2. SoundTap(q)
        BY WritesRows
      <3> HIDE DEF p, q
      <3>3. SoundTaps([ask_delete |-> p, delete |-> q])
        BY <3>1, <3>2 DEF SoundTaps
      <3> QED BY <3>3 DEF b, p, q
    <2> HIDE DEF a, b
    <2>3. SoundTaps(Joined({a, b}))
      BY <2>1, <2>2, JoinedTwo
    <2> QED BY <2>3 DEF Opening, a, b
  <1> QED BY <1>1, <1>2, <1>3, <1>4, <1>5, <1>6, <1>7, <1>8, <1>9, <1>10, <1>11,
             <1>12, <1>13, <1>14

LEMMA AdminTablesSound ==
  /\ SoundTaps(AdminHome)
  /\ SoundTaps(AdminRequests)
  /\ SoundTaps(AdminAdvisors)
  /\ SoundTaps(AdminSuspension)
  /\ SoundTaps(AdminAdvisorRemoval)
  /\ SoundTaps(AdminStudents)
  /\ SoundTaps(AdminStudentRemoval)
  /\ SoundTaps(AdminTransfer)
  /\ SoundTaps(AdminConnection)
  /\ SoundTaps(AdminPlans)
  <1>1. SoundTaps(AdminHome)
    <2> DEFINE p == Clears(On({}, "admin"))
    <2>1. SoundTap(p)
      BY Shows
    <2> HIDE DEF p
    <2>2. SoundTaps([home |-> p])
      BY <2>1 DEF SoundTaps
    <2> QED BY <2>2 DEF AdminHome, p
  <1>2. SoundTaps(AdminRequests)
    <2> DEFINE a == All({"requests", "request", "grant_student"}, On({}, "admin"))
               b == All({"grant", "reject"}, Does(On({}, "admin"), "add"))
    <2>1. SoundTaps(a)
      BY Shows, AllSound
    <2>2. SoundTaps(b)
      BY WritesRows, AllSound
    <2> HIDE DEF a, b
    <2>3. SoundTaps(Joined({a, b}))
      BY <2>1, <2>2, JoinedTwo
    <2> QED BY <2>3 DEF AdminRequests, a, b
  <1>3. SoundTaps(AdminAdvisors)
    <2> DEFINE a == [add_advisor |-> Moves(On({}, "admin"), "add_advisor", {}),
                     edit_advisor |-> Moves(On({"target"}, "account"), "edit_advisor", {"target"}),
                     search_advisor |-> Moves(On({}, "admin"), "search_advisor", {})]
               b == All({"advisors", "advisor", "advisor_students", "advisor_plans"},
                        On({}, "admin"))
    <2>1. SoundTaps(a)
      <3> DEFINE p == Moves(On({}, "admin"), "add_advisor", {})
                 q == Moves(On({"target"}, "account"), "edit_advisor", {"target"})
                 r == Moves(On({}, "admin"), "search_advisor", {})
      <3>1. SoundTap(p)
        BY MovesFar
      <3>2. SoundTap(q)
        BY MovesFar
      <3>3. SoundTap(r)
        BY MovesFar
      <3> HIDE DEF p, q, r
      <3>4. SoundTaps([add_advisor |-> p, edit_advisor |-> q, search_advisor |-> r])
        BY <3>1, <3>2, <3>3 DEF SoundTaps
      <3> QED BY <3>4 DEF a, p, q, r
    <2>2. SoundTaps(b)
      BY Shows, AllSound
    <2> HIDE DEF a, b
    <2>3. SoundTaps(Joined({a, b}))
      BY <2>1, <2>2, JoinedTwo
    <2> QED BY <2>3 DEF AdminAdvisors, a, b
  <1>4. SoundTaps(AdminSuspension)
    <2> DEFINE p == On({"target"}, "account")
               q == Does(On({"target"}, "account"), "suspend")
    <2>1. SoundTap(p)
      BY Shows
    <2>2. SoundTap(q)
      BY WritesRows
    <2> HIDE DEF p, q
    <2>3. SoundTaps([ask_suspend |-> p, do_suspend |-> q])
      BY <2>1, <2>2 DEF SoundTaps
    <2> QED BY <2>3 DEF AdminSuspension, p, q
  <1>5. SoundTaps(AdminAdvisorRemoval)
    <2> DEFINE a == All({"ask_del_advisor", "del_advisor_pick"}, On({}, "admin"))
               b == [del_advisor |-> Does(On({}, "removable"), "delete advisor"),
                     del_advisor_to |-> Does(On({}, "removable"), "hand over")]
    <2>1. SoundTaps(a)
      BY Shows, AllSound
    <2>2. SoundTaps(b)
      <3> DEFINE p == Does(On({}, "removable"), "delete advisor")
                 q == Does(On({}, "removable"), "hand over")
      <3>1. SoundTap(p)
        BY WritesRows
      <3>2. SoundTap(q)
        BY WritesRows
      <3> HIDE DEF p, q
      <3>3. SoundTaps([del_advisor |-> p, del_advisor_to |-> q])
        BY <3>1, <3>2 DEF SoundTaps
      <3> QED BY <3>3 DEF b, p, q
    <2> HIDE DEF a, b
    <2>3. SoundTaps(Joined({a, b}))
      BY <2>1, <2>2, JoinedTwo
    <2> QED BY <2>3 DEF AdminAdvisorRemoval, a, b
  <1>6. SoundTaps(AdminStudents)
    <2> DEFINE a == [edit_person |-> Moves(On({"target"}, "account"), "edit_person", {"target"}),
                     search_person |-> Moves(On({}, "admin"), "search_person", {})]
               b == All({"persons", "person", "person_plans"}, On({}, "admin"))
    <2>1. SoundTaps(a)
      <3> DEFINE p == Moves(On({"target"}, "account"), "edit_person", {"target"})
                 q == Moves(On({}, "admin"), "search_person", {})
      <3>1. SoundTap(p)
        BY MovesFar
      <3>2. SoundTap(q)
        BY MovesFar
      <3> HIDE DEF p, q
      <3>3. SoundTaps([edit_person |-> p, search_person |-> q])
        BY <3>1, <3>2 DEF SoundTaps
      <3> QED BY <3>3 DEF a, p, q
    <2>2. SoundTaps(b)
      BY Shows, AllSound
    <2> HIDE DEF a, b
    <2>3. SoundTaps(Joined({a, b}))
      BY <2>1, <2>2, JoinedTwo
    <2> QED BY <2>3 DEF AdminStudents, a, b
  <1>7. SoundTaps(AdminStudentRemoval)
    <2> DEFINE a == All({"ask_suspend_student", "ask_del_student", "del_student"}, On({}, "admin"))
               b == [do_suspend_student |-> Does(On({"student"}, "scope"), "student"),
                     del_student_final |-> Does(On({"student"}, "scope"), "delete student")]
    <2>1. SoundTaps(a)
      BY Shows, AllSound
    <2>2. SoundTaps(b)
      <3> DEFINE p == Does(On({"student"}, "scope"), "student")
                 q == Does(On({"student"}, "scope"), "delete student")
      <3>1. SoundTap(p)
        BY WritesRows
      <3>2. SoundTap(q)
        BY WritesRows
      <3> HIDE DEF p, q
      <3>3. SoundTaps([do_suspend_student |-> p, del_student_final |-> q])
        BY <3>1, <3>2 DEF SoundTaps
      <3> QED BY <3>3 DEF b, p, q
    <2> HIDE DEF a, b
    <2>3. SoundTaps(Joined({a, b}))
      BY <2>1, <2>2, JoinedTwo
    <2> QED BY <2>3 DEF AdminStudentRemoval, a, b
  <1>8. SoundTaps(AdminTransfer)
    <2> DEFINE a == All({"transfer", "transfer_to"}, On({}, "admin"))
               b == [do_transfer |-> Does(On({"student", "heir"}, "scope"), "transfer")]
    <2>1. SoundTaps(a)
      BY Shows, AllSound
    <2>2. SoundTaps(b)
      <3> DEFINE p == Does(On({"student", "heir"}, "scope"), "transfer")
      <3>1. SoundTap(p)
        BY WritesRows
      <3> HIDE DEF p
      <3>2. SoundTaps([do_transfer |-> p])
        BY <3>1 DEF SoundTaps
      <3> QED BY <3>2 DEF b, p
    <2> HIDE DEF a, b
    <2>3. SoundTaps(Joined({a, b}))
      BY <2>1, <2>2, JoinedTwo
    <2> QED BY <2>3 DEF AdminTransfer, a, b
  <1>9. SoundTaps(AdminConnection)
    <2> DEFINE a == All({"connection", "ask_unlink"}, On({}, "admin"))
               b == All({"reissue", "revoke_invite", "do_unlink"},
                        Does(On({"student"}, "scope"), "student"))
    <2>1. SoundTaps(a)
      BY Shows, AllSound
    <2>2. SoundTaps(b)
      BY WritesRows, AllSound
    <2> HIDE DEF a, b
    <2>3. SoundTaps(Joined({a, b}))
      BY <2>1, <2>2, JoinedTwo
    <2> QED BY <2>3 DEF AdminConnection, a, b
  <1>10. SoundTaps(AdminPlans)
    <2> DEFINE a == All({"plans", "plan", "ask_del_plan"}, On({}, "admin"))
               b == [del_plan |-> Does(On({"plan"}, "plan"), "delete plan")]
    <2>1. SoundTaps(a)
      BY Shows, AllSound
    <2>2. SoundTaps(b)
      <3> DEFINE p == Does(On({"plan"}, "plan"), "delete plan")
      <3>1. SoundTap(p)
        BY WritesRows
      <3> HIDE DEF p
      <3>2. SoundTaps([del_plan |-> p])
        BY <3>1 DEF SoundTaps
      <3> QED BY <3>2 DEF b, p
    <2> HIDE DEF a, b
    <2>3. SoundTaps(Joined({a, b}))
      BY <2>1, <2>2, JoinedTwo
    <2> QED BY <2>3 DEF AdminPlans, a, b
  <1> QED BY <1>1, <1>2, <1>3, <1>4, <1>5, <1>6, <1>7, <1>8, <1>9, <1>10

\* Every button's row is sound.
LEMMA TapsSound == SoundTaps(Taps)
  <1>1. SoundTaps(AdminTaps)
    BY AdminTablesSound, JoinedSound DEF AdminTaps
  <1> QED BY <1>1, TablesSound, JoinedSound DEF Taps

LEMMA ReadingLine ==
  ASSUME NEW k, NEW right
  PROVE  Reads(k, right) = Line({}, k, {}, right, "show", "same", {})
  BY ReadsLine DEF Reads

LEMMA ReadingWritesLine ==
  ASSUME NEW k, NEW right, NEW what
  PROVE  Does(Reads(k, right), what) = Line({}, k, {}, right, what, "same", {})
  BY ReadingLine, DoesLine

\* The rows of the texts that index the FSM data, and of the dates, spelt out.
LEMMA InputLines ==
  /\ StudentInput = Line({}, {"student"}, {}, "student", "student", "clear", {})
  /\ SlotInput = Line({}, {"plan", "day", "slot"}, {}, "plan", "plan", "same", {"slot"})
  /\ AssignmentsInput = Line({}, {"plan"}, {}, "plan", "plan", "edit_day", {})
  /\ EditAdvisorInput = Line({}, {"target"}, {}, "account", "account", "clear", {})
  /\ EditPersonInput = Line({}, {"target"}, {}, "account", "account", "clear", {})
  /\ RangeInput = Line({"start", "end"}, {}, {"student"}, "range", "show", "same",
                       {"start", "end"})
  /\ RangeEndInput = Line({"end"}, {"start"}, {"student"}, "range", "show", "same",
                          {"start", "end"})
  <1>1. StudentInput = Line({}, {"student"}, {}, "student", "student", "clear", {})
    BY ReadingWritesLine, ClearsLine DEF StudentInput
  <1>2. SlotInput = Line({}, {"plan", "day", "slot"}, {}, "plan", "plan", "same", {"slot"})
    BY ReadingWritesLine, MovesLine DEF SlotInput
  <1>3. AssignmentsInput = Line({}, {"plan"}, {}, "plan", "plan", "edit_day", {})
    BY ReadingWritesLine, MovesLine DEF AssignmentsInput
  <1>4. /\ EditAdvisorInput = Line({}, {"target"}, {}, "account", "account", "clear", {})
        /\ EditPersonInput = Line({}, {"target"}, {}, "account", "account", "clear", {})
    BY ReadingWritesLine, ClearsLine DEF EditAdvisorInput, EditPersonInput
  <1>5. RangeInput = Line({"start", "end"}, {}, {"student"}, "range", "show", "same",
                          {"start", "end"})
    <2>1. [On({"start", "end"}, "range") EXCEPT !.gets = {"student"}]
            = Line({"start", "end"}, {}, {"student"}, "range", "show", "same", {})
      BY DEF On, Line
    <2> QED BY <2>1, MovesLine DEF RangeInput
  <1>6. RangeEndInput = Line({"end"}, {"start"}, {"student"}, "range", "show", "same",
                             {"start", "end"})
    <2>1. [RangeInput EXCEPT !.carries = {"end"}]
            = Line({"end"}, {}, {"student"}, "range", "show", "same", {"start", "end"})
      BY <1>5 DEF Line
    <2>2. [Line({"end"}, {}, {"student"}, "range", "show", "same", {"start", "end"})
             EXCEPT !.reads = {"start"}]
            = Line({"end"}, {"start"}, {"student"}, "range", "show", "same", {"start", "end"})
      BY DEF Line
    <2>3. RangeEndInput = [[RangeInput EXCEPT !.carries = {"end"}] EXCEPT !.reads = {"start"}]
      BY DEF RangeEndInput
    <2> QED BY <2>1, <2>2, <2>3
  <1> QED BY <1>1, <1>2, <1>3, <1>4, <1>5, <1>6

\* What is typed, in any state, and both dates at once.
LEMMA InputsSound ==
  /\ \A at \in DOMAIN Inputs : Sound(Inputs[at])
  /\ Sound(RangeInput)
  <1> DEFINE n == {}  s == {"student"}  p == {"plan"}  t == {"target"}  st == {"start"}
             e == {"end"}  sl == {"slot"}  se == {"start", "end"}
             pds == {"plan", "day", "slot"}
  <1>1. /\ n \in SUBSET Keys /\ s \in SUBSET Keys /\ p \in SUBSET Keys /\ t \in SUBSET Keys
        /\ st \in SUBSET Keys /\ e \in SUBSET Keys /\ sl \in SUBSET Keys
        /\ se \in SUBSET Keys /\ pds \in SUBSET Keys /\ n = {} /\ sl \subseteq pds
        /\ \A k \in SUBSET Keys : k \in SUBSET Fields
        /\ e \cap st = {} /\ e \cap s = {} /\ se \cap s = {} /\ st \cap s = {}
        /\ se \subseteq e \cup st /\ "plan" \in p /\ "plan" \in pds
    BY DEF Keys, Fields
  <1>2. /\ \A what \in {"student", "plan", "account", "show", "add"} : what \in Writes
        /\ "range_end" \in States /\ "edit_day" \in States
        /\ Needs("edit_day") = n /\ Needs("range_end") = st
    BY NeedsAre DEF Writes, States
  <1> HIDE DEF n, s, p, t, st, e, sl, se, pds
  <1>3. Sound(Line(n, s, n, "student", "student", "clear", n))
    BY <1>1, <1>2, FitsAre, LineSound
  <1>4. Sound(Line(n, pds, n, "plan", "plan", "same", sl))
    BY <1>1, <1>2, FitsAre, LineSound
  <1>5. Sound(Line(n, p, n, "plan", "plan", "edit_day", n))
    BY <1>1, <1>2, FitsAre, LineSound
  <1>6. Sound(Line(n, t, n, "account", "account", "clear", n))
    BY <1>1, <1>2, FitsAre, LineSound
  <1>7. Sound(Line(se, n, s, "range", "show", "same", se))
    BY <1>1, <1>2, FitsAre, LineSound
  <1>8. Sound(Line(e, st, s, "range", "show", "same", se))
    BY <1>1, <1>2, FitsAre, LineSound
  <1>9. SoundTap(Moves(On(st, "open"), "range_end", st))
    BY <1>1, <1>2, MovingRows
  <1>10. SoundTap(Clears(Does(On(n, "active"), "add")))
    BY <1>1, <1>2, FitsAre, WritingRows
  <1>11. SoundTap(Clears(Does(On(n, "admin"), "add")))
    BY <1>1, <1>2, FitsAre, WritingRows
  <1>12. /\ Sound(AddStudentInput) /\ Sound(AddAdvisorInput) /\ Sound(RangeStartInput)
         /\ Sound(SearchStudentInput) /\ Sound(AdminSearchInput)
    BY <1>9, <1>10, <1>11, MovesFar, Shows
       DEF SoundTap, AddStudentInput, AddAdvisorInput, RangeStartInput, SearchStudentInput,
           AdminSearchInput, n, st
  <1>13. /\ Sound(StudentInput) /\ Sound(SlotInput) /\ Sound(AssignmentsInput)
         /\ Sound(EditAdvisorInput) /\ Sound(EditPersonInput) /\ Sound(RangeInput)
         /\ Sound(RangeEndInput)
    BY <1>3, <1>4, <1>5, <1>6, <1>7, <1>8, InputLines DEF n, s, p, t, st, e, sl, se, pds
  <1> QED BY <1>12, <1>13 DEF Inputs

-----------------------------------------------------------------------------
(* A handler in flight.                                                    *)

\* LastDay adds to a date; everything else is a value of the FSM data.
Datum == Values \cup Nat

Acts == DOMAIN Taps \cup {"text", "both dates"}
Ons == DOMAIN Inputs \cup {"button"}
Tos == States \cup {"same", "clear"}
Carrying == [Fields -> Values]
Working == [Fields -> Datum]
Putting == SUBSET Keys

Handler ==
  [user : Users \cup {None}, act : Acts \cup {None}, on : Ons \cup {None},
   pc : {"none", "admitted", "checking", "moving", "placed", "got", "writing"},
   active : BOOLEAN, it : Working, does : Writes, to : Tos, puts : Putting, seen : [Keys -> Values],
   may : SUBSET (Users \cup Students \cup PlanIds)]

RowOf(x) ==
  IF x.on = "button" THEN Taps[x.act]
  ELSE IF x.act = "both dates" THEN RangeInput ELSE Inputs[x.on]
PutOf(x, k) == IF x.on = "edit_slot" THEN x.it["slot"] + 1 ELSE x.it[k]

\* What started it.
Started(x) ==
  /\ x.user \in Users
  /\ \/ x.on = "button" /\ x.act \in DOMAIN Taps
     \/ x.on \in DOMAIN Inputs /\ x.act = "text"
     \/ x.on = "range_start" /\ x.act = "both dates"

\* The values it has before it worked, and the keys among them that it relies on.
Has(x, keys) ==
  /\ \A f \in Fields : x.it[f] \in Domain(f) \cup {None}
  /\ \A f \in keys : x.it[f] # None
  /\ x.on = "button" /\ "start" \in RowOf(x).carries => x.it["start"] \in Weeks

\* What it will put into the FSM data is what the next state needs.
Brings(x) ==
  /\ \A k \in x.puts : PutOf(x, k) \in Domain(k) \cup {None}
  /\ x.to = "same" => \A k \in x.puts : PutOf(x, k) # None
  /\ x.to \notin {"same", "clear"} =>
       \A k \in Needs(x.to) : k \in x.puts /\ PutOf(x, k) # None

\* What it will write names rows.
Names(x) ==
  /\ x.does \in {"plan", "delete plan"} => x.it["plan"] \in PlanIds
  /\ x.does = "create" =>
       /\ x.it["student"] \in Students
       /\ x.it["start"] \in Dates /\ x.it["end"] \in Dates

Good(x) ==
  /\ x.pc # "none" => Started(x)
  /\ x.pc = "admitted" => Has(x, RowOf(x).carries)
  /\ x.pc = "checking" => Has(x, Full(RowOf(x)))
  /\ x.pc \in {"moving", "placed", "got"} => Brings(x)
  /\ x.pc \in {"moving", "placed", "got", "writing"} => Names(x)
  /\ x.pc = "got" => \A k \in Keys : x.seen[k] \in Domain(k) \cup {None}

Typed ==
  /\ site \in Setting
  /\ fsm \in [Users -> Position]
  /\ hs \in [Handlers -> Handler]
  /\ linked \subseteq people /\ people \subseteq Students
  /\ account \in {"active", "suspended", "deleted"}
  /\ plans \in [PlanIds -> Plan \cup {Unborn, Gone}]
  /\ screen \in [Users -> [at : States \cup {"summary", "overview"}, data : [Keys -> Datum]]]

TInv ==
  /\ Typed
  /\ \A h \in Handlers : /\ Good(hs[h])
                         /\ hs[h].pc \in {"placed", "got"} => site.storage = "redis"
  /\ \A u \in Users : \A k \in Keys : fsm[u].data[k] \in Domain(k) \cup {None}

LEMMA RowIs == \A h : Row(h) = RowOf(hs[h]) /\ \A k : Put(h, k) = PutOf(hs[h], k)
  BY DEF Row, RowOf, Put, PutOf

\* The row of every handler is sound.
LEMMA RowsSound ==
  ASSUME NEW x, Started(x)
  PROVE  /\ Sound(RowOf(x))
         /\ x.on = "button" => SoundTap(RowOf(x))
  <1>1. CASE x.on = "button"
    <2>1. RowOf(x) = Taps[x.act] /\ x.act \in DOMAIN Taps
      BY <1>1, InputsAre DEF RowOf, Started
    <2> QED BY <2>1, TapsSound DEF SoundTaps, SoundTap
  <1>2. CASE x.on # "button" /\ x.act = "both dates"
    <2>1. RowOf(x) = RangeInput
      BY <1>2 DEF RowOf
    <2> QED BY <1>2, <2>1, InputsSound
  <1>3. CASE x.on # "button" /\ x.act = "text"
    <2>1. RowOf(x) = Inputs[x.on] /\ x.on \in DOMAIN Inputs
      BY <1>3 DEF RowOf, Started
    <2> QED BY <1>3, <2>1, InputsSound
  <1> QED BY <1>1, <1>2, <1>3 DEF Started

LEMMA ValuesAre ==
  /\ \A f \in Fields : Domain(f) \subseteq Values
  /\ None \in Values /\ \A f \in Fields : None \notin Domain(f)
  BY NoneAssumption DEF Values

LEMMA DomainsAre ==
  /\ Domain("plan") = PlanIds /\ Domain("slot") = 0 .. Slots - 1
  /\ Domain("student") = Students /\ Domain("start") = Dates /\ Domain("end") = Dates
  /\ {"plan", "slot", "student", "start", "end"} \subseteq Keys /\ Keys \subseteq Fields
  BY DEF Domain, Keys, Fields

\* What a button or a text carries.
LEMMA CarriedAre ==
  ASSUME NEW fields \in SUBSET Fields, NEW it \in Carried(fields)
  PROVE  /\ it \in Carrying
         /\ \A f \in Fields : it[f] \in Domain(f) \cup {None}
         /\ \A f \in fields : it[f] # None
  BY ValuesAre DEF Carried, Carrying

LEMMA NoHandlerTyped == NoHandler \in Handler /\ NoHandler.pc = "none"
  BY ValuesAre DEF NoHandler, Handler, Datum, Working, Putting, Tos, Writes

-----------------------------------------------------------------------------
(* What each action does to the handlers.                                  *)

\* Only h moves.
Only(h) ==
  /\ hs' \in [Handlers -> Handler]
  /\ \A g \in Handlers \ {h} : hs'[g] = hs[g]

LEMMA EntitledTyped ==
  ASSUME Typed, NEW u \in Users
  PROVE  Entitled(u) \in SUBSET (Users \cup Students \cup PlanIds)
  BY DEF Typed, Entitled, Users

LEMMA BeginStep ==
  ASSUME Typed, NEW h \in Handlers, NEW u \in Users,
         NEW act \in Acts, NEW on \in Ons, NEW it \in Carrying,
         Begin(h, u, act, on, it)
  PROVE  /\ Only(h)
         /\ hs'[h].user = u /\ hs'[h].act = act /\ hs'[h].on = on
         /\ hs'[h].pc = "admitted" /\ hs'[h].it = it /\ hs'[h].may = Entitled(u)
         /\ hs'[h].does = "show"
  <1> DEFINE y == [NoHandler EXCEPT !.user = u, !.act = act, !.on = on, !.pc = "admitted",
                                    !.it = it, !.may = Entitled(u)]
  <1>1. /\ y \in Handler /\ y.user = u /\ y.act = act /\ y.on = on /\ y.pc = "admitted"
        /\ y.it = it /\ y.may = Entitled(u) /\ y.does = "show"
    <2>1. it \in Working
      BY DEF Datum, Carrying, Working
    <2> QED BY <2>1, EntitledTyped, ValuesAre DEF NoHandler, Handler, Writes, Tos, Putting
  <1>2. hs \in [Handlers -> Handler] /\ hs' = [hs EXCEPT ![h] = y]
    BY DEF Typed, Begin
  <1> HIDE DEF y
  <1> QED BY <1>1, <1>2 DEF Only

LEMMA EnterStep ==
  ASSUME Typed, NEW h \in Handlers, Started(hs[h]), Enter(h),
         NEW r, r = RowOf(hs[h]), r.reads \cup r.gets \subseteq Keys
  PROVE  /\ Only(h)
         /\ hs'[h].user = hs[h].user /\ hs'[h].act = hs[h].act /\ hs'[h].on = hs[h].on
         /\ hs'[h].pc = "checking"
         /\ hs'[h].active = (hs[h].user = Admin \/ account = "active")
         /\ hs'[h].it = [f \in Fields |-> IF f \in r.reads \cup r.gets
                                          THEN fsm[hs[h].user].data[f] ELSE hs[h].it[f]]
         /\ hs'[h].may = hs[h].may \cap Named(hs[h].user, hs'[h].it)
         /\ \A k \in r.reads : fsm[hs[h].user].data[k] # None
  <1> DEFINE x == hs[h]  data == fsm[x.user].data
             it == [f \in Fields |-> IF f \in r.reads \cup r.gets THEN data[f] ELSE x.it[f]]
             b == (x.user = Admin \/ account = "active")
             m == x.may \cap Named(x.user, it)
             y == [x EXCEPT !.pc = "checking", !.active = b, !.it = it, !.may = m]
  <1>1. hs \in [Handlers -> Handler] /\ x \in Handler
    BY DEF Typed
  <1>2. it \in Working
    <2>1. x.it \in Working /\ data \in [Keys -> Values]
      BY <1>1 DEF Typed, Handler, Position, Started
    <2> QED BY <2>1 DEF Datum, Working
  <1>3. hs' = [hs EXCEPT ![h].pc = "checking", ![h].active = b, ![h].it = it,
                         ![h].may = @ \cap Named(x.user, it)]
    BY RowIs DEF Enter
  <1>4. /\ y \in Handler /\ y.user = x.user /\ y.act = x.act /\ y.on = x.on
        /\ y.pc = "checking" /\ y.active = b /\ y.it = it /\ y.may = m
    BY <1>1, <1>2 DEF Handler
  <1>5. hs' = [hs EXCEPT ![h] = y]
    BY <1>3
  <1>6. \A k \in r.reads : data[k] # None
    BY RowIs DEF Enter
  <1> HIDE DEF y
  <1> QED BY <1>1, <1>4, <1>5, <1>6 DEF Only

LEMMA ProceedStep ==
  ASSUME Typed, NEW h \in Handlers, NEW it \in Working, NEW does \in Writes, NEW to \in Tos,
         NEW puts \in Putting,
         Proceed(h, it, does, to, puts)
  PROVE  /\ Only(h)
         /\ hs'[h].user = hs[h].user /\ hs'[h].act = hs[h].act /\ hs'[h].on = hs[h].on
         /\ hs'[h].pc = "moving" /\ hs'[h].it = it /\ hs'[h].does = does
         /\ hs'[h].to = to /\ hs'[h].puts = puts /\ hs'[h].may = hs[h].may
         /\ hs'[h].active = hs[h].active
  <1> DEFINE x == hs[h]
             y == [x EXCEPT !.pc = "moving", !.it = it, !.does = does, !.to = to, !.puts = puts]
  <1>1. hs \in [Handlers -> Handler] /\ x \in Handler
    BY DEF Typed
  <1>2. /\ y \in Handler /\ y.user = x.user /\ y.act = x.act /\ y.on = x.on
        /\ y.pc = "moving" /\ y.it = it /\ y.does = does /\ y.to = to /\ y.puts = puts
        /\ y.may = x.may /\ y.active = x.active
    BY <1>1 DEF Handler
  <1>3. hs' = [hs EXCEPT ![h] = y]
    BY DEF Proceed
  <1> HIDE DEF y
  <1> QED BY <1>1, <1>2, <1>3 DEF Only

LEMMA EndStep ==
  ASSUME Typed, NEW h \in Handlers, End(h)
  PROVE  Only(h) /\ hs'[h] = NoHandler
  BY NoHandlerTyped DEF Typed, End, Only

LEMMA ShowStep ==
  ASSUME Typed, NEW h \in Handlers, Show(h)
  PROVE  /\ Only(h)
         /\ hs[h].does = "show" => hs'[h] = NoHandler
         /\ hs[h].does # "show" =>
              /\ hs'[h].pc = "writing" /\ hs'[h].user = hs[h].user
              /\ hs'[h].act = hs[h].act /\ hs'[h].on = hs[h].on
              /\ hs'[h].it = hs[h].it /\ hs'[h].does = hs[h].does /\ hs'[h].may = hs[h].may
  <1>1. CASE hs[h].does = "show"
    BY <1>1, EndStep DEF Show
  <1>2. CASE hs[h].does # "show"
    <2> DEFINE x == hs[h]  y == [x EXCEPT !.pc = "writing"]
    <2>1. hs \in [Handlers -> Handler] /\ x \in Handler
      BY DEF Typed
    <2>2. /\ y \in Handler /\ y.user = x.user /\ y.act = x.act /\ y.on = x.on
          /\ y.pc = "writing" /\ y.it = x.it /\ y.does = x.does /\ y.may = x.may
      BY <2>1 DEF Handler
    <2>3. hs' = [hs EXCEPT ![h] = y]
      BY <1>2 DEF Show
    <2> HIDE DEF y
    <2> QED BY <1>2, <2>1, <2>2, <2>3 DEF Only
  <1> QED BY <1>1, <1>2

LEMMA SetStateStep ==
  ASSUME Typed, NEW h \in Handlers, SetState(h)
  PROVE  /\ Only(h) /\ hs'[h].pc = "placed"
         /\ hs'[h].user = hs[h].user /\ hs'[h].act = hs[h].act /\ hs'[h].on = hs[h].on
         /\ hs'[h].it = hs[h].it /\ hs'[h].does = hs[h].does /\ hs'[h].may = hs[h].may
         /\ hs'[h].to = hs[h].to /\ hs'[h].puts = hs[h].puts
  <1> DEFINE x == hs[h]  y == [x EXCEPT !.pc = "placed"]
  <1>1. hs \in [Handlers -> Handler] /\ x \in Handler
    BY DEF Typed
  <1>2. /\ y \in Handler /\ y.user = x.user /\ y.act = x.act /\ y.on = x.on
        /\ y.pc = "placed" /\ y.it = x.it /\ y.does = x.does /\ y.may = x.may
        /\ y.to = x.to /\ y.puts = x.puts
    BY <1>1 DEF Handler
  <1>3. hs' = [hs EXCEPT ![h] = y]
    BY DEF SetState
  <1> HIDE DEF y
  <1> QED BY <1>1, <1>2, <1>3 DEF Only

LEMMA GetDataStep ==
  ASSUME Typed, NEW h \in Handlers, Started(hs[h]), GetData(h)
  PROVE  /\ Only(h) /\ hs'[h].pc = "got"
         /\ hs'[h].user = hs[h].user /\ hs'[h].act = hs[h].act /\ hs'[h].on = hs[h].on
         /\ hs'[h].it = hs[h].it /\ hs'[h].does = hs[h].does /\ hs'[h].may = hs[h].may
         /\ hs'[h].to = hs[h].to /\ hs'[h].puts = hs[h].puts
         /\ hs'[h].seen = fsm[hs[h].user].data
  <1> DEFINE x == hs[h]  d == fsm[x.user].data  y == [x EXCEPT !.pc = "got", !.seen = d]
  <1>1. hs \in [Handlers -> Handler] /\ x \in Handler /\ d \in [Keys -> Values]
    BY DEF Typed, Position, Started
  <1> HIDE DEF d
  <1>2. /\ y \in Handler /\ y.user = x.user /\ y.act = x.act /\ y.on = x.on
        /\ y.pc = "got" /\ y.it = x.it /\ y.does = x.does /\ y.may = x.may
        /\ y.to = x.to /\ y.puts = x.puts /\ y.seen = d
    BY <1>1 DEF Handler
  <1>3. hs' = [hs EXCEPT ![h] = y]
    BY DEF GetData, d
  <1> HIDE DEF y
  <1> QED BY <1>1, <1>2, <1>3 DEF Only, d

\* A commit touches the others only in what they may have been entitled to.
LEMMA CommitStep ==
  ASSUME Typed, NEW h \in Handlers, Commit(h), people' \subseteq Students,
         \A g \in Handlers : hs[g].pc # "none" => Started(hs[g])
  PROVE  /\ hs' \in [Handlers -> Handler] /\ hs'[h] = NoHandler
         /\ \A g \in Handlers \ {h} :
              /\ hs'[g].user = hs[g].user /\ hs'[g].act = hs[g].act /\ hs'[g].on = hs[g].on
              /\ hs'[g].pc = hs[g].pc /\ hs'[g].active = hs[g].active
              /\ hs'[g].it = hs[g].it /\ hs'[g].does = hs[g].does /\ hs'[g].to = hs[g].to
              /\ hs'[g].puts = hs[g].puts /\ hs'[g].seen = hs[g].seen
              /\ hs[g].may \subseteq hs'[g].may
              /\ \A u \in Users : u = hs[g].user =>
                   /\ hs[g].pc = "admitted" => Entitled(u)' \subseteq hs'[g].may
                   /\ hs[g].pc = "checking" =>
                        Entitled(u)' \cap Named(u, hs[g].it) \subseteq hs'[g].may
  <1> DEFINE e == [u \in Users |-> Entitled(u)]'
             gain(g) == IF hs[g].pc = "admitted" THEN e[hs[g].user]
                        ELSE e[hs[g].user] \cap Named(hs[g].user, hs[g].it)
             y(g) == [hs[g] EXCEPT !.may = @ \cup gain(g)]
  <1>1. \A u \in Users : e[u] = Entitled(u)' /\ e[u] \in SUBSET (Users \cup Students \cup PlanIds)
    BY DEF Entitled
  <1>2. hs' = [g \in Handlers |-> CASE g = h -> NoHandler
                                    [] g # h /\ hs[g].pc = "none" -> hs[g]
                                    [] OTHER -> y(g)]
    BY DEF Commit, At
  <1> HIDE DEF e
  <1>3. hs'[h] = NoHandler
    BY <1>2
  <1>4. ASSUME NEW g \in Handlers \ {h}
        PROVE  /\ hs'[g] \in Handler
               /\ hs'[g].user = hs[g].user /\ hs'[g].act = hs[g].act /\ hs'[g].on = hs[g].on
               /\ hs'[g].pc = hs[g].pc /\ hs'[g].active = hs[g].active
               /\ hs'[g].it = hs[g].it /\ hs'[g].does = hs[g].does /\ hs'[g].to = hs[g].to
               /\ hs'[g].puts = hs[g].puts /\ hs'[g].seen = hs[g].seen
               /\ hs[g].pc # "none" => hs'[g].may = hs[g].may \cup gain(g)
               /\ hs[g].pc = "none" => hs'[g] = hs[g]
    <2>1. hs[g] \in Handler
      BY DEF Typed
    <2>2. CASE hs[g].pc = "none"
      BY <1>2, <2>1, <2>2
    <2>3. CASE hs[g].pc # "none"
      <3>1. hs'[g] = y(g)
        BY <1>2, <2>3
      <3>2. hs[g].user \in Users
        BY <2>3 DEF Started
      <3>3. hs[g].may \cup gain(g) \in SUBSET (Users \cup Students \cup PlanIds)
        BY <1>1, <2>1, <3>2 DEF Handler
      <3> HIDE DEF gain
      <3> QED BY <2>1, <2>3, <3>1, <3>3 DEF Handler
    <2> QED BY <2>2, <2>3
  <1>5. hs' \in [Handlers -> Handler]
    BY <1>2, <1>3, <1>4, NoHandlerTyped
  <1>6. ASSUME NEW g \in Handlers \ {h}
        PROVE  /\ hs[g].may \subseteq hs'[g].may
               /\ \A u \in Users : u = hs[g].user =>
                    /\ hs[g].pc = "admitted" => Entitled(u)' \subseteq hs'[g].may
                    /\ hs[g].pc = "checking" =>
                         Entitled(u)' \cap Named(u, hs[g].it) \subseteq hs'[g].may
    BY <1>1, <1>4
  <1> QED BY <1>3, <1>4, <1>5, <1>6

-----------------------------------------------------------------------------
(* Every handler is good.                                                  *)

\* Only a button creates a plan.
LEMMA InputsDo ==
  ASSUME NEW x, Started(x), RowOf(x).does \in {"create", "this week"}
  PROVE  x.on = "button"
  <1>1. /\ AddStudentInput.does = "add" /\ SearchStudentInput.does = "show"
        /\ RangeStartInput.does = "show" /\ AddAdvisorInput.does = "add"
        /\ AdminSearchInput.does = "show"
    BY DEF AddStudentInput, SearchStudentInput, RangeStartInput, AddAdvisorInput,
           AdminSearchInput, On, Does, Moves, Clears
  <1>2. /\ RangeInput.does = "show" /\ RangeEndInput.does = "show"
        /\ StudentInput.does = "student" /\ SlotInput.does = "plan"
        /\ AssignmentsInput.does = "plan" /\ EditAdvisorInput.does = "account"
        /\ EditPersonInput.does = "account"
    BY InputLines DEF Line
  <1>3. \A at \in DOMAIN Inputs : Inputs[at].does \notin {"create", "this week"}
    BY <1>1, <1>2, InputsAre, ZenonT(30)
  <1> QED BY <1>2, <1>3 DEF Started, RowOf

\* The last day of what is created is a date.
LEMMA LastDayIs ==
  ASSUME NEW x, Started(x), Has(x, Full(RowOf(x))),
         RowOf(x).does \in {"create", "this week"}
  PROVE  /\ x.it["student"] \in Students
         /\ x.it["start"] \in Dates /\ LastDay(x.it) \in Dates
  <1> DEFINE r == RowOf(x)
  <1>1. x.on = "button" /\ SoundTap(r)
    BY InputsDo, RowsSound
  <1>2. "student" \in Full(r) /\ "start" \in Full(r)
    BY <1>1 DEF SoundTap, Sound
  <1>3. x.it["student"] \in Students /\ x.it["start"] \in Dates /\ x.it["end"] \in Dates \cup {None}
    BY <1>2, DomainsAre DEF Has
  <1>4. CASE "start" \in r.carries
    BY <1>1, <1>3, <1>4, DialogueAssumption DEF Has, LastDay, Dates
  <1>5. CASE "start" \in r.reads
    <2>1. "end" \in Full(r)
      BY <1>1, <1>5 DEF SoundTap, Full
    <2> QED BY <1>3, <2>1 DEF Has, LastDay
  <1> QED BY <1>2, <1>3, <1>4, <1>5 DEF Full

LEMMA NoHandlerGood == Good(NoHandler)
  BY NoHandlerTyped DEF Good

LEMMA GoodBegin ==
  ASSUME TInv, NEW h \in Handlers, NEW u \in Users, Arrive(h, u)
  PROVE  /\ Only(h) /\ Good(hs'[h]) /\ hs'[h].pc = "admitted"
         /\ hs'[h].user = u /\ hs'[h].may = Entitled(u) /\ At(h, "none")
         /\ site.patient => \A g \in Handlers : hs[g].user # u
         /\ UNCHANGED <<site, fsm, rows, screen>>
  <1> DEFINE begun(it) ==
               /\ Only(h) /\ hs'[h].pc = "admitted" /\ hs'[h].user = u
               /\ hs'[h].may = Entitled(u) /\ hs'[h].it = it
  <1>1. ASSUME NEW act \in site.taps[u], NEW it \in Buttons[act], Tap(h, u, act, it)
        PROVE  Only(h) /\ Good(hs'[h]) /\ \E on : Begin(h, u, act, on, it) /\ begun(it)
    <2>1. act \in DOMAIN Taps
      BY DEF TInv, Typed, Setting
    <2>2. Sound(Taps[act])
      BY <2>1, TapsSound DEF SoundTaps, SoundTap
    <2>3. Taps[act].carries \in SUBSET Fields /\ it \in Carried(Taps[act].carries)
      BY <2>1, <2>2 DEF Buttons, Sound
    <2>4. /\ it \in Carrying /\ \A f \in Fields : it[f] \in Domain(f) \cup {None}
          /\ \A f \in Taps[act].carries : it[f] # None
      BY <2>3, CarriedAre
    <2>5. Begin(h, u, act, "button", it) /\ (it["start"] # None => it["start"] \in Weeks)
      BY <1>1 DEF Tap
    <2>6. begun(it) /\ hs'[h].on = "button" /\ hs'[h].act = act
      <3>1. Typed /\ act \in Acts /\ "button" \in Ons /\ it \in Carrying
        BY <2>1, <2>4 DEF TInv, Acts, Ons, Carrying
      <3> QED BY <3>1, <2>5, BeginStep
    <2>7. RowOf(hs'[h]) = Taps[act]
      BY <2>6 DEF RowOf
    <2>8. Good(hs'[h])
      BY <2>1, <2>4, <2>5, <2>6, <2>7 DEF Good, Has, Started
    <2> QED BY <2>5, <2>6, <2>8
  <1>2. ASSUME NEW at \in DOMAIN Inputs, NEW it \in Texts[at], Type(h, u, at, it)
        PROVE  Only(h) /\ Good(hs'[h]) /\ Begin(h, u, "text", at, it) /\ begun(it)
    <2>1. Sound(Inputs[at]) /\ at # "button"
      BY InputsSound, InputsAre
    <2>2. Inputs[at].carries \in SUBSET Fields /\ it \in Carried(Inputs[at].carries)
      BY <2>1 DEF Texts, Sound
    <2>3. /\ it \in Carrying /\ \A f \in Fields : it[f] \in Domain(f) \cup {None}
          /\ \A f \in Inputs[at].carries : it[f] # None
      BY <2>2, CarriedAre
    <2>4. Begin(h, u, "text", at, it)
      BY <1>2 DEF Type
    <2>5. begun(it) /\ hs'[h].on = at /\ hs'[h].act = "text"
      <3>1. Typed /\ "text" \in Acts /\ at \in Ons /\ it \in Carrying
        BY <2>3 DEF TInv, Acts, Ons, Carrying
      <3> QED BY <3>1, <2>4, BeginStep
    <2>6. RowOf(hs'[h]) = Inputs[at]
      BY <2>1, <2>5 DEF RowOf
    <2>7. Good(hs'[h])
      BY <2>1, <2>3, <2>5, <2>6 DEF Good, Has, Started
    <2> QED BY <2>4, <2>5, <2>7
  <1>3. ASSUME NEW it \in BothDates, TypeBothDates(h, u, it)
        PROVE  /\ Only(h) /\ Good(hs'[h])
               /\ Begin(h, u, "both dates", "range_start", it) /\ begun(it)
    <2>1. RangeInput.carries \in SUBSET Fields /\ it \in Carried(RangeInput.carries)
      BY InputsSound DEF BothDates, Sound
    <2>2. /\ it \in Carrying /\ \A f \in Fields : it[f] \in Domain(f) \cup {None}
          /\ \A f \in RangeInput.carries : it[f] # None
      BY <2>1, CarriedAre
    <2>3. Begin(h, u, "both dates", "range_start", it) /\ "range_start" \in DOMAIN Inputs
      BY <1>3, InputsAre DEF TypeBothDates
    <2>4. begun(it) /\ hs'[h].on = "range_start" /\ hs'[h].act = "both dates"
      <3>1. PICK act, on : act = "both dates" /\ on = "range_start"
        OBVIOUS
      <3>2. Typed /\ act \in Acts /\ on \in Ons /\ it \in Carrying
        BY <2>2, <2>3, <3>1 DEF TInv, Acts, Ons
      <3>3. Begin(h, u, act, on, it)
        BY <2>3, <3>1
      <3>4. begun(it) /\ hs'[h].on = on /\ hs'[h].act = act
        BY <3>2, <3>3, BeginStep
      <3> QED BY <3>1, <3>4
    <2>5. RowOf(hs'[h]) = RangeInput
      BY <2>4 DEF RowOf
    <2>6. Good(hs'[h])
      BY <2>2, <2>4, <2>5 DEF Good, Has, Started
    <2> QED BY <2>3, <2>4, <2>6
  <1>4. \E act, on, it : Good(hs'[h]) /\ Begin(h, u, act, on, it) /\ begun(it)
    <2> HIDE DEF begun
    <2> QED BY <1>1, <1>2, <1>3 DEF Arrive
  <1> QED BY <1>4 DEF Begin

LEMMA GoodEnter ==
  ASSUME TInv, NEW h \in Handlers, Enter(h)
  PROVE  /\ Only(h) /\ Good(hs'[h]) /\ hs'[h].pc = "checking"
  <1> DEFINE x == hs[h]  y == hs'[h]  data == fsm[x.user].data
  <1>1. PICK r : r = RowOf(x)
    OBVIOUS
  <1>2. Started(x) /\ Has(x, r.carries) /\ Sound(r)
    BY <1>1, RowsSound DEF TInv, Good, Enter, At
  <1>3. r.reads \cup r.gets \subseteq Keys
    BY <1>2 DEF Sound
  <1>4. /\ Only(h) /\ y.user = x.user /\ y.act = x.act /\ y.on = x.on /\ y.pc = "checking"
        /\ y.it = [f \in Fields |-> IF f \in r.reads \cup r.gets THEN data[f] ELSE x.it[f]]
        /\ \A k \in r.reads : data[k] # None
    BY <1>1, <1>2, <1>3, EnterStep DEF TInv
  <1>5. RowOf(y) = r /\ Started(y)
    BY <1>1, <1>2, <1>4 DEF RowOf, Started
  <1>6. \A f \in Keys : data[f] \in Domain(f) \cup {None}
    BY <1>2 DEF TInv, Started
  <1>7. \A f \in Fields : y.it[f] \in Domain(f) \cup {None}
    BY <1>2, <1>3, <1>4, <1>6 DEF Has
  <1>8. \A f \in Full(r) : y.it[f] # None
    BY <1>2, <1>3, <1>4, DomainsAre DEF Has, Full, Sound
  <1>9. y.on = "button" /\ "start" \in r.carries => y.it["start"] \in Weeks
    BY <1>1, <1>2, <1>4, DomainsAre DEF Has, Sound
  <1> QED BY <1>4, <1>5, <1>7, <1>8, <1>9 DEF Good, Has

\* A handler on that state with those values may go on to do and to put that.
Bears(on, it, does, to, puts) ==
  \A y : y.on = on /\ y.it = it /\ y.does = does /\ y.to = to /\ y.puts = puts
        => Brings(y) /\ Names(y)

LEMMA GoodProceed ==
  ASSUME TInv, NEW h \in Handlers, hs[h].pc = "checking", NEW it \in Working,
         NEW does \in Writes, NEW to \in Tos, NEW puts \in Putting, Proceed(h, it, does, to, puts),
         Bears(hs[h].on, it, does, to, puts)
  PROVE  /\ Only(h) /\ Good(hs'[h]) /\ hs'[h].pc = "moving"
         /\ hs'[h].user = hs[h].user /\ hs'[h].may = hs[h].may
         /\ hs'[h].on = hs[h].on /\ hs'[h].it = it /\ hs'[h].does = does
         /\ hs'[h].to = to /\ hs'[h].puts = puts
  <1>1. /\ Only(h)
        /\ hs'[h].user = hs[h].user /\ hs'[h].act = hs[h].act /\ hs'[h].on = hs[h].on
        /\ hs'[h].pc = "moving" /\ hs'[h].it = it /\ hs'[h].does = does
        /\ hs'[h].to = to /\ hs'[h].puts = puts /\ hs'[h].may = hs[h].may
    BY ProceedStep DEF TInv
  <1>2. Started(hs[h])
    BY DEF TInv, Good
  <1>3. Started(hs'[h])
    BY <1>1, <1>2 DEF Started
  <1>4. Brings(hs'[h]) /\ Names(hs'[h])
    BY <1>1 DEF Bears
  <1> QED BY <1>1, <1>3, <1>4 DEF Good

LEMMA SlotRow ==
  ASSUME NEW x, Started(x), x.on = "edit_slot"
  PROVE  /\ RowOf(x) = SlotInput /\ RowOf(x).puts = {"slot"} /\ RowOf(x).to = "same"
         /\ RowOf(x).reads = {"plan", "day", "slot"} /\ RowOf(x).carries = {}
  <1>1. RowOf(x) = SlotInput
    BY InputsAre DEF Started, RowOf
  <1>2. /\ SlotInput.puts = {"slot"} /\ SlotInput.to = "same"
        /\ SlotInput.reads = {"plan", "day", "slot"} /\ SlotInput.carries = {}
    BY InputLines DEF Line
  <1> QED BY <1>1, <1>2

\* A handler that goes on as its row says brings what the next state needs.
LEMMA BringsRow ==
  ASSUME NEW x, Started(x), NEW r, r = RowOf(x), NEW y, y.on = x.on, y.to = r.to,
         y.puts = r.puts, \A k \in Keys : y.it[k] \in Domain(k) \cup {None},
         \A k \in Full(r) \cup Made(r) : y.it[k] # None,
         x.on = "edit_slot" => y.it["slot"] + 1 # Slots
  PROVE  Brings(y)
  <1>1. Sound(r) /\ r.puts \subseteq Keys
    BY RowsSound DEF Sound
  <1>2. CASE x.on = "edit_slot"
    <2>1. y.puts = {"slot"} /\ y.to = "same" /\ y.it["slot"] # None
      BY <1>2, SlotRow DEF Full
    <2>2. y.it["slot"] \in 0 .. Slots - 1
      BY <2>1, DomainsAre
    <2>3. PutOf(y, "slot") \in 0 .. Slots - 1
      BY <1>2, <2>2, DialogueAssumption DEF PutOf
    <2>4. \A k \in y.puts : PutOf(y, k) \in Domain(k) /\ Domain(k) = Domain("slot")
      BY <2>1, <2>3, DomainsAre
    <2>5. None \notin Domain("slot")
      BY DomainsAre, NoneAssumption
    <2> QED BY <2>1, <2>4, <2>5 DEF Brings
  <1>3. CASE x.on # "edit_slot"
    <2>1. \A k \in Keys : PutOf(y, k) = y.it[k]
      BY <1>3 DEF PutOf
    <2>2. \A k \in y.puts : PutOf(y, k) \in Domain(k) \cup {None}
      BY <1>1, <2>1
    <2>3. y.to = "same" => \A k \in y.puts : PutOf(y, k) # None
      BY <1>1, <2>1 DEF Sound
    <2>4. y.to \notin {"same", "clear"} =>
            \A k \in Needs(y.to) : k \in y.puts /\ PutOf(y, k) # None
      BY <1>1, <2>1 DEF Sound
    <2> QED BY <2>2, <2>3, <2>4 DEF Brings
  <1> QED BY <1>2, <1>3

LEMMA GoodPlain ==
  ASSUME TInv, NEW h \in Handlers, CheckPlain(h), NEW r, r = RowOf(hs[h])
  PROVE  /\ Only(h) /\ Good(hs'[h]) /\ hs'[h].pc = "moving"
         /\ hs'[h].user = hs[h].user /\ hs'[h].may = hs[h].may /\ hs'[h].on = hs[h].on
         /\ hs'[h].it = hs[h].it /\ hs'[h].does = r.does
         /\ \/ hs'[h].to = r.to /\ hs'[h].puts = r.puts
            \/ hs'[h].on = "edit_slot" /\ hs'[h].to = "edit_day"
  <1> DEFINE x == hs[h]
  <1>1. /\ Started(x) /\ Has(x, Full(r)) /\ x.it \in Working /\ Sound(r)
        /\ x.pc = "checking"
    BY RowsSound DEF TInv, Typed, Good, CheckPlain, At, Handler
  <1>2. r.does \notin {"create", "this week"} /\ Made(r) = {}
    BY RowIs DEF CheckPlain, Made
  <1>3. r.does \in Writes /\ r.to \in Tos /\ r.puts \in Putting
    BY <1>1, <1>2 DEF Sound, Tos, Putting
  <1>4. \A y : y.it = x.it /\ y.does = r.does => Names(y)
    BY <1>1, <1>2, DomainsAre DEF Sound, Has, Names
  <1>5. CASE x.on = "edit_slot" /\ x.it["slot"] + 1 = Slots
    <2>1. PICK to, puts : to = "edit_day" /\ puts = {}
      OBVIOUS
    <2>2. Proceed(h, x.it, r.does, to, puts)
      BY <1>5, <2>1, RowIs DEF CheckPlain
    <2>3. Bears(x.on, x.it, r.does, to, puts)
      BY <1>4, <2>1, NeedsAre DEF Brings, Bears
    <2>4. to \in Tos /\ puts \in Putting
      BY <2>1 DEF Tos, States, Putting
    <2>5. /\ Only(h) /\ Good(hs'[h]) /\ hs'[h].pc = "moving"
          /\ hs'[h].user = hs[h].user /\ hs'[h].may = hs[h].may /\ hs'[h].on = hs[h].on
          /\ hs'[h].it = x.it /\ hs'[h].does = r.does /\ hs'[h].to = to
      BY <1>1, <1>3, <2>2, <2>3, <2>4, GoodProceed
    <2> QED BY <1>5, <2>1, <2>5
  <1>6. CASE ~(x.on = "edit_slot" /\ x.it["slot"] + 1 = Slots)
    <2>1. Proceed(h, x.it, r.does, r.to, r.puts)
      BY <1>6, RowIs DEF CheckPlain
    <2>2. /\ \A k \in Keys : x.it[k] \in Domain(k) \cup {None}
          /\ \A k \in Full(r) \cup Made(r) : x.it[k] # None
      BY <1>1, <1>2, DomainsAre DEF Has
    <2>3. \A y : y.on = x.on /\ y.it = x.it /\ y.to = r.to /\ y.puts = r.puts => Brings(y)
      BY <1>1, <1>6, <2>2, BringsRow
    <2>4. Bears(x.on, x.it, r.does, r.to, r.puts)
      BY <1>4, <2>3 DEF Bears
    <2>5. /\ Only(h) /\ Good(hs'[h]) /\ hs'[h].pc = "moving"
          /\ hs'[h].user = hs[h].user /\ hs'[h].may = hs[h].may /\ hs'[h].on = hs[h].on
          /\ hs'[h].it = x.it /\ hs'[h].does = r.does
          /\ hs'[h].to = r.to /\ hs'[h].puts = r.puts
      BY <1>1, <1>3, <2>1, <2>4, GoodProceed
    <2> QED BY <2>5
  <1> QED BY <1>5, <1>6

\* The values of a handler that found or made the plan p, with the last day `end'.
Opened(v, it, p, end) ==
  /\ it \in Working /\ it["plan"] = p /\ it["end"] = end
  /\ \A f \in Fields : f \notin {"plan", "end"} => it[f] = v[f]

LEMMA OpenedIs ==
  ASSUME NEW v, v \in Working, NEW p \in PlanIds, NEW end \in Datum
  PROVE  /\ Opened(v, [v EXCEPT !["plan"] = p], p, v["end"])
         /\ Opened(v, [v EXCEPT !["plan"] = p, !["end"] = end], p, end)
  <1>1. p \in Datum /\ "plan" \in Fields /\ "end" \in Fields
    BY DomainsAre, ValuesAre DEF Datum
  <1> QED BY <1>1 DEF Working, Opened

LEMMA WithPlan ==
  ASSUME NEW x, Started(x), NEW r, r = RowOf(x), Has(x, Full(r)), NEW it, NEW p \in PlanIds,
         NEW end, end \in Domain("end") \cup {None}, end = None => x.it["end"] = None,
         Opened(x.it, it, p, end)
  PROVE  /\ \A k \in Keys : it[k] \in Domain(k) \cup {None}
         /\ \A k \in Full(r) \cup Made(r) : it[k] # None
         /\ it["student"] = x.it["student"] /\ it["start"] = x.it["start"]
  <1>1. p \in Domain("plan") /\ "plan" \in Keys /\ "end" \in Keys /\ p # None
    BY DomainsAre, ValuesAre
  <1>2. /\ it["plan"] = p /\ it["end"] = end
        /\ \A f \in Fields : f \notin {"plan", "end"} => it[f] = x.it[f]
    BY DEF Opened
  <1>3. \A k \in Keys : it[k] \in Domain(k) \cup {None}
    BY <1>1, <1>2, DomainsAre DEF Has
  <1>4. \A k \in Full(r) \cup Made(r) : it[k] # None
    <2>1. Full(r) \cup Made(r) \subseteq Fields
      BY RowsSound, DomainsAre DEF Sound, Full, Made
    <2> QED BY <1>1, <1>2, <2>1 DEF Has, Made
  <1> QED BY <1>2, <1>3, <1>4, DomainsAre

LEMMA GoodFound ==
  ASSUME TInv, NEW h \in Handlers, CheckFound(h)
  PROVE  /\ Only(h) /\ Good(hs'[h]) /\ hs'[h].pc = "moving"
         /\ hs'[h].user = hs[h].user /\ hs'[h].may = hs[h].may
         /\ hs'[h].on = "button" /\ hs'[h].does = "show"
  <1> DEFINE x == hs[h]
  <1>0. PICK r : r = RowOf(x)
    OBVIOUS
  <1>1. /\ Started(x) /\ Has(x, Full(r)) /\ x \in Handler /\ Sound(r) /\ x.pc = "checking"
    BY <1>0, RowsSound DEF TInv, Typed, Good, CheckFound, At
  <1>2. r.does \in {"create", "this week"} /\ x.on = "button"
    BY <1>0, <1>1, RowIs, InputsDo DEF CheckFound
  <1>3. PICK p \in PlanIds :
          LET it == [x.it EXCEPT !["plan"] = p]
          IN IF r.does = "this week" THEN Proceed(h, it, "show", "same", {"plan"})
             ELSE Proceed(h, it, "show", r.to, r.puts)
    BY <1>0, RowIs DEF CheckFound, PlanAt
  <1>4. PICK it : it = [x.it EXCEPT !["plan"] = p]
    OBVIOUS
  <1>5. /\ it \in Working /\ \A k \in Keys : it[k] \in Domain(k) \cup {None}
        /\ \A k \in Full(r) \cup Made(r) : it[k] # None
    <2>1. x.it \in Working /\ x.it["end"] \in Domain("end") \cup {None} /\ x.it["end"] \in Datum
      BY <1>1, DomainsAre DEF Handler, Working, Has
    <2>2. PICK end : end = x.it["end"]
      OBVIOUS
    <2>3. Opened(x.it, it, p, end)
      BY <1>4, <2>1, <2>2, OpenedIs
    <2>4. end \in Domain("end") \cup {None} /\ (end = None => x.it["end"] = None)
      BY <2>1, <2>2
    <2>5. Started(x) /\ Has(x, Full(r))
      BY <1>1
    <2>6. /\ \A k \in Keys : it[k] \in Domain(k) \cup {None}
          /\ \A k \in Full(r) \cup Made(r) : it[k] # None
      BY <1>0, <2>3, <2>4, <2>5, WithPlan
    <2> QED BY <2>3, <2>6 DEF Opened
  <1>6. PICK does : does = "show"
    OBVIOUS
  <1>7. does \in Writes /\ \A y : y.does = does => Names(y)
    BY <1>6 DEF Writes, Names
  <1>8. CASE r.does = "this week"
    <2>1. PICK to, puts : to = "same" /\ puts = {"plan"}
      OBVIOUS
    <2>2. Proceed(h, it, does, to, puts)
      BY <1>3, <1>4, <1>6, <1>8, <2>1
    <2>3. to \in Tos /\ puts \in Putting
      BY <2>1, DomainsAre DEF Tos, Putting
    <2>4. it["plan"] \in Domain("plan") \cup {None} /\ it["plan"] # None
      BY <1>5, <1>8, DomainsAre DEF Made
    <2>5. \A y : y.on = x.on /\ y.it = it /\ y.to = to /\ y.puts = puts => Brings(y)
      BY <1>2, <2>1, <2>4 DEF Brings, PutOf
    <2>6. Bears(x.on, it, does, to, puts)
      BY <1>7, <2>5 DEF Bears
    <2>7. x.pc = "checking"
      BY <1>1
    <2>8. /\ Only(h) /\ Good(hs'[h]) /\ hs'[h].pc = "moving"
          /\ hs'[h].user = hs[h].user /\ hs'[h].may = hs[h].may
          /\ hs'[h].on = hs[h].on /\ hs'[h].does = does
      BY <1>5, <1>7, <2>2, <2>3, <2>6, <2>7, GoodProceed
    <2> QED BY <1>2, <1>6, <2>8
  <1>9. CASE r.does # "this week"
    <2>1. Proceed(h, it, does, r.to, r.puts)
      BY <1>3, <1>4, <1>6, <1>9
    <2>2. r.to \in Tos /\ r.puts \in Putting
      BY <1>1 DEF Sound, Tos, Putting
    <2>3. \A y : y.on = x.on /\ y.it = it /\ y.to = r.to /\ y.puts = r.puts => Brings(y)
      BY <1>0, <1>1, <1>2, <1>5, BringsRow
    <2>4. Bears(x.on, it, does, r.to, r.puts)
      BY <1>7, <2>3 DEF Bears
    <2>5. x.pc = "checking"
      BY <1>1
    <2>6. /\ Only(h) /\ Good(hs'[h]) /\ hs'[h].pc = "moving"
          /\ hs'[h].user = hs[h].user /\ hs'[h].may = hs[h].may
          /\ hs'[h].on = hs[h].on /\ hs'[h].does = does
      BY <1>5, <1>7, <2>1, <2>2, <2>4, <2>5, GoodProceed
    <2> QED BY <1>2, <1>6, <2>6
  <1> QED BY <1>8, <1>9

LEMMA GoodNew ==
  ASSUME TInv, NEW h \in Handlers, CheckNew(h)
  PROVE  /\ Only(h) /\ Good(hs'[h]) /\ hs'[h].pc = "moving"
         /\ hs'[h].user = hs[h].user /\ hs'[h].may = hs[h].may
         /\ hs'[h].on = "button" /\ hs'[h].does = "create"
         /\ hs'[h].it["student"] = hs[h].it["student"]
         /\ RowOf(hs[h]).does \in {"create", "this week"}
         /\ \E p \in PlanIds : plans[p] = Unborn /\ plans' = [plans EXCEPT ![p] = Gone]
  <1> DEFINE x == hs[h]
  <1>0. PICK r : r = RowOf(x)
    OBVIOUS
  <1>1. /\ Started(x) /\ Has(x, Full(r)) /\ x \in Handler /\ Sound(r) /\ x.pc = "checking"
    BY <1>0, RowsSound DEF TInv, Typed, Good, CheckNew, At
  <1>2. r.does \in {"create", "this week"} /\ x.on = "button"
    BY <1>0, <1>1, RowIs, InputsDo DEF CheckNew
  <1>3. PICK p \in PlanIds :
          /\ plans[p] = Unborn /\ plans' = [plans EXCEPT ![p] = Gone]
          /\ Proceed(h, [x.it EXCEPT !["plan"] = p, !["end"] = LastDay(x.it)],
                     "create", r.to, r.puts)
    BY <1>0, RowIs DEF CheckNew
  <1>4. PICK it, does : /\ it = [x.it EXCEPT !["plan"] = p, !["end"] = LastDay(x.it)]
                        /\ does = "create"
    OBVIOUS
  <1>5. /\ x.it["student"] \in Students /\ x.it["start"] \in Dates /\ LastDay(x.it) \in Dates
    BY <1>0, <1>1, <1>2, LastDayIs
  <1>6. /\ it \in Working /\ it["student"] = x.it["student"] /\ it["start"] = x.it["start"]
        /\ \A k \in Keys : it[k] \in Domain(k) \cup {None}
        /\ \A k \in Full(r) \cup Made(r) : it[k] # None
        /\ it["end"] = LastDay(x.it)
    <2>1. PICK end : end = LastDay(x.it)
      OBVIOUS
    <2>2. x.it \in Working /\ end \in Domain("end") /\ end \in Datum /\ end # None
      BY <1>1, <1>5, <2>1, DomainsAre, ValuesAre DEF Handler, Datum
    <2>3. Opened(x.it, it, p, end)
      BY <1>4, <2>1, <2>2, OpenedIs
    <2>4. /\ \A k \in Keys : it[k] \in Domain(k) \cup {None}
          /\ \A k \in Full(r) \cup Made(r) : it[k] # None
          /\ it["student"] = x.it["student"] /\ it["start"] = x.it["start"]
      BY <1>0, <1>1, <2>2, <2>3, WithPlan
    <2> QED BY <2>1, <2>3, <2>4 DEF Opened
  <1>7. does \in Writes /\ \A y : y.does = does /\ y.it = it => Names(y)
    BY <1>4, <1>5, <1>6 DEF Writes, Names
  <1>8. r.to \in Tos /\ r.puts \in Putting
    BY <1>1 DEF Sound, Tos, Putting
  <1>9. \A y : y.on = x.on /\ y.it = it /\ y.to = r.to /\ y.puts = r.puts => Brings(y)
    BY <1>0, <1>1, <1>2, <1>6, BringsRow
  <1>10. Bears(x.on, it, does, r.to, r.puts)
    BY <1>7, <1>9 DEF Bears
  <1>11. Proceed(h, it, does, r.to, r.puts)
    BY <1>3, <1>4
  <1>12. x.pc = "checking" /\ it \in Working
    BY <1>1, <1>6
  <1>13. /\ Only(h) /\ Good(hs'[h]) /\ hs'[h].pc = "moving"
         /\ hs'[h].user = hs[h].user /\ hs'[h].may = hs[h].may
         /\ hs'[h].on = hs[h].on /\ hs'[h].it = it /\ hs'[h].does = does
    BY <1>7, <1>8, <1>10, <1>11, <1>12, GoodProceed
  <1> QED BY <1>0, <1>2, <1>3, <1>4, <1>6, <1>13

-----------------------------------------------------------------------------
(* The wizard and the screen keep their types.                             *)

LEMMA NewDataIs ==
  ASSUME NEW h, Brings(hs[h]), NEW data, \A k \in Keys : data[k] \in Domain(k) \cup {None}
  PROVE  /\ NewData(h, data) \in [Keys -> Values]
         /\ \A k \in Keys : NewData(h, data)[k] \in Domain(k) \cup {None}
         /\ hs[h].to = "clear" => \A k \in Keys : NewData(h, data)[k] = None
         /\ hs[h].to # "clear" => \A k \in Keys : NewData(h, data)[k] =
              IF k \in hs[h].puts THEN PutOf(hs[h], k) ELSE data[k]
  <1>1. /\ hs[h].to = "clear" => NewData(h, data) = [k \in Keys |-> None]
        /\ hs[h].to # "clear" => NewData(h, data) =
             [k \in Keys |-> IF k \in hs[h].puts THEN PutOf(hs[h], k) ELSE data[k]]
    BY RowIs DEF NewData, Nowhere
  <1>2. \A k \in Keys : Domain(k) \cup {None} \subseteq Values
    BY ValuesAre, DomainsAre
  <1>3. \A k \in Keys : NewData(h, data)[k] \in Domain(k) \cup {None}
    BY <1>1 DEF Brings
  <1> QED BY <1>1, <1>2, <1>3

LEMMA NewAtIs ==
  ASSUME NEW h, hs[h].to \in Tos, NEW at \in States
  PROVE  /\ NewAt(h, at) \in States
         /\ hs[h].to = "same" => NewAt(h, at) = at
         /\ hs[h].to = "clear" => NewAt(h, at) = "idle"
         /\ hs[h].to \notin {"same", "clear"} => NewAt(h, at) = hs[h].to
  BY DEF NewAt, Tos, States

\* What Show puts on the screen.
LEMMA ScreenIs ==
  ASSUME TInv, NEW h \in Handlers, hs[h].pc \in {"moving", "got"}, Show(h)
  PROVE  /\ screen' \in [Users -> [at : States \cup {"summary", "overview"},
                                   data : [Keys -> Datum]]]
         /\ \A u \in Users : u # hs[h].user => screen'[u] = screen[u]
         /\ site.patient /\ (hs[h].to # "same" \/ hs[h].puts # {}) =>
              /\ screen'[hs[h].user].at = Prompt(h)
              /\ screen'[hs[h].user].data = NewData(h, [k \in Keys |-> hs[h].it[k]])
         /\ (hs[h].to = "same" /\ hs[h].puts = {}) \/ ~site.patient => screen' = screen
  <1> DEFINE x == hs[h]  d == NewData(h, [k \in Keys |-> x.it[k]])
             S == [at : States \cup {"summary", "overview"}, data : [Keys -> Datum]]
             s == [at |-> Prompt(h), data |-> d]
  <1>1. /\ x.user \in Users /\ x.to \in Tos /\ x.it \in [Fields -> Datum] /\ Brings(x)
        /\ screen \in [Users -> S]
    BY DEF TInv, Typed, Good, Started, Handler, Working
  <1>2. \A k \in Keys : None \in Datum /\ x.it[k] \in Datum /\ (Domain(k) \subseteq Datum)
    BY <1>1, DomainsAre, ValuesAre DEF Datum
  <1>3. d \in [Keys -> Datum]
    <2>1. /\ x.to = "clear" => d = [k \in Keys |-> None]
          /\ x.to # "clear" => d = [k \in Keys |-> IF k \in x.puts THEN PutOf(x, k) ELSE x.it[k]]
      BY RowIs DEF NewData, Nowhere
    <2> QED BY <1>1, <1>2, <2>1 DEF Brings
  <1>4. Prompt(h) \in States \cup {"summary", "overview"}
    <2>1. "idle" \in States /\ "edit_slot" \in States
      BY DEF States
    <2> QED BY <1>1, <2>1, NewAtIs DEF Prompt
  <1>5. s \in S /\ s.at = Prompt(h) /\ s.data = d
    BY <1>3, <1>4
  <1>6. screen' = IF ~site.patient \/ (x.to = "same" /\ x.puts = {}) THEN screen
                  ELSE [screen EXCEPT ![x.user] = s]
    BY DEF Show
  <1> HIDE DEF s, d, S
  <1> QED BY <1>1, <1>5, <1>6 DEF S, d

\* The wizard of x is now in `at' with the data d.
MovedTo(x, at, d) ==
  /\ fsm' \in [Users -> Position]
  /\ \A u \in Users : u # x.user => fsm'[u] = fsm[u]
  /\ fsm'[x.user].at = at /\ fsm'[x.user].data = d

\* A handler has shown its screen, and writes or is done.
Shown(x, y) ==
  \/ y = NoHandler
  \/ /\ y.pc = "writing" /\ y.user = x.user /\ y.it = x.it /\ y.does = x.does
     /\ y.may = x.may

LEMMA GoodShow ==
  ASSUME TInv, NEW h \in Handlers, hs[h].pc \in {"moving", "got"}, Show(h)
  PROVE  Only(h) /\ Good(hs'[h]) /\ Shown(hs[h], hs'[h]) /\ hs'[h].pc \notin {"placed", "got"}
  <1>1. Started(hs[h]) /\ Names(hs[h]) /\ Typed
    BY DEF TInv, Good
  <1>2. CASE hs[h].does = "show"
    BY <1>1, <1>2, ShowStep, NoHandlerGood, NoHandlerTyped DEF Shown
  <1>3. CASE hs[h].does # "show"
    <2>1. /\ Only(h) /\ hs'[h].pc = "writing" /\ hs'[h].user = hs[h].user
          /\ hs'[h].act = hs[h].act /\ hs'[h].on = hs[h].on
          /\ hs'[h].it = hs[h].it /\ hs'[h].does = hs[h].does /\ hs'[h].may = hs[h].may
      BY <1>1, <1>3, ShowStep
    <2>2. Started(hs'[h]) /\ Names(hs'[h])
      BY <1>1, <2>1 DEF Started, Names
    <2> QED BY <2>1, <2>2 DEF Good, Shown
  <1> QED BY <1>2, <1>3

LEMMA MoveIs ==
  ASSUME TInv, NEW h \in Handlers, Move(h)
  PROVE  /\ Only(h) /\ Good(hs'[h]) /\ Shown(hs[h], hs'[h]) /\ hs'[h].pc \notin {"placed", "got"}
         /\ MovedTo(hs[h], NewAt(h, fsm[hs[h].user].at), NewData(h, fsm[hs[h].user].data))
  <1> DEFINE x == hs[h]  s == fsm[x.user]
             n == [at |-> NewAt(h, s.at), data |-> NewData(h, s.data)]
  <1>1. hs[h].pc \in {"moving", "got"} /\ Show(h)
    BY DEF Move, At
  <1>2. /\ x.user \in Users /\ x.to \in Tos /\ Brings(x) /\ s \in Position
        /\ \A k \in Keys : s.data[k] \in Domain(k) \cup {None}
        /\ fsm \in [Users -> Position]
    BY <1>1 DEF TInv, Typed, Good, Started, Handler
  <1>3. s.at \in States
    BY <1>2 DEF Position
  <1>4. NewAt(h, s.at) \in States /\ NewData(h, s.data) \in [Keys -> Values]
    BY <1>2, <1>3, NewAtIs, NewDataIs
  <1>5. n \in Position /\ n.at = NewAt(h, s.at) /\ n.data = NewData(h, s.data)
    BY <1>4 DEF Position
  <1>6. fsm' = [fsm EXCEPT ![x.user] = n]
    BY DEF Move
  <1> HIDE DEF n
  <1>7. MovedTo(x, NewAt(h, s.at), NewData(h, s.data))
    BY <1>2, <1>5, <1>6 DEF MovedTo
  <1> QED BY <1>1, <1>7, GoodShow

LEMMA SetStateIs ==
  ASSUME TInv, NEW h \in Handlers, SetState(h)
  PROVE  /\ Only(h) /\ Good(hs'[h]) /\ hs'[h].pc = "placed" /\ site.storage = "redis"
         /\ MovedTo(hs[h], NewAt(h, fsm[hs[h].user].at), fsm[hs[h].user].data)
  <1> DEFINE x == hs[h]  s == fsm[x.user]  n == [s EXCEPT !.at = NewAt(h, s.at)]
  <1>1. /\ Started(x) /\ Brings(x) /\ Names(x) /\ site.storage = "redis"
    BY DEF TInv, Good, SetState, At
  <1>2. /\ Only(h) /\ hs'[h].pc = "placed"
        /\ hs'[h].user = x.user /\ hs'[h].act = x.act /\ hs'[h].on = x.on
        /\ hs'[h].it = x.it /\ hs'[h].does = x.does
        /\ hs'[h].to = x.to /\ hs'[h].puts = x.puts
    BY SetStateStep DEF TInv
  <1>3. Started(hs'[h]) /\ Brings(hs'[h]) /\ Names(hs'[h])
    BY <1>1, <1>2 DEF Started, Brings, Names, PutOf
  <1>4. x.user \in Users /\ x.to \in Tos /\ s \in Position /\ fsm \in [Users -> Position]
    BY <1>1 DEF TInv, Typed, Started, Handler
  <1>5. NewAt(h, s.at) \in States
    BY <1>4, NewAtIs DEF Position
  <1>6. n \in Position /\ n.at = NewAt(h, s.at) /\ n.data = s.data
    BY <1>4, <1>5 DEF Position
  <1>7. fsm' = [fsm EXCEPT ![x.user] = n]
    BY DEF SetState
  <1> HIDE DEF n
  <1>8. MovedTo(x, NewAt(h, s.at), s.data)
    BY <1>4, <1>6, <1>7 DEF MovedTo
  <1>9. Good(hs'[h])
    BY <1>2, <1>3 DEF Good
  <1> QED BY <1>1, <1>2, <1>8, <1>9

LEMMA GetDataIs ==
  ASSUME TInv, NEW h \in Handlers, GetData(h)
  PROVE  /\ Only(h) /\ Good(hs'[h]) /\ hs'[h].pc = "got" /\ site.storage = "redis"
         /\ hs'[h].user = hs[h].user /\ hs'[h].on = hs[h].on
         /\ hs'[h].it = hs[h].it /\ hs'[h].does = hs[h].does /\ hs'[h].may = hs[h].may
         /\ hs'[h].to = hs[h].to /\ hs'[h].puts = hs[h].puts
         /\ hs'[h].seen = fsm[hs[h].user].data
  <1> DEFINE x == hs[h]
  <1>1. /\ Started(x) /\ Brings(x) /\ Names(x) /\ site.storage = "redis"
        /\ \A k \in Keys : fsm[x.user].data[k] \in Domain(k) \cup {None}
    BY DEF TInv, Good, GetData, At, Started
  <1>2. /\ Only(h) /\ hs'[h].pc = "got"
        /\ hs'[h].user = x.user /\ hs'[h].act = x.act /\ hs'[h].on = x.on
        /\ hs'[h].it = x.it /\ hs'[h].does = x.does /\ hs'[h].may = x.may
        /\ hs'[h].to = x.to /\ hs'[h].puts = x.puts
        /\ hs'[h].seen = fsm[x.user].data
    BY <1>1, GetDataStep DEF TInv
  <1>3. Started(hs'[h]) /\ Brings(hs'[h]) /\ Names(hs'[h])
    BY <1>1, <1>2 DEF Started, Brings, Names, PutOf
  <1> QED BY <1>1, <1>2, <1>3 DEF Good

LEMMA SetDataIs ==
  ASSUME TInv, NEW h \in Handlers, SetData(h)
  PROVE  /\ Only(h) /\ Good(hs'[h]) /\ Shown(hs[h], hs'[h]) /\ hs'[h].pc \notin {"placed", "got"}
         /\ site.storage = "redis"
         /\ MovedTo(hs[h], fsm[hs[h].user].at,
                    IF hs[h].puts = {} /\ hs[h].to # "clear" THEN fsm[hs[h].user].data
                    ELSE NewData(h, hs[h].seen))
  <1> DEFINE x == hs[h]  s == fsm[x.user]  n == [s EXCEPT !.data = NewData(h, x.seen)]
  <1>1. hs[h].pc \in {"moving", "got"} /\ Show(h) /\ site.storage = "redis"
    BY DEF SetData, At, TInv
  <1>2. /\ x.user \in Users /\ Brings(x) /\ s \in Position /\ fsm \in [Users -> Position]
        /\ \A k \in Keys : x.seen[k] \in Domain(k) \cup {None}
    BY <1>1 DEF TInv, Typed, Good, Started, SetData, At
  <1>3. NewData(h, x.seen) \in [Keys -> Values]
    BY <1>2, NewDataIs
  <1>4. n \in Position /\ n.at = s.at /\ n.data = NewData(h, x.seen)
    BY <1>2, <1>3 DEF Position
  <1>5. fsm' = IF x.puts = {} /\ x.to # "clear" THEN fsm ELSE [fsm EXCEPT ![x.user] = n]
    BY DEF SetData
  <1> HIDE DEF n
  <1>6. MovedTo(x, s.at, IF x.puts = {} /\ x.to # "clear" THEN s.data ELSE NewData(h, x.seen))
    BY <1>2, <1>4, <1>5 DEF MovedTo
  <1> QED BY <1>1, <1>6, GoodShow

-----------------------------------------------------------------------------
(* The rows a commit leaves.                                               *)

LEMMA PlansAfterTyped ==
  ASSUME TInv, NEW h \in Handlers, At(h, "writing")
  PROVE  PlansAfter(hs[h]) \in [PlanIds -> Plan \cup {Unborn, Gone}]
  <1> DEFINE x == hs[h]
  <1>1. /\ Names(x) /\ x.user \in Users /\ plans \in [PlanIds -> Plan \cup {Unborn, Gone}]
    BY DEF TInv, Typed, Good, Started, At
  <1>2. ASSUME NEW p \in PlanIds
        PROVE  PlansAfter(x)[p] \in Plan \cup {Unborn, Gone}
    <2>1. x.does = "create" => [student |-> x.it["student"], start |-> x.it["start"],
                                end |-> x.it["end"], by |-> x.user] \in Plan
      BY <1>1 DEF Names, Plan
    <2>2. Live(p) => plans[p] \in Plan /\ [plans[p] EXCEPT !.by = Other] \in Plan
      BY <1>1 DEF Live, Plan
    <2>3. plans[p] \in Plan \cup {Unborn, Gone}
      BY <1>1
    <2> HIDE DEF x
    <2> QED BY <2>1, <2>2, <2>3 DEF PlansAfter
  <1>3. PlansAfter(x) = [p \in PlanIds |-> PlansAfter(x)[p]]
    BY DEF PlansAfter
  <1> QED BY <1>2, <1>3

LEMMA CommitIs ==
  ASSUME TInv, NEW h \in Handlers, Commit(h)
  PROVE  /\ TInv'
         /\ hs'[h] = NoHandler
         /\ \A g \in Handlers \ {h} :
              /\ hs'[g].user = hs[g].user /\ hs'[g].act = hs[g].act /\ hs'[g].on = hs[g].on
              /\ hs'[g].pc = hs[g].pc /\ hs'[g].active = hs[g].active
              /\ hs'[g].it = hs[g].it /\ hs'[g].does = hs[g].does /\ hs'[g].to = hs[g].to
              /\ hs'[g].puts = hs[g].puts /\ hs'[g].seen = hs[g].seen
              /\ hs[g].may \subseteq hs'[g].may
              /\ \A u \in Users : u = hs[g].user =>
                   /\ hs[g].pc = "admitted" => Entitled(u)' \subseteq hs'[g].may
                   /\ hs[g].pc = "checking" =>
                        Entitled(u)' \cap Named(u, hs[g].it) \subseteq hs'[g].may
         /\ UNCHANGED <<site, fsm, screen>>
  <1> DEFINE x == hs[h]
  <1>1. /\ Typed /\ \A g \in Handlers : hs[g].pc # "none" => Started(hs[g])
        /\ people \subseteq Students /\ linked \subseteq people
        /\ account \in {"active", "suspended", "deleted"}
    BY DEF TInv, Typed, Good
  <1>2. people' \subseteq people
    BY DEF Commit
  <1>3. /\ hs' \in [Handlers -> Handler] /\ hs'[h] = NoHandler
        /\ \A g \in Handlers \ {h} :
             /\ hs'[g].user = hs[g].user /\ hs'[g].act = hs[g].act /\ hs'[g].on = hs[g].on
             /\ hs'[g].pc = hs[g].pc /\ hs'[g].active = hs[g].active
             /\ hs'[g].it = hs[g].it /\ hs'[g].does = hs[g].does /\ hs'[g].to = hs[g].to
             /\ hs'[g].puts = hs[g].puts /\ hs'[g].seen = hs[g].seen
             /\ hs[g].may \subseteq hs'[g].may
             /\ \A u \in Users : u = hs[g].user =>
                  /\ hs[g].pc = "admitted" => Entitled(u)' \subseteq hs'[g].may
                  /\ hs[g].pc = "checking" =>
                       Entitled(u)' \cap Named(u, hs[g].it) \subseteq hs'[g].may
    BY <1>1, <1>2, CommitStep
  <1>4. ASSUME NEW g \in Handlers
        PROVE  Good(hs'[g]) /\ (hs'[g].pc \in {"placed", "got"} => site.storage = "redis")
    <2>1. CASE g = h
      BY <1>3, <2>1, NoHandlerGood, NoHandlerTyped
    <2>2. CASE g # h
      <3> DEFINE y == hs'[g]  z == hs[g]
      <3>0. /\ y.user = z.user /\ y.act = z.act /\ y.on = z.on /\ y.pc = z.pc
            /\ y.it = z.it /\ y.does = z.does /\ y.to = z.to /\ y.puts = z.puts
            /\ y.seen = z.seen
        BY <1>3, <2>2
      <3> HIDE DEF y, z
      <3>1. RowOf(y) = RowOf(z)
        BY <3>0 DEF RowOf
      <3>2a. Started(z) => Started(y)
        BY <3>0 DEF Started
      <3>2b. Brings(z) => Brings(y)
        <4>1. \A k : PutOf(y, k) = PutOf(z, k)
          BY <3>0 DEF PutOf
        <4> QED BY <3>0, <4>1 DEF Brings
      <3>2c. Names(z) => Names(y)
        BY <3>0 DEF Names
      <3>3. \A keys : Has(z, keys) => Has(y, keys)
        BY <3>0, <3>1 DEF Has
      <3>4. Good(z) => Good(y)
        BY <3>0, <3>1, <3>2a, <3>2b, <3>2c, <3>3 DEF Good
      <3> QED BY <3>0, <3>4 DEF TInv, y, z
    <2> QED BY <2>1, <2>2
  <1>5. plans' \in [PlanIds -> Plan \cup {Unborn, Gone}]
    BY PlansAfterTyped DEF Commit
  <1>6. linked' \subseteq people'
    BY <1>1 DEF Commit, LinkedAfter, StillThere
  <1>7. account' \in {"active", "suspended", "deleted"}
    BY <1>1 DEF Commit, AccountAfter
  <1>8. UNCHANGED <<site, fsm, screen>>
    BY DEF Commit
  <1>9. TInv'
    BY <1>1, <1>2, <1>3, <1>4, <1>5, <1>6, <1>7, <1>8 DEF TInv, Typed
  <1> QED BY <1>3, <1>8, <1>9

-----------------------------------------------------------------------------
(* The types are invariant.                                                *)

LEMMA TInit == Init => TInv
  <1> SUFFICES ASSUME Init PROVE TInv
    OBVIOUS
  <1>1. site \in Setting
    BY SitesAssumption DEF Init
  <1>2. site.linked \subseteq Students /\ site.plans \in [PlanIds -> Plan \cup {Unborn, Gone}]
    BY <1>1 DEF Setting
  <1>3. /\ Nowhere \in Position /\ \A k \in Keys : Nowhere.data[k] = None
        /\ Nowhere \in [at : States \cup {"summary", "overview"}, data : [Keys -> Datum]]
    BY ValuesAre DEF Nowhere, Position, States, Datum
  <1>4. hs \in [Handlers -> Handler] /\ \A h \in Handlers : hs[h] = NoHandler
    BY NoHandlerTyped DEF Init
  <1>5. Typed
    BY <1>1, <1>2, <1>3, <1>4 DEF Init, Typed
  <1>6. \A u \in Users : \A k \in Keys : fsm[u].data[k] = None
    BY <1>3 DEF Init
  <1> QED BY <1>4, <1>5, <1>6, NoHandlerGood, NoHandlerTyped DEF TInv

\* The data of a wizard have the values their keys stand for.
DataTyped == \A u \in Users : \A k \in Keys : fsm[u].data[k] \in Domain(k) \cup {None}

LEMMA TKept ==
  ASSUME TInv, NEW h \in Handlers, Only(h), Good(hs'[h]),
         hs'[h].pc \in {"placed", "got"} => site.storage = "redis",
         UNCHANGED <<site, people, linked, account>>,
         plans' \in [PlanIds -> Plan \cup {Unborn, Gone}],
         fsm' \in [Users -> Position], DataTyped',
         screen' \in [Users -> [at : States \cup {"summary", "overview"},
                                data : [Keys -> Datum]]]
  PROVE  TInv'
  <1>1. Typed'
    BY DEF TInv, Typed, Only
  <1>2. \A g \in Handlers : /\ Good(hs'[g])
                            /\ hs'[g].pc \in {"placed", "got"} => site'.storage = "redis"
    BY DEF TInv, Only
  <1> QED BY <1>1, <1>2 DEF TInv, DataTyped

LEMMA TStill ==
  ASSUME TInv, NEW h \in Handlers, Only(h), Good(hs'[h]),
         hs'[h].pc \in {"placed", "got"} => site.storage = "redis",
         UNCHANGED <<site, fsm, rows, screen>>
  PROVE  TInv'
  <1>1. plans' = plans /\ fsm' = fsm /\ screen' = screen
        /\ UNCHANGED <<site, people, linked, account>>
    BY DEF rows
  <1>2. DataTyped'
    BY <1>1 DEF TInv, DataTyped
  <1> QED BY <1>1, <1>2, TKept DEF TInv, Typed

LEMMA MovedTyped ==
  ASSUME TInv, NEW h \in Handlers, NEW at, NEW d, hs[h].user \in Users, MovedTo(hs[h], at, d),
         \A k \in Keys : d[k] \in Domain(k) \cup {None}
  PROVE  fsm' \in [Users -> Position] /\ DataTyped'
  BY DEF TInv, DataTyped, MovedTo

LEMMA TMoved ==
  ASSUME TInv, NEW h \in Handlers, Only(h), Good(hs'[h]),
         hs'[h].pc \in {"placed", "got"} => site.storage = "redis",
         UNCHANGED <<site, rows>>,
         NEW at, NEW d, hs[h].user \in Users, MovedTo(hs[h], at, d),
         \A k \in Keys : d[k] \in Domain(k) \cup {None},
         screen' \in [Users -> [at : States \cup {"summary", "overview"},
                                data : [Keys -> Datum]]]
  PROVE  TInv'
  <1>1. plans' = plans /\ UNCHANGED <<site, people, linked, account>>
    BY DEF rows
  <1>2. fsm' \in [Users -> Position] /\ DataTyped'
    BY MovedTyped
  <1> QED BY <1>1, <1>2, TKept DEF TInv, Typed

\* One step of a handler.
LEMMA THandle ==
  ASSUME TInv, NEW h \in Handlers, Handle(h)
  PROVE  TInv'
  <1>1. CASE Enter(h)
    BY <1>1, GoodEnter, TStill DEF Enter
  <1>2. CASE CheckPlain(h)
    BY <1>2, GoodPlain, TStill DEF CheckPlain
  <1>3. CASE CheckFound(h)
    BY <1>3, GoodFound, TStill DEF CheckFound
  <1>4. CASE CheckNew(h)
    <2>1. /\ Only(h) /\ Good(hs'[h]) /\ hs'[h].pc = "moving"
          /\ UNCHANGED <<site, fsm, people, linked, account, screen>>
      BY <1>4, GoodNew DEF CheckNew
    <2>2. plans' \in [PlanIds -> Plan \cup {Unborn, Gone}]
      BY <1>4, GoodNew DEF TInv, Typed
    <2>3. DataTyped'
      BY <2>1 DEF TInv, DataTyped
    <2> QED BY <2>1, <2>2, <2>3, TKept DEF TInv, Typed
  <1>5. CASE Move(h)
    <2> DEFINE x == hs[h]  d == NewData(h, fsm[x.user].data)  at == NewAt(h, fsm[x.user].at)
    <2>1. /\ Only(h) /\ Good(hs'[h]) /\ hs'[h].pc \notin {"placed", "got"}
          /\ MovedTo(x, at, d) /\ UNCHANGED <<site, rows>>
      BY <1>5, MoveIs DEF Move
    <2>2. x.pc = "moving" /\ Show(h)
      BY <1>5 DEF Move, At
    <2>3. x.user \in Users /\ Brings(x)
      BY <2>2 DEF TInv, Good, Started
    <2>4. \A k \in Keys : d[k] \in Domain(k) \cup {None}
      BY <2>3, NewDataIs DEF TInv
    <2>5. screen' \in [Users -> [at : States \cup {"summary", "overview"},
                                 data : [Keys -> Datum]]]
      BY <2>2, ScreenIs
    <2> HIDE DEF d, at
    <2> QED BY <2>1, <2>3, <2>4, <2>5, TMoved
  <1>6. CASE SetState(h)
    <2> DEFINE x == hs[h]  d == fsm[x.user].data  at == NewAt(h, fsm[x.user].at)
    <2>1. /\ Only(h) /\ Good(hs'[h]) /\ site.storage = "redis"
          /\ MovedTo(x, at, d) /\ UNCHANGED <<site, rows, screen>>
      BY <1>6, SetStateIs DEF SetState
    <2>2. x.user \in Users
      BY <1>6 DEF TInv, Good, Started, SetState, At
    <2>3. /\ \A k \in Keys : d[k] \in Domain(k) \cup {None}
          /\ screen' \in [Users -> [at : States \cup {"summary", "overview"},
                                    data : [Keys -> Datum]]]
      BY <2>1, <2>2 DEF TInv, Typed
    <2> HIDE DEF d, at
    <2> QED BY <2>1, <2>2, <2>3, TMoved
  <1>7. CASE GetData(h)
    BY <1>7, GetDataIs, TStill DEF GetData
  <1>8. CASE SetData(h)
    <2> DEFINE x == hs[h]  at == fsm[x.user].at
               d == IF x.puts = {} /\ x.to # "clear" THEN fsm[x.user].data ELSE NewData(h, x.seen)
    <2>1. /\ Only(h) /\ Good(hs'[h]) /\ hs'[h].pc \notin {"placed", "got"}
          /\ MovedTo(x, at, d) /\ UNCHANGED <<site, rows>>
      BY <1>8, SetDataIs DEF SetData
    <2>2. x.pc = "got" /\ Show(h)
      BY <1>8 DEF SetData, At
    <2>3. x.user \in Users /\ Brings(x) /\ \A k \in Keys : x.seen[k] \in Domain(k) \cup {None}
      BY <2>2 DEF TInv, Good, Started
    <2>4. \A k \in Keys : NewData(h, x.seen)[k] \in Domain(k) \cup {None}
      BY <2>3, NewDataIs
    <2>5. \A k \in Keys : d[k] \in Domain(k) \cup {None}
      BY <2>3, <2>4 DEF TInv
    <2>6. screen' \in [Users -> [at : States \cup {"summary", "overview"},
                                 data : [Keys -> Datum]]]
      BY <2>2, ScreenIs
    <2> HIDE DEF d, at
    <2> QED BY <2>1, <2>3, <2>5, <2>6, TMoved
  <1>9. CASE Commit(h)
    BY <1>9, CommitIs
  <1>10. CASE Stop(h)
    <2>1. Only(h) /\ hs'[h] = NoHandler
      BY <1>10, EndStep DEF Stop, TInv
    <2>2. Only(h) /\ Good(hs'[h]) /\ hs'[h].pc \notin {"placed", "got"}
      BY <2>1, NoHandlerGood, NoHandlerTyped
    <2> QED BY <1>10, <2>2, TStill DEF Stop
  <1> QED BY <1>1, <1>2, <1>3, <1>4, <1>5, <1>6, <1>7, <1>8, <1>9, <1>10 DEF Handle

LEMMA TRestart ==
  ASSUME TInv, Restart
  PROVE  TInv'
  <1>1. Nowhere \in Position /\ \A k \in Keys : Nowhere.data[k] = None
    BY ValuesAre DEF Nowhere, Position, States
  <1>2. fsm' \in [Users -> Position] /\ DataTyped'
    BY <1>1 DEF Restart, TInv, Typed, DataTyped
  <1>3. hs' \in [Handlers -> Handler] /\ \A h \in Handlers : hs'[h] = NoHandler
    BY NoHandlerTyped DEF Restart
  <1>4. UNCHANGED <<site, people, linked, account, plans, screen>>
    BY DEF Restart, rows
  <1>5. Typed'
    BY <1>2, <1>3, <1>4 DEF TInv, Typed
  <1> QED BY <1>2, <1>3, <1>4, <1>5, NoHandlerGood, NoHandlerTyped DEF TInv, DataTyped

LEMMA TNext == TInv /\ [Next]_vars => TInv'
  <1> SUFFICES ASSUME TInv, [Next]_vars PROVE TInv'
    OBVIOUS
  <1>1. CASE \E h \in Handlers : Handle(h)
    BY <1>1, THandle
  <1>2. ASSUME NEW h \in Handlers, NEW u \in Users, Arrive(h, u)
        PROVE  TInv'
    <2>1. /\ Only(h) /\ Good(hs'[h]) /\ hs'[h].pc = "admitted"
          /\ UNCHANGED <<site, fsm, rows, screen>>
      BY <1>2, GoodBegin
    <2> QED BY <2>1, TStill
  <1>3. CASE Restart
    BY <1>3, TRestart
  <1>4. CASE UNCHANGED vars
    <2>1. Typed'
      BY <1>4 DEF vars, TInv, Typed
    <2>2. UNCHANGED <<hs, fsm, site>>
      BY <1>4 DEF vars
    <2> QED BY <2>1, <2>2 DEF TInv
  <1> QED BY <1>1, <1>2, <1>3, <1>4 DEF Next

LEMMA TInvariant == Spec => []TInv
  BY TInit, TNext, PTL DEF Spec

\* Whatever overlaps, the FSM storage and the rows keep their types, and the links
\* of an advisor are to students that exist: a deletion takes them along.
THEOREM DialogueTyped == Spec => []TypeOK
  <1>1. TInv => TypeOK
    BY DEF TInv, Typed, TypeOK, Handler
  <1> QED BY <1>1, TInvariant, PTL

-----------------------------------------------------------------------------
(* The wizard waits with its data.                                         *)

LEMMA NeedsKeys ==
  ASSUME NEW at \in States \cup {"summary", "overview"}
  PROVE  Needs(at) \subseteq Keys
  BY NeedsAre DEF States, Keys

\* A handler that moves a wizard that has its data leaves it with its data.
LEMMA MovedHasData ==
  ASSUME NEW h, Brings(hs[h]), hs[h].to \in Tos, NEW at \in States, NEW data,
         \A k \in Keys : data[k] \in Domain(k) \cup {None},
         \A k \in Needs(at) : data[k] # None,
         NEW k \in Needs(NewAt(h, at))
  PROVE  NewData(h, data)[k] # None
  <1> DEFINE x == hs[h]
  <1>1. NewAt(h, at) \in States /\ k \in Keys
    BY NewAtIs, NeedsKeys
  <1>2. CASE x.to = "clear"
    <2>1. NewAt(h, at) = "idle"
      BY <1>2, NewAtIs
    <2> QED BY <2>1, NeedsAre
  <1>3. x.to # "clear" => NewData(h, data)[k] = IF k \in x.puts THEN PutOf(x, k) ELSE data[k]
    BY <1>1, NewDataIs
  <1>4. CASE x.to = "same"
    <2>1. NewAt(h, at) = at
      BY <1>4, NewAtIs
    <2> QED BY <1>3, <1>4, <2>1 DEF Brings
  <1>5. CASE x.to \notin {"same", "clear"}
    <2>1. NewAt(h, at) = x.to
      BY <1>5, NewAtIs
    <2> QED BY <1>3, <1>5, <2>1 DEF Brings
  <1> QED BY <1>2, <1>4, <1>5

LEMMA HasDataStill ==
  ASSUME StateHasItsData, UNCHANGED <<site, fsm>>
  PROVE  StateHasItsData'
  BY DEF StateHasItsData, Needs

LEMMA HasDataNext ==
  ASSUME TInv, StateHasItsData, [Next]_vars
  PROVE  StateHasItsData'
  <1>1. ASSUME NEW h \in Handlers, Handle(h)
        PROVE  StateHasItsData'
    <2>1. CASE Move(h)
      <3> DEFINE x == hs[h]
      <3>1. /\ x.user \in Users /\ Brings(x) /\ x.to \in Tos /\ fsm[x.user].at \in States
            /\ \A k \in Keys : fsm[x.user].data[k] \in Domain(k) \cup {None}
        <4>1. Started(x) /\ Brings(x) /\ x \in Handler
          BY <2>1 DEF TInv, Typed, Good, Move, At
        <4> QED BY <4>1 DEF TInv, Typed, Started, Handler, Position
      <3>2. MovedTo(x, NewAt(h, fsm[x.user].at), NewData(h, fsm[x.user].data))
        BY <2>1, MoveIs
      <3>3. site.storage = "memory" /\ site' = site
        BY <2>1 DEF Move
      <3>4. ASSUME NEW u \in Users, NEW k \in Needs(fsm'[u].at)
            PROVE  fsm'[u].data[k] # None
        <4>1. CASE u # x.user
          BY <3>2, <3>3, <3>4, <4>1 DEF MovedTo, StateHasItsData
        <4>2. CASE u = x.user
          <5>1. \A n \in Needs(fsm[u].at) : fsm[u].data[n] # None
            BY <3>3 DEF StateHasItsData
          <5>2. PICK at, data : at = fsm[u].at /\ data = fsm[u].data
            OBVIOUS
          <5>3. fsm'[u].at = NewAt(h, at) /\ fsm'[u].data = NewData(h, data)
            BY <3>2, <4>2, <5>2 DEF MovedTo
          <5>4. /\ Brings(hs[h]) /\ hs[h].to \in Tos /\ at \in States
                /\ \A n \in Keys : data[n] \in Domain(n) \cup {None}
                /\ \A n \in Needs(at) : data[n] # None
            BY <3>1, <4>2, <5>1, <5>2
          <5>5. k \in Needs(NewAt(h, at))
            BY <3>4, <5>3
          <5> QED BY <5>3, <5>4, <5>5, MovedHasData
        <4> QED BY <4>1, <4>2
      <3> QED BY <3>4 DEF StateHasItsData, Needs
    <2>2. CASE SetState(h) \/ SetData(h)
      <3>1. site.storage = "redis" /\ site' = site
        BY <2>2, SetDataIs DEF SetState, SetData
      <3> QED BY <3>1 DEF StateHasItsData
    <2>3. CASE Enter(h) \/ CheckPlain(h) \/ CheckFound(h) \/ CheckNew(h) \/ GetData(h)
                 \/ Commit(h) \/ Stop(h)
      <3>1. UNCHANGED <<site, fsm>>
        BY <2>3 DEF Enter, CheckPlain, CheckFound, CheckNew, GetData, Commit, Stop
      <3> QED BY <3>1, HasDataStill
    <2> QED BY <1>1, <2>1, <2>2, <2>3 DEF Handle
  <1>2. ASSUME NEW h \in Handlers, NEW u \in Users, Arrive(h, u)
        PROVE  StateHasItsData'
    BY <1>2, GoodBegin, HasDataStill
  <1>3. CASE Restart
    <2>1. CASE site.storage = "memory"
      <3>1. \A u \in Users : Needs(fsm'[u].at) = {}
        BY <1>3, <2>1, NeedsAre DEF Restart, Nowhere
      <3> QED BY <3>1 DEF StateHasItsData, Needs
    <2>2. CASE site.storage # "memory"
      BY <1>3, <2>2 DEF Restart, StateHasItsData
    <2> QED BY <2>1, <2>2
  <1>4. CASE UNCHANGED vars
    BY <1>4, HasDataStill DEF vars
  <1> QED BY <1>1, <1>2, <1>3, <1>4 DEF Next

\* Every step of a wizard is resumable (states.py): with the data in memory, no
\* overlap of taps, texts, refusals and restarts leaves a wizard waiting for a text
\* whose handler would index a key the FSM data does not have.
THEOREM HasItsData == Spec => []StateHasItsData
  <1>1. Init => StateHasItsData
    BY NeedsAre DEF Init, StateHasItsData, Nowhere
  <1>2. TInv /\ StateHasItsData /\ [Next]_vars => StateHasItsData'
    BY HasDataNext
  <1> QED BY <1>1, <1>2, TInvariant, PTL DEF Spec

-----------------------------------------------------------------------------
(* What is written was the writer's to write.                              *)

\* What WrittenByEntitled says of a handler past its checks.
Owned(x) ==
  /\ x.does \in {"plan", "delete plan"} => x.it["plan"] \in x.may
  /\ x.does \in {"student", "delete student", "transfer", "create"} =>
       x.it["student"] \in x.may
  /\ x.does \in {"plan", "delete plan", "delete student", "transfer", "create"} =>
       x.user \in x.may

\* What it is entitled to now is among what it was entitled to; once it reads the
\* data only what these name counts.
Records(x, u) ==
  /\ x.pc = "admitted" => Entitled(u) \subseteq x.may
  /\ x.pc = "checking" => Entitled(u) \cap Named(u, x.it) \subseteq x.may
WGood(x) ==
  /\ x.pc = "checking" /\ x.active => x.user \in x.may
  /\ x.pc \in {"moving", "placed", "got", "writing"} => Owned(x)
WInv ==
  \A h \in Handlers : /\ WGood(hs[h])
                      /\ \A u \in Users : u = hs[h].user => Records(hs[h], u)

LEMMA EntitledStill ==
  ASSUME UNCHANGED rows
  PROVE  \A u \in Users : Entitled(u)' = Entitled(u)
  BY DEF rows, Entitled, Live

\* A handler that ends, or that keeps what it works with, stays good.
LEMMA OwnedStill ==
  ASSUME NEW x, NEW y, WGood(x), Names(x),
         x.pc \in {"moving", "placed", "got"},
         y.pc \in {"moving", "placed", "got", "writing"}, y.user = x.user, y.it = x.it,
         y.does = x.does, y.may = x.may
  PROVE  WGood(y) /\ y.pc \notin {"admitted", "checking"}
  BY DEF WGood, Owned

LEMMA NoHandlerWrites == WGood(NoHandler) /\ NoHandler.pc \notin {"admitted", "checking"}
  BY NoHandlerTyped DEF WGood

LEMMA WKept ==
  ASSUME WInv, NEW h \in Handlers, Only(h), \A u \in Users : Entitled(u)' = Entitled(u),
         WGood(hs'[h]), \A u \in Users : u = hs'[h].user => Records(hs'[h], u)
  PROVE  WInv'
  <1>1. ASSUME NEW g \in Handlers
        PROVE  WGood(hs'[g]) /\ \A u \in Users : u = hs'[g].user => Records(hs'[g], u)
    BY DEF WInv, Only
  <1> QED BY <1>1 DEF WInv, WGood, Records

\* The checks: the student and the plan are the user's, whose account is active.
LEMMA OwnsIs ==
  ASSUME NEW u \in Users, NEW s \in people, Owns(u, s)
  PROVE  s \in Entitled(u)
  BY DEF Owns, Entitled, Users

LEMMA EditsIs ==
  ASSUME NEW u \in Users, NEW p \in PlanIds, Edits(u, p)
  PROVE  p \in Entitled(u)
  BY DEF Edits, Entitled, Users

LEMMA RightsAre ==
  ASSUME NEW h, NEW does, NEW right, Fits(does, right), Allowed(h, right)
  PROVE  /\ does \in {"plan", "delete plan"} =>
              hs[h].active /\ Edits(hs[h].user, hs[h].it["plan"])
         /\ does \in {"student", "delete student", "transfer", "create", "this week"} =>
              Owns(hs[h].user, hs[h].it["student"])
         /\ does \in {"delete student", "transfer", "create"} => hs[h].active
  <1>1. /\ right = "plan" => hs[h].active /\ Edits(hs[h].user, hs[h].it["plan"])
        /\ right = "student" => Owns(hs[h].user, hs[h].it["student"])
        /\ right = "admin student" => Owns(hs[h].user, hs[h].it["student"])
        /\ right \in {"scope", "create"} =>
             hs[h].active /\ Owns(hs[h].user, hs[h].it["student"])
    BY DEF Allowed, Owns
  <1> QED BY <1>1 DEF Fits

\* A handler past its check is entitled to what it will write.
LEMMA OwnedChecked ==
  ASSUME TInv, WInv, NEW h \in Handlers, hs[h].pc = "checking",
         NEW r, r = RowOf(hs[h]), Allowed(h, r.right),
         NEW y, y.user = hs[h].user, y.it["student"] = hs[h].it["student"], y.may = hs[h].may,
         \/ y.does = r.does /\ y.it["plan"] = hs[h].it["plan"]
         \/ y.does = "show"
         \/ y.does = "create" /\ hs[h].active /\ r.does \in {"create", "this week"}
  PROVE  Owned(y)
  <1> DEFINE x == hs[h]
  <1>1. Started(x) /\ Has(x, Full(r)) /\ Sound(r)
    BY RowsSound DEF TInv, Good
  <1>2. PICK u \in Users : u = x.user
    BY <1>1 DEF Started
  <1>3. /\ Entitled(u) \cap Named(u, x.it) \subseteq x.may
        /\ x.active => u \in x.may
    BY <1>2 DEF WInv, WGood, Records
  <1>4. Fits(r.does, r.right) /\ (r.does \in {"plan", "delete plan"} => "plan" \in Full(r))
    BY <1>1 DEF Sound
  <1>5. /\ r.does \in {"plan", "delete plan"} => x.active /\ Edits(u, x.it["plan"])
        /\ r.does \in {"student", "delete student", "transfer", "create", "this week"} =>
             Owns(u, x.it["student"])
        /\ r.does \in {"delete student", "transfer", "create"} => x.active
    BY <1>2, <1>4, RightsAre
  <1>6. r.does \in {"plan", "delete plan"} => x.it["plan"] \in x.may
    <2>1. r.does \in {"plan", "delete plan"} => x.it["plan"] \in PlanIds
      BY <1>1, <1>4, DomainsAre DEF Has
    <2> QED BY <1>3, <1>5, <2>1, EditsIs DEF Named
  <1>7. r.does \in {"student", "delete student", "transfer", "create", "this week"} =>
          x.it["student"] \in x.may
    BY <1>3, <1>5, OwnsIs DEF Named, Owns
  <1>8. CASE y.does = r.does /\ y.it["plan"] = x.it["plan"]
    BY <1>2, <1>3, <1>5, <1>6, <1>7, <1>8 DEF Owned
  <1>9. CASE y.does = "show"
    BY <1>9 DEF Owned
  <1>10. CASE y.does = "create" /\ x.active /\ r.does \in {"create", "this week"}
    BY <1>2, <1>3, <1>7, <1>10 DEF Owned
  <1> QED BY <1>8, <1>9, <1>10

LEMMA WritesEnter ==
  ASSUME TInv, WInv, NEW h \in Handlers, Enter(h)
  PROVE  /\ Only(h) /\ WGood(hs'[h]) /\ \A u \in Users : u = hs'[h].user => Records(hs'[h], u)
  <1> DEFINE x == hs[h]  y == hs'[h]
  <1>1. PICK r : r = RowOf(x)
    OBVIOUS
  <1>2. x.pc = "admitted" /\ Started(x) /\ Sound(r)
    BY <1>1, RowsSound DEF TInv, Good, Enter, At
  <1>3. r.reads \cup r.gets \subseteq Keys
    BY <1>2 DEF Sound
  <1>4. /\ Only(h) /\ y.user = x.user /\ y.pc = "checking"
        /\ y.active = (x.user = Admin \/ account = "active")
        /\ y.may = x.may \cap Named(x.user, y.it)
    BY <1>1, <1>2, <1>3, EnterStep DEF TInv
  <1>5. PICK u \in Users : u = x.user
    BY <1>2 DEF Started
  <1>6. Entitled(u) \subseteq x.may
    BY <1>2, <1>5 DEF WInv, Records
  <1>7. Entitled(u) \cap Named(u, y.it) \subseteq y.may
    BY <1>4, <1>5, <1>6
  <1>8. y.active => u \in y.may
    BY <1>4, <1>5, <1>6 DEF Entitled, Users, Named
  <1> QED BY <1>4, <1>5, <1>7, <1>8 DEF WGood, Records

LEMMA WritesCheck ==
  ASSUME TInv, WInv, NEW h \in Handlers, CheckPlain(h) \/ CheckFound(h) \/ CheckNew(h)
  PROVE  /\ Only(h) /\ WGood(hs'[h]) /\ hs'[h].pc \notin {"admitted", "checking"}
         /\ \A u \in Users : Entitled(u)' = Entitled(u)
  <1> DEFINE x == hs[h]  y == hs'[h]
  <1>1. PICK r : r = RowOf(x)
    OBVIOUS
  <1>2. x.pc = "checking" /\ Allowed(h, r.right)
    BY <1>1, RowIs DEF CheckPlain, CheckFound, CheckNew, At
  <1>3. ASSUME Owned(y), y.pc = "moving"
        PROVE  WGood(y) /\ y.pc \notin {"admitted", "checking"}
    BY <1>3 DEF WGood
  <1>4. CASE CheckPlain(h)
    <2>1. /\ Only(h) /\ y.pc = "moving" /\ y.user = x.user /\ y.may = x.may
          /\ y.it = x.it /\ y.does = r.does
      BY <1>1, <1>4, GoodPlain
    <2>2. Owned(y)
      BY <1>1, <1>2, <2>1, OwnedChecked
    <2>3. UNCHANGED rows
      BY <1>4 DEF CheckPlain
    <2> QED BY <1>3, <2>1, <2>2, <2>3, EntitledStill
  <1>5. CASE CheckFound(h)
    <2>1. Only(h) /\ y.pc = "moving" /\ y.does = "show"
      BY <1>5, GoodFound
    <2>2. Owned(y)
      BY <2>1 DEF Owned
    <2>3. UNCHANGED rows
      BY <1>5 DEF CheckFound
    <2> QED BY <1>3, <2>1, <2>2, <2>3, EntitledStill
  <1>6. CASE CheckNew(h)
    <2>1. /\ Only(h) /\ y.pc = "moving" /\ y.user = x.user /\ y.may = x.may
          /\ y.does = "create" /\ y.it["student"] = x.it["student"]
          /\ r.does \in {"create", "this week"}
          /\ \E p \in PlanIds : plans[p] = Unborn /\ plans' = [plans EXCEPT ![p] = Gone]
      BY <1>1, <1>6, GoodNew
    <2>2. x.active /\ UNCHANGED <<people, linked, account>>
      BY <1>6 DEF CheckNew
    <2>3. Owned(y)
      BY <1>1, <1>2, <2>1, <2>2, OwnedChecked
    <2>4. \A p \in PlanIds : /\ Live(p)' = Live(p)
                             /\ Live(p) => plans'[p] = plans[p]
      BY <2>1 DEF TInv, Typed, Live
    <2>5. \A u \in Users : Entitled(u)' = Entitled(u)
      BY <2>2, <2>4 DEF Entitled
    <2> QED BY <1>3, <2>1, <2>3, <2>5
  <1> QED BY <1>4, <1>5, <1>6

LEMMA WritesMove ==
  ASSUME TInv, WInv, NEW h \in Handlers,
         Move(h) \/ SetState(h) \/ GetData(h) \/ SetData(h) \/ Stop(h)
  PROVE  /\ Only(h) /\ WGood(hs'[h]) /\ hs'[h].pc \notin {"admitted", "checking"}
  <1> DEFINE x == hs[h]  y == hs'[h]
  <1>1. WGood(x) /\ (x.pc \in {"moving", "placed", "got"} => Names(x))
    BY DEF TInv, WInv, Good
  <1>2. CASE Move(h) \/ SetData(h)
    <2>1. Only(h) /\ Shown(x, y) /\ x.pc \in {"moving", "placed", "got"}
      BY <1>2, MoveIs, SetDataIs DEF Move, SetData, At
    <2>2. CASE y = NoHandler
      BY <2>1, <2>2, NoHandlerWrites
    <2>3. CASE y # NoHandler
      <3>1. /\ y.pc = "writing" /\ y.user = x.user /\ y.it = x.it /\ y.does = x.does
            /\ y.may = x.may
        BY <2>1, <2>3 DEF Shown
      <3> QED BY <1>1, <2>1, <3>1, OwnedStill
    <2> QED BY <2>2, <2>3
  <1>3. CASE SetState(h)
    <2>1. x.pc = "moving"
      BY <1>3 DEF SetState, At
    <2>2. /\ Only(h) /\ y.pc = "placed" /\ y.user = x.user /\ y.it = x.it /\ y.does = x.does
          /\ y.may = x.may
      BY <1>3, SetStateStep DEF TInv
    <2> QED BY <1>1, <2>1, <2>2, OwnedStill
  <1>4. CASE GetData(h)
    <2>1. x.pc = "placed"
      BY <1>4 DEF GetData, At
    <2>2. /\ Only(h) /\ y.pc = "got" /\ y.user = x.user /\ y.it = x.it /\ y.does = x.does
          /\ y.may = x.may
      BY <1>4, GetDataIs
    <2> QED BY <1>1, <2>1, <2>2, OwnedStill
  <1>5. CASE Stop(h)
    <2>1. Only(h) /\ y = NoHandler
      BY <1>5, EndStep DEF Stop, TInv
    <2> QED BY <2>1, NoHandlerWrites
  <1> QED BY <1>2, <1>3, <1>4, <1>5

LEMMA WNext ==
  ASSUME TInv, WInv, [Next]_vars
  PROVE  WInv'
  <1>0. ASSUME NEW y, y.pc \notin {"admitted", "checking"}
        PROVE  \A u \in Users : Records(y, u)
    BY <1>0 DEF Records
  <1>1. ASSUME NEW h \in Handlers, Handle(h)
        PROVE  WInv'
    <2>1. CASE Enter(h)
      <3>1. \A u \in Users : Entitled(u)' = Entitled(u)
        BY <2>1, EntitledStill DEF Enter
      <3> QED BY <2>1, <3>1, WritesEnter, WKept
    <2>2. CASE CheckPlain(h) \/ CheckFound(h) \/ CheckNew(h)
      <3>1. /\ Only(h) /\ WGood(hs'[h]) /\ hs'[h].pc \notin {"admitted", "checking"}
            /\ \A u \in Users : Entitled(u)' = Entitled(u)
        BY <2>2, WritesCheck
      <3> QED BY <1>0, <3>1, WKept
    <2>3. CASE Move(h) \/ SetState(h) \/ GetData(h) \/ SetData(h) \/ Stop(h)
      <3>1. Only(h) /\ WGood(hs'[h]) /\ hs'[h].pc \notin {"admitted", "checking"}
        BY <2>3, WritesMove
      <3>2. \A u \in Users : Entitled(u)' = Entitled(u)
        BY <2>3, EntitledStill DEF Move, SetState, GetData, SetData, Stop
      <3> QED BY <1>0, <3>1, <3>2, WKept
    <2>4. CASE Commit(h)
      <3>1. /\ hs'[h] = NoHandler
            /\ \A g \in Handlers \ {h} :
                 /\ hs'[g].user = hs[g].user /\ hs'[g].pc = hs[g].pc
                 /\ hs'[g].active = hs[g].active
                 /\ hs'[g].it = hs[g].it /\ hs'[g].does = hs[g].does
                 /\ hs[g].may \subseteq hs'[g].may
                 /\ \A u \in Users : u = hs[g].user =>
                      /\ hs[g].pc = "admitted" => Entitled(u)' \subseteq hs'[g].may
                      /\ hs[g].pc = "checking" =>
                           Entitled(u)' \cap Named(u, hs[g].it) \subseteq hs'[g].may
        BY <2>4, CommitIs
      <3>2. ASSUME NEW g \in Handlers
            PROVE  WGood(hs'[g])
        <4>1. CASE g = h
          BY <3>1, <4>1, NoHandlerWrites
        <4>2. CASE g # h
          <5> DEFINE x == hs[g]  y == hs'[g]
          <5>1. /\ y.user = x.user /\ y.pc = x.pc /\ y.active = x.active /\ y.it = x.it
                /\ y.does = x.does /\ x.may \subseteq y.may
            BY <3>1, <4>2
          <5>2. WGood(x)
            BY DEF WInv
          <5> HIDE DEF x, y
          <5>3. Owned(x) => Owned(y)
            BY <5>1 DEF Owned
          <5> QED BY <5>1, <5>2, <5>3 DEF WGood, x, y
        <4> QED BY <4>1, <4>2
      <3>3. ASSUME NEW g \in Handlers, NEW u \in Users, u = hs'[g].user
            PROVE  Records(hs[g], u)'
        <4>1. CASE g = h
          BY <3>1, <4>1, NoHandlerWrites DEF Records
        <4>2. CASE g # h
          <5>1. /\ hs'[g].pc = hs[g].pc /\ hs'[g].it = hs[g].it
                /\ hs[g].pc = "admitted" => Entitled(u)' \subseteq hs'[g].may
                /\ hs[g].pc = "checking" =>
                     Entitled(u)' \cap Named(u, hs[g].it) \subseteq hs'[g].may
            BY <3>1, <3>3, <4>2
          <5> QED BY <5>1 DEF Records
        <4> QED BY <4>1, <4>2
      <3> QED BY <3>2, <3>3 DEF WInv, WGood, Owned
    <2> QED BY <1>1, <2>1, <2>2, <2>3, <2>4 DEF Handle
  <1>2. ASSUME NEW h \in Handlers, NEW v \in Users, Arrive(h, v)
        PROVE  WInv'
    <2>1. /\ Only(h) /\ hs'[h].pc = "admitted" /\ hs'[h].user = v
          /\ hs'[h].may = Entitled(v) /\ UNCHANGED rows
      BY <1>2, GoodBegin
    <2>2. WGood(hs'[h])
      BY <2>1 DEF WGood
    <2>3. \A u \in Users : u = hs'[h].user => Records(hs'[h], u)
      BY <2>1 DEF Records
    <2> QED BY <2>1, <2>2, <2>3, EntitledStill, WKept
  <1>3. CASE Restart
    <2>1. \A h \in Handlers : hs'[h] = NoHandler
      BY <1>3 DEF Restart
    <2>2. \A h \in Handlers : WGood(hs[h])' /\ \A u \in Users : Records(hs[h], u)'
      BY <2>1, NoHandlerWrites DEF WGood, Records
    <2> QED BY <2>2 DEF WInv
  <1>4. CASE UNCHANGED vars
    <2>1. hs' = hs /\ \A u \in Users : Entitled(u)' = Entitled(u)
      BY <1>4, EntitledStill DEF vars, rows
    <2> QED BY <2>1 DEF WInv, WGood, Owned, Records
  <1> QED BY <1>1, <1>2, <1>3, <1>4 DEF Next

\* Authority is checked again when the text arrives and is never inherited from the
\* prompt (_plan_for, _own_student, update_plan): for any number of overlapping
\* handlers, restarts and refusals, one that goes on to write a plan or a student
\* owned it at a moment since its update arrived, and had an active account at one.
THEOREM WritersEntitled == Spec => []WrittenByEntitled
  <1>1. Init => WInv
    <2> SUFFICES ASSUME Init PROVE WInv
      OBVIOUS
    <2>1. \A h \in Handlers : hs[h] = NoHandler
      BY DEF Init
    <2> QED BY <2>1, NoHandlerWrites DEF WInv, Records
  <1>2. TInv /\ WInv /\ [Next]_vars => WInv'
    BY WNext
  <1>3. WInv => WrittenByEntitled
    BY DEF WInv, WGood, Owned, WrittenByEntitled
  <1> QED BY <1>1, <1>2, <1>3, TInvariant, PTL DEF Spec

-----------------------------------------------------------------------------
(* A user who waits for the answers gets what the screen shows.            *)

\* The keys of the data that a screen goes by.
ShownKeys(at) == IF at = "summary" THEN {"start", "end"} ELSE Needs(at)

\* A patient user's handlers follow one another, so what one has read is still there
\* when it moves the wizard, and what a screen goes by is in the data or forgotten.
Alone ==
  \A g, h \in Handlers :
    g # h /\ hs[g].pc # "none" /\ hs[h].pc # "none" => hs[g].user # hs[h].user

Follows(x, data) ==
  /\ x.pc = "checking" => \A k \in RowOf(x).reads : x.it[k] = data[k]
  /\ x.pc \in {"moving", "placed", "got"} /\ x.to = "same" =>
       /\ x.on = "edit_slot" =>
            /\ x.puts = {"slot"}
            /\ x.it["plan"] = data["plan"] /\ x.it["day"] = data["day"]
       /\ x.on \in {"range_start", "range_end"} => x.puts = {"start", "end"}
  /\ x.pc = "got" => x.seen = data

Agrees ==
  \A u \in Users : \A k \in ShownKeys(screen[u].at) :
    fsm[u].data[k] \in {None, screen[u].data[k]}

DInv ==
  site.patient => /\ Alone
                  /\ \A h \in Handlers : Follows(hs[h], fsm[hs[h].user].data)
                  /\ Agrees

LEMMA ShownAre ==
  /\ ShownKeys("summary") = {"start", "end"} /\ ShownKeys("edit_slot") = {"plan", "day", "slot"}
  /\ ShownKeys("idle") = {} /\ ShownKeys("overview") = {}
  /\ \A at \in States : ShownKeys(at) = Needs(at)
  /\ \A at \in States \cup {"summary", "overview"} : ShownKeys(at) \subseteq Keys
  <1>1. "summary" \notin States /\ {"start", "end"} \subseteq Keys
    BY DEF States, Keys
  <1> QED BY <1>1, NeedsAre, NeedsKeys DEF ShownKeys

\* The other users' handlers, wizards and screens are as they were.
LEMMA DKept ==
  ASSUME TInv, DInv, site.patient, NEW h \in Handlers, Only(h),
         hs[h].pc # "none", hs'[h].pc # "none" => hs'[h].user = hs[h].user,
         \A u \in Users : u # hs[h].user => fsm'[u] = fsm[u],
         hs'[h].pc # "none" => Follows(hs'[h], fsm'[hs[h].user].data),
         Agrees'
  PROVE  DInv'
  <1>1. Alone /\ \A g \in Handlers : Follows(hs[g], fsm[hs[g].user].data)
    BY DEF DInv
  <1>2. \A g \in Handlers : hs[g].pc # "none" => hs[g].user \in Users
    BY DEF TInv, Good, Started
  <1>3. \A g \in Handlers : g # h => hs'[g] = hs[g]
    BY DEF Only
  <1>4. Alone'
    BY <1>1, <1>3 DEF Alone
  <1>5. ASSUME NEW g \in Handlers, hs'[g].pc # "none"
        PROVE  Follows(hs'[g], fsm'[hs'[g].user].data)
    <2>1. CASE g = h
      BY <1>5, <2>1
    <2>2. CASE g # h
      <3>1. hs'[g] = hs[g] /\ hs[g].pc # "none" /\ hs[g].user \in Users
        BY <1>2, <1>3, <1>5, <2>2
      <3>2. hs[g].user # hs[h].user
        BY <1>1, <2>2, <3>1 DEF Alone
      <3> QED BY <1>1, <3>1, <3>2
    <2> QED BY <2>1, <2>2
  <1>6. ASSUME NEW x, NEW d, x.pc = "none"
        PROVE  Follows(x, d)
    BY <1>6 DEF Follows
  <1>7. \A g \in Handlers : Follows(hs'[g], fsm'[hs'[g].user].data)
    BY <1>5, <1>6
  <1> QED BY <1>4, <1>7 DEF DInv, Follows

LEMMA NewDataAt ==
  ASSUME NEW h, NEW data, NEW k \in Keys
  PROVE  /\ hs[h].to = "clear" => NewData(h, data)[k] = None
         /\ hs[h].to # "clear" =>
              NewData(h, data)[k] = IF k \in hs[h].puts THEN PutOf(hs[h], k) ELSE data[k]
  BY RowIs DEF NewData, Nowhere

LEMMA PromptIs ==
  ASSUME NEW h, hs[h].to \in Tos
  PROVE  /\ hs[h].to = "clear" => Prompt(h) = "idle"
         /\ hs[h].to \notin {"same", "clear"} => Prompt(h) = hs[h].to /\ hs[h].to \in States
  <1>1. "idle" \in States
    BY DEF States
  <1>2. hs[h].to # "same" => Prompt(h) = NewAt(h, "idle")
    BY DEF Prompt
  <1>3. /\ hs[h].to = "clear" => NewAt(h, "idle") = "idle"
        /\ hs[h].to \notin {"same", "clear"} => NewAt(h, "idle") = hs[h].to
    BY <1>1, NewAtIs
  <1> QED BY <1>2, <1>3 DEF Tos

\* The screen that goes with a move goes by the data the move leaves.
LEMMA PromptShows ==
  ASSUME NEW h, hs[h].to \in Tos, Brings(hs[h]), hs[h].pc \in {"moving", "got"},
         NEW data, Follows(hs[h], data),
         NEW k \in ShownKeys(Prompt(h))
  PROVE  /\ k \in Keys
         /\ hs[h].to # "clear" /\ (k \in hs[h].puts \/ hs[h].it[k] = data[k])
  <1> DEFINE x == hs[h]
  <1>1. CASE x.to = "clear"
    <2>1. Prompt(h) = "idle"
      BY <1>1, PromptIs
    <2> QED BY <2>1, ShownAre
  <1>2. CASE x.to \notin {"same", "clear"}
    <2>1. Prompt(h) = x.to /\ x.to \in States
      BY <1>2, PromptIs
    <2>2. k \in Needs(x.to) /\ k \in Keys
      BY <2>1, ShownAre
    <2> QED BY <1>2, <2>2 DEF Brings
  <1>3. CASE x.to = "same" /\ x.on \in {"range_start", "range_end"}
    <2>1. Prompt(h) = "summary"
      BY <1>3 DEF Prompt
    <2>2. k \in {"start", "end"}
      BY <2>1, ShownAre
    <2>3. x.puts = {"start", "end"}
      BY <1>3 DEF Follows
    <2> QED BY <1>3, <2>2, <2>3 DEF Keys
  <1>4. CASE x.to = "same" /\ x.on = "edit_slot"
    <2>1. Prompt(h) = "edit_slot"
      BY <1>4 DEF Prompt
    <2>2. k \in {"plan", "day", "slot"}
      BY <2>1, ShownAre
    <2>3. /\ x.puts = {"slot"}
          /\ x.it["plan"] = data["plan"] /\ x.it["day"] = data["day"]
      BY <1>4 DEF Follows
    <2> QED BY <1>4, <2>2, <2>3 DEF Keys
  <1>5. CASE x.to = "same" /\ x.on \notin {"range_start", "range_end", "edit_slot"}
    <2>1. Prompt(h) = "overview"
      BY <1>5 DEF Prompt
    <2> QED BY <2>1, ShownAre
  <1> QED BY <1>1, <1>2, <1>3, <1>4, <1>5

LEMMA MovedAgrees ==
  ASSUME TInv, DInv, site.patient, NEW h \in Handlers,
         hs[h].pc \in {"moving", "got"}, Show(h),
         \A u \in Users : u # hs[h].user => fsm'[u] = fsm[u],
         \A k \in Keys : fsm'[hs[h].user].data[k] = NewData(h, fsm[hs[h].user].data)[k]
  PROVE  Agrees'
  <1> DEFINE x == hs[h]
  <1>1. /\ x.user \in Users /\ x.to \in Tos /\ Brings(x)
        /\ Follows(x, fsm[x.user].data) /\ Agrees
    <2>1. x \in Handler /\ Started(x) /\ Brings(x)
      BY DEF TInv, Typed, Good
    <2> QED BY <2>1 DEF Started, Handler, DInv
  <1>2. /\ \A u \in Users : u # x.user => screen'[u] = screen[u]
        /\ x.to # "same" \/ x.puts # {} =>
             /\ screen'[x.user].at = Prompt(h)
             /\ screen'[x.user].data = NewData(h, [k \in Keys |-> x.it[k]])
        /\ x.to = "same" /\ x.puts = {} => screen' = screen
    BY ScreenIs
  <1>3. ASSUME NEW u \in Users, NEW k \in ShownKeys(screen'[u].at)
        PROVE  fsm'[u].data[k] \in {None, screen'[u].data[k]}
    <2>1. CASE u # x.user
      BY <1>1, <1>2, <1>3, <2>1 DEF Agrees
    <2>2. CASE u = x.user /\ x.to = "same" /\ x.puts = {}
      <3>1. screen'[u].at \in States \cup {"summary", "overview"}
        BY <1>2, <2>2 DEF TInv, Typed
      <3>2. k \in Keys
        BY <1>3, <3>1, ShownAre
      <3>3. fsm'[u].data[k] = fsm[u].data[k]
        BY <2>2, <3>2, NewDataAt
      <3> QED BY <1>1, <1>2, <1>3, <2>2, <3>3 DEF Agrees
    <2>3. CASE u = x.user /\ (x.to # "same" \/ x.puts # {})
      <3>1. PICK data, it : data = fsm[u].data /\ it = [n \in Keys |-> x.it[n]]
        OBVIOUS
      <3>2. screen'[u].at = Prompt(h) /\ screen'[u].data = NewData(h, it)
        BY <1>2, <2>3, <3>1
      <3>3. k \in Keys /\ x.to # "clear" /\ (k \in x.puts \/ x.it[k] = data[k])
        <4>1. /\ hs[h].to \in Tos /\ Brings(hs[h]) /\ Follows(hs[h], data)
              /\ k \in ShownKeys(Prompt(h))
          BY <1>1, <1>3, <2>3, <3>1, <3>2
        <4> QED BY <4>1, PromptShows
      <3>4. fsm'[u].data[k] = IF k \in x.puts THEN PutOf(x, k) ELSE data[k]
        BY <2>3, <3>1, <3>3, NewDataAt
      <3>5. screen'[u].data[k] = IF k \in x.puts THEN PutOf(x, k) ELSE it[k]
        BY <3>2, <3>3, NewDataAt
      <3> QED BY <3>1, <3>3, <3>4, <3>5
    <2> QED BY <2>1, <2>2, <2>3
  <1> QED BY <1>3 DEF Agrees, ShownKeys, Needs

\* What a row that stays in its state puts.
LEMMA SameRow ==
  ASSUME NEW x, Started(x), RowOf(x).to = "same"
  PROVE  /\ x.on = "edit_slot" => RowOf(x).puts = {"slot"}
         /\ x.on \in {"range_start", "range_end"} => RowOf(x).puts = {"start", "end"}
  <1>1. x.on = "edit_slot" => RowOf(x).puts = {"slot"}
    BY SlotRow
  <1>2. /\ RangeInput.puts = {"start", "end"} /\ RangeEndInput.puts = {"start", "end"}
        /\ RangeStartInput.to = "range_end"
    <2>1. RangeStartInput.to = "range_end"
      BY DEF RangeStartInput, Moves, On
    <2> QED BY <2>1, InputLines DEF Line
  <1>3. x.on \in {"range_start", "range_end"} =>
          RowOf(x) \in {RangeInput, RangeEndInput, RangeStartInput}
    BY InputsAre DEF RowOf, Started
  <1> QED BY <1>1, <1>2, <1>3

LEMMA FollowsCheck ==
  ASSUME TInv, DInv, site.patient, NEW h \in Handlers,
         CheckPlain(h) \/ CheckFound(h) \/ CheckNew(h)
  PROVE  /\ Only(h) /\ hs[h].pc # "none" /\ hs'[h].user = hs[h].user
         /\ Follows(hs'[h], fsm[hs[h].user].data)
  <1> DEFINE x == hs[h]  y == hs'[h]
  <1>1. PICK data : data = fsm[x.user].data
    OBVIOUS
  <1>2. x.pc = "checking" /\ Started(x) /\ Follows(x, data)
    BY <1>1 DEF CheckPlain, CheckFound, CheckNew, At, TInv, Good, DInv
  <1>3. CASE CheckPlain(h)
    <2>1. PICK r : r = RowOf(x)
      OBVIOUS
    <2>2. /\ Only(h) /\ y.pc = "moving" /\ y.user = x.user /\ y.on = x.on /\ y.it = x.it
          /\ \/ y.to = r.to /\ y.puts = r.puts
             \/ y.on = "edit_slot" /\ y.to = "edit_day"
      BY <1>3, <2>1, GoodPlain
    <2>3. \A k \in r.reads : x.it[k] = data[k]
      BY <1>2, <2>1 DEF Follows
    <2>4. x.on = "edit_slot" => x.it["plan"] = data["plan"] /\ x.it["day"] = data["day"]
      BY <1>2, <2>1, <2>3, SlotRow
    <2>5. y.to = "same" => /\ y.on = "edit_slot" => y.puts = {"slot"}
                           /\ y.on \in {"range_start", "range_end"} => y.puts = {"start", "end"}
      BY <1>2, <2>1, <2>2, SameRow
    <2>6. Follows(y, data)
      BY <2>2, <2>4, <2>5 DEF Follows
    <2> QED BY <1>1, <1>2, <2>2, <2>6
  <1>4. CASE CheckFound(h) \/ CheckNew(h)
    <2>1. Only(h) /\ y.pc = "moving" /\ y.user = x.user /\ y.on = "button"
      BY <1>4, GoodFound, GoodNew
    <2>2. Follows(y, data)
      BY <2>1 DEF Follows
    <2> QED BY <1>1, <1>2, <2>1, <2>2
  <1> QED BY <1>3, <1>4

LEMMA FollowsEnter ==
  ASSUME TInv, NEW h \in Handlers, Enter(h)
  PROVE  /\ Only(h) /\ hs[h].pc # "none" /\ hs'[h].user = hs[h].user
         /\ Follows(hs'[h], fsm[hs[h].user].data)
  <1> DEFINE x == hs[h]  y == hs'[h]  data == fsm[x.user].data
  <1>1. PICK r : r = RowOf(x)
    OBVIOUS
  <1>2. x.pc = "admitted" /\ Started(x) /\ Sound(r)
    BY <1>1, RowsSound DEF TInv, Good, Enter, At
  <1>3. r.reads \cup r.gets \subseteq Keys
    BY <1>2 DEF Sound
  <1>4. /\ Only(h) /\ y.user = x.user /\ y.act = x.act /\ y.on = x.on /\ y.pc = "checking"
        /\ y.it = [f \in Fields |-> IF f \in r.reads \cup r.gets THEN data[f] ELSE x.it[f]]
    BY <1>1, <1>2, <1>3, EnterStep DEF TInv
  <1>5. RowOf(y) = r
    BY <1>1, <1>4 DEF RowOf
  <1>6. \A k \in r.reads : y.it[k] = data[k]
    BY <1>3, <1>4, DomainsAre
  <1> QED BY <1>2, <1>4, <1>5, <1>6 DEF Follows

LEMMA SiteStays ==
  ASSUME [Next]_vars
  PROVE  site' = site
  <1>1. ASSUME NEW h \in Handlers, Handle(h)
        PROVE  site' = site
    BY <1>1 DEF Handle, Enter, CheckPlain, CheckFound, CheckNew, Move, SetState, GetData,
           SetData, Commit, Stop
  <1>2. ASSUME NEW h \in Handlers, NEW u \in Users, Arrive(h, u)
        PROVE  site' = site
    BY <1>2 DEF Arrive, Tap, Type, TypeBothDates, Begin
  <1> QED BY <1>1, <1>2 DEF Next, Restart, vars

LEMMA AgreesStill ==
  ASSUME Agrees, UNCHANGED screen, \A u \in Users : fsm'[u].data = fsm[u].data
  PROVE  Agrees'
  BY DEF Agrees, ShownKeys, Needs

LEMMA DHandle ==
  ASSUME TInv, DInv, site.patient, NEW h \in Handlers, Handle(h)
  PROVE  DInv'
  <1> DEFINE x == hs[h]  y == hs'[h]
  <1>0. Agrees /\ Follows(x, fsm[x.user].data)
    BY DEF DInv
  <1>1. CASE Enter(h) \/ CheckPlain(h) \/ CheckFound(h) \/ CheckNew(h)
    <2>1. UNCHANGED <<fsm, screen>>
      BY <1>1 DEF Enter, CheckPlain, CheckFound, CheckNew
    <2>2. /\ Only(h) /\ x.pc # "none" /\ y.user = x.user
          /\ Follows(y, fsm'[x.user].data)
      BY <1>1, <2>1, FollowsEnter, FollowsCheck
    <2>3. Agrees'
      BY <1>0, <2>1, AgreesStill
    <2> QED BY <2>1, <2>2, <2>3, DKept
  <1>2. CASE Move(h) \/ SetData(h)
    <2>1. /\ x.pc \in {"moving", "got"} /\ Show(h) /\ Only(h) /\ Shown(x, y)
      BY <1>2, MoveIs, SetDataIs DEF Move, SetData, At
    <2>2. /\ \A u \in Users : u # x.user => fsm'[u] = fsm[u]
          /\ \A k \in Keys : fsm'[x.user].data[k] = NewData(h, fsm[x.user].data)[k]
      <3>1. CASE Move(h)
        BY <3>1, MoveIs DEF MovedTo
      <3>2. CASE SetData(h)
        <4>1. x.pc = "got"
          BY <3>2 DEF SetData, At
        <4>2. x.seen = fsm[x.user].data
          BY <1>0, <4>1 DEF Follows
        <4>3. /\ \A u \in Users : u # x.user => fsm'[u] = fsm[u]
              /\ fsm'[x.user].data = IF x.puts = {} /\ x.to # "clear" THEN fsm[x.user].data
                                     ELSE NewData(h, x.seen)
          BY <3>2, SetDataIs DEF MovedTo
        <4> QED BY <4>2, <4>3, NewDataAt
      <3> QED BY <1>2, <3>1, <3>2
    <2>3. Agrees'
      BY <2>1, <2>2, MovedAgrees
    <2>4. y.pc \in {"none", "writing"} /\ (y.pc # "none" => y.user = x.user)
      BY <2>1, NoHandlerTyped DEF Shown
    <2>5. Follows(y, fsm'[x.user].data)
      BY <2>4 DEF Follows
    <2>6. x.pc # "none"
      BY <2>1
    <2> QED BY <2>1, <2>2, <2>3, <2>4, <2>5, <2>6, DKept
  <1>3. CASE SetState(h)
    <2>1. x.pc = "moving" /\ UNCHANGED screen
      BY <1>3 DEF SetState, At
    <2>2. /\ Only(h) /\ y.pc = "placed"
          /\ y.user = x.user /\ y.act = x.act /\ y.on = x.on
          /\ y.it = x.it /\ y.to = x.to /\ y.puts = x.puts
      BY <1>3, SetStateStep DEF TInv
    <2>3. MovedTo(x, NewAt(h, fsm[x.user].at), fsm[x.user].data)
      BY <1>3, SetStateIs
    <2>4. /\ \A u \in Users : u # x.user => fsm'[u] = fsm[u]
          /\ fsm'[x.user].data = fsm[x.user].data
      BY <2>3 DEF MovedTo
    <2>5. Follows(y, fsm'[x.user].data)
      BY <1>0, <2>1, <2>2, <2>4 DEF Follows
    <2>6. Agrees'
      BY <1>0, <2>1, <2>4, AgreesStill
    <2> QED BY <2>1, <2>2, <2>4, <2>5, <2>6, DKept
  <1>4. CASE GetData(h)
    <2>1. x.pc = "placed" /\ UNCHANGED <<fsm, screen>>
      BY <1>4 DEF GetData, At
    <2>2. /\ Only(h) /\ y.pc = "got" /\ y.user = x.user /\ y.on = x.on
          /\ y.it = x.it /\ y.to = x.to /\ y.puts = x.puts /\ y.seen = fsm[x.user].data
      BY <1>4, GetDataIs
    <2>3. Follows(y, fsm'[x.user].data)
      BY <1>0, <2>1, <2>2 DEF Follows
    <2>4. Agrees'
      BY <1>0, <2>1, AgreesStill
    <2> QED BY <2>1, <2>2, <2>3, <2>4, DKept
  <1>5. CASE Commit(h)
    <2>1. /\ hs'[h] = NoHandler /\ UNCHANGED <<site, fsm, screen>>
          /\ \A g \in Handlers \ {h} :
               /\ hs'[g].user = hs[g].user /\ hs'[g].act = hs[g].act /\ hs'[g].on = hs[g].on
               /\ hs'[g].pc = hs[g].pc /\ hs'[g].it = hs[g].it /\ hs'[g].to = hs[g].to
               /\ hs'[g].puts = hs[g].puts /\ hs'[g].seen = hs[g].seen
      BY <1>5, CommitIs
    <2>2. Alone'
      BY <2>1, NoHandlerTyped DEF DInv, Alone
    <2>3. ASSUME NEW g \in Handlers
          PROVE  Follows(hs'[g], fsm'[hs'[g].user].data)
      <3>1. CASE g = h
        BY <2>1, <3>1, NoHandlerTyped DEF Follows
      <3>2. CASE g # h
        <4> DEFINE z == hs[g]  w == hs'[g]
        <4>1. /\ w.user = z.user /\ w.act = z.act /\ w.on = z.on /\ w.pc = z.pc
              /\ w.it = z.it /\ w.to = z.to /\ w.puts = z.puts /\ w.seen = z.seen
              /\ fsm' = fsm
          BY <2>1, <3>2
        <4>2. Follows(z, fsm[z.user].data)
          BY DEF DInv
        <4> HIDE DEF z, w
        <4>3. RowOf(w) = RowOf(z)
          BY <4>1 DEF RowOf
        <4>4. Follows(w, fsm'[w.user].data)
          BY <4>1, <4>2, <4>3 DEF Follows
        <4> QED BY <4>4 DEF w
      <3> QED BY <3>1, <3>2
    <2>4. Agrees'
      BY <1>0, <2>1, AgreesStill
    <2> QED BY <2>2, <2>3, <2>4 DEF DInv, Follows
  <1>6. CASE Stop(h)
    <2>1. Only(h) /\ y = NoHandler /\ x.pc # "none" /\ UNCHANGED <<fsm, screen>>
      BY <1>6, EndStep DEF Stop, TInv, At
    <2>2. y.pc = "none"
      BY <2>1, NoHandlerTyped
    <2>3. Agrees'
      BY <1>0, <2>1, AgreesStill
    <2> QED BY <2>1, <2>2, <2>3, DKept
  <1> QED BY <1>1, <1>2, <1>3, <1>4, <1>5, <1>6 DEF Handle

LEMMA DNext ==
  ASSUME TInv, DInv, [Next]_vars
  PROVE  DInv'
  <1>1. CASE ~site.patient
    BY <1>1, SiteStays DEF DInv
  <1>2. ASSUME site.patient, NEW h \in Handlers, Handle(h)
        PROVE  DInv'
    BY <1>2, DHandle
  <1>3. ASSUME site.patient, NEW h \in Handlers, NEW u \in Users, Arrive(h, u)
        PROVE  DInv'
    <2>1. /\ Only(h) /\ hs'[h].pc = "admitted" /\ hs'[h].user = u
          /\ \A g \in Handlers : hs[g].user # u
          /\ UNCHANGED <<fsm, screen>>
      BY <1>3, GoodBegin
    <2>2. \A g \in Handlers : g # h => hs'[g] = hs[g]
      BY <2>1 DEF Only
    <2>3. Alone'
      BY <1>3, <2>1, <2>2 DEF DInv, Alone
    <2>4. Agrees'
      BY <1>3, <2>1, AgreesStill DEF DInv
    <2>5. ASSUME NEW g \in Handlers
          PROVE  Follows(hs'[g], fsm'[hs'[g].user].data)
      <3>1. CASE g = h
        BY <2>1, <3>1 DEF Follows
      <3>2. CASE g # h
        BY <1>3, <2>1, <2>2, <3>2 DEF DInv
      <3> QED BY <3>1, <3>2
    <2> QED BY <2>3, <2>4, <2>5 DEF DInv, Follows
  <1>4. CASE site.patient /\ Restart
    <2>1. \A g \in Handlers : hs'[g].pc = "none"
      BY <1>4, NoHandlerTyped DEF Restart
    <2>2. Alone' /\ \A g \in Handlers : Follows(hs'[g], fsm'[hs'[g].user].data)
      BY <2>1 DEF Alone, Follows
    <2>3. screen' = screen /\ \/ fsm' = fsm
                              \/ \A u \in Users : \A k \in Keys : fsm'[u].data[k] = None
      BY <1>4 DEF Restart, Nowhere
    <2>4. \A u \in Users : ShownKeys(screen[u].at) \subseteq Keys
      BY ShownAre DEF TInv, Typed
    <2>5. Agrees'
      BY <1>4, <2>3, <2>4 DEF DInv, Agrees, ShownKeys, Needs
    <2> QED BY <2>2, <2>5 DEF DInv, Follows
  <1>5. CASE site.patient /\ UNCHANGED vars
    BY <1>5 DEF vars, DInv, Alone, Follows, Agrees, ShownKeys, Needs
  <1> QED BY <1>1, <1>2, <1>3, <1>4, <1>5 DEF Next

\* The screen a user answers is what the bot does: for a user who waits for the
\* answers, with either storage, any refusal in between and any restart, a text goes
\* to the student, plan, day and cell of the prompt, and the confirmed range is the
\* one on the summary (RangeConfirm reads the dates from the FSM data).
THEOREM DoneIsShown == Spec => []DoneAsShown
  <1>1. Init => DInv
    <2> SUFFICES ASSUME Init PROVE DInv
      OBVIOUS
    <2>1. \A h \in Handlers : hs[h].pc = "none"
      BY NoHandlerTyped DEF Init
    <2>2. \A u \in Users : ShownKeys(screen[u].at) = {}
      BY ShownAre DEF Init, Nowhere
    <2> QED BY <2>1, <2>2 DEF DInv, Alone, Follows, Agrees
  <1>2. TInv /\ DInv /\ [Next]_vars => DInv'
    BY DNext
  <1>3. TInv /\ DInv => DoneAsShown
    <2> SUFFICES ASSUME TInv, DInv, site.patient, NEW h \in Handlers, At(h, "checking"),
                        NEW k \in Row(h).reads,
                        screen[hs[h].user].at = IF hs[h].on = "button" THEN "summary"
                                                ELSE hs[h].on
                 PROVE  hs[h].it[k] = screen[hs[h].user].data[k]
      BY DEF DoneAsShown
    <2> DEFINE x == hs[h]
    <2>1. PICK r : r = RowOf(x)
      OBVIOUS
    <2>2. /\ Started(x) /\ Has(x, Full(r)) /\ Follows(x, fsm[x.user].data) /\ Agrees
          /\ k \in r.reads /\ x.pc = "checking"
      BY <2>1, RowIs DEF TInv, Good, DInv, At
    <2>3. Sound(r) /\ (x.on = "button" => SoundTap(r))
      BY <2>1, <2>2, RowsSound
    <2>4. x.it[k] # None /\ x.it[k] = fsm[x.user].data[k]
      BY <2>1, <2>2, <2>3, DomainsAre DEF Has, Follows, Full, Sound
    <2>5. k \in ShownKeys(screen[x.user].at)
      <3>1. CASE x.on = "button"
        <4>1. k \in {"start", "end"}
          BY <2>2, <2>3, <3>1 DEF SoundTap
        <4> QED BY <3>1, <4>1, ShownAre
      <3>2. CASE x.on # "button"
        <4>1. x.on \in DOMAIN Inputs /\ x.on \in States
          BY <2>2, <3>2, InputsAre DEF Started, States
        <4>2. x.act = "both dates" => r.reads = {}
          BY <2>1, <3>2, InputLines DEF RowOf, Line
        <4>3. x.act = "text" => r = Inputs[x.on]
          BY <2>1, <3>2 DEF RowOf
        <4>4. k \in Needs(x.on)
          BY <2>2, <3>2, <4>1, <4>2, <4>3 DEF Needs, Started
        <4> QED BY <3>2, <4>1, <4>4, ShownAre
      <3> QED BY <3>1, <3>2
    <2> QED BY <2>2, <2>4, <2>5 DEF Agrees, Started
  <1> QED BY <1>1, <1>2, <1>3, TInvariant, PTL DEF Spec

=============================================================================
