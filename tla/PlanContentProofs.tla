-------------------------- MODULE PlanContentProofs --------------------------
(***************************************************************************)
(* EditLands, for any handlers at once, plans, weeks, cells, texts and     *)
(* edits.                                                                  *)
(*                                                                         *)
(* First the programs: whatever was loaded, the statements of an edit are  *)
(* about its targets, they clear each of them, and what is meant is        *)
(* inserted after the last of them that clears its key.  Then what is left *)
(* of a program while other handlers commit in between.                    *)
(***************************************************************************)
EXTENDS PlanContent, TLAPS

-----------------------------------------------------------------------------
(* Programs.                                                               *)

Clears(s, key) == s.does = "delete" /\ key \in s.keys
Covered(prog, key) == \E s \in prog : Clears(s, key)
Stuck(prog) == \E s \in prog : s.does = "raise"

\* s inserts w, and nothing that is left of the program clears it afterwards.
Brings(prog, s, w) ==
  /\ s.does = "insert" /\ s.keys = {w.key} /\ s.text = w.text
  /\ \A t \in prog : Clears(t, w.key) => t.at < s.at

Row(key, text) == [key |-> key, text |-> text]

\* The statements are about the keys, and insert what is wanted.
About(prog, keys, want) ==
  \A s \in prog : /\ s.at \in Int /\ s.keys \subseteq keys
                  /\ s.does = "insert" => \A key \in s.keys : Row(key, s.text) \in want

\* Unless it fails for sure, a program clears the keys and brings what is wanted.
Clearing(prog, keys) == Stuck(prog) \/ \A key \in keys : Covered(prog, key)
Bringing(prog, want) == Stuck(prog) \/ \A w \in want : \E s \in prog : Brings(prog, s, w)

Sound(prog, keys, want) ==
  About(prog, keys, want) /\ Clearing(prog, keys) /\ Bringing(prog, want)

\* Cells and assignments are apart.
LEMMA KeysApart ==
  /\ \A p, d, s : IsCell(Cell(p, d, s))
  /\ \A p : ~IsCell(Assignments(p))
  /\ \A p, d, s, q, e, t : Cell(p, d, s) = Cell(q, e, t) => p = q /\ d = e /\ s = t
  BY DEF IsCell, Cell, Assignments

\* One cell: cleared at n and filled at n + 1.
LEMMA SlotProgram ==
  ASSUME NEW n \in Int, NEW c, NEW text, NEW prog, prog = SetSlot(n, c, text)
  PROVE  /\ \A s \in prog : /\ s.at \in Int /\ s.keys \subseteq {c}
                            /\ s.does = "insert" => s.text = text /\ text # Blank
                            /\ s.does = "delete" => s.at = n
         /\ Stuck(prog) \/ Covered(prog, c)
         /\ text # Blank =>
              Stuck(prog) \/ \E s \in prog : /\ s.does = "insert" /\ s.keys = {c}
                                             /\ s.text = text /\ s.at = n + 1
  <1>1. CASE c[2] \notin days[c[1]]
    <2>1. prog = {Raise(n)}
      BY <1>1 DEF SetSlot
    <2> QED BY <2>1 DEF Raise, Stuck
  <1>2. CASE c[2] \in days[c[1]]
    <2>1. prog = {Delete(n, {c})} \cup {Insert(n + 1, c, t) : t \in {text} \ {Blank}}
      BY <1>2 DEF SetSlot
    <2>2. Delete(n, {c}) \in prog /\ (text # Blank => Insert(n + 1, c, text) \in prog)
      BY <2>1
    <2>3. \A s \in prog : s = Delete(n, {c}) \/ (s = Insert(n + 1, c, text) /\ text # Blank)
      BY <2>1
    <2>4. /\ Delete(n, {c}).at = n /\ Delete(n, {c}).keys = {c}
          /\ Delete(n, {c}).does = "delete"
          /\ Insert(n + 1, c, text).at = n + 1 /\ Insert(n + 1, c, text).keys = {c}
          /\ Insert(n + 1, c, text).does = "insert" /\ Insert(n + 1, c, text).text = text
      BY DEF Delete, Insert
    <2> QED BY <2>2, <2>3, <2>4 DEF Covered, Clears
  <1> QED BY <1>1, <1>2

\* The cells of a day that had a text when it was loaded.
FullCells(from, source) ==
  {i \in 0 .. SlotsPerDay - 1 : Loaded(Cell(from, source, i)) # Blank}

\* A day: cleared first, then cell by cell.
LEMMA DayProgram ==
  ASSUME NEW n \in Int, NEW p, NEW d, NEW from, NEW source, SlotsPerDay \in Nat,
         NEW prog, prog = CopyDay(n, p, d, from, source)
  PROVE  /\ \A s \in prog :
              /\ s.at \in Int /\ s.keys \subseteq DayCells(p, d)
              /\ s.does = "insert" =>
                   \E i \in FullCells(from, source) :
                     /\ s.keys \subseteq {Cell(p, d, i)}
                     /\ s.text = Loaded(Cell(from, source, i))
         /\ \A key \in DayCells(p, d) : Covered(prog, key)
         /\ \/ Stuck(prog)
            \/ \A i \in FullCells(from, source) : \E s \in prog :
                 Brings(prog, s, Row(Cell(p, d, i), Loaded(Cell(from, source, i))))
  <1> DEFINE full == FullCells(from, source)
             text(i) == Loaded(Cell(from, source, i))
             one(i) == SetSlot(n + 1 + 2 * i, Cell(p, d, i), text(i))
  <1> HIDE DEF text
  <1>1. prog = {Delete(n, DayCells(p, d))} \cup UNION {one(i) : i \in full}
    BY DEF CopyDay, ClearDay, FillDay, FullCells, text
  <1>2. \A i \in full : i \in Int /\ Cell(p, d, i) \in DayCells(p, d) /\ n + 1 + 2 * i \in Int
                        /\ i >= 0
    BY DEF DayCells, FullCells
  <1> DEFINE cell(i) == Cell(p, d, i)
  <1>3. ASSUME NEW i \in full
        PROVE  /\ \A s \in one(i) : /\ s.at \in Int /\ s.keys \subseteq {cell(i)}
                                    /\ s.does = "insert" => s.text = text(i)
                                    /\ s.does = "delete" => s.at = n + 1 + 2 * i
               /\ \/ Stuck(one(i))
                  \/ \E s \in one(i) : /\ s.does = "insert" /\ s.keys = {cell(i)}
                                       /\ s.text = text(i) /\ s.at = n + 1 + 2 * i + 1
    <2> DEFINE m == n + 1 + 2 * i
               c == cell(i)
               filled == one(i)
               value == text(i)
    <2>1. m \in Int /\ filled = SetSlot(m, c, value)
      BY <1>2
    <2> HIDE DEF m, c, filled, value
    <2>2. /\ \A s \in filled :
               /\ s.at \in Int /\ s.keys \subseteq {c}
               /\ s.does = "insert" => s.text = value /\ value # Blank
               /\ s.does = "delete" => s.at = m
          /\ \/ value = Blank \/ Stuck(filled)
             \/ \E s \in filled :
                  s.does = "insert" /\ s.keys = {c} /\ s.text = value /\ s.at = m + 1
      BY <2>1, SlotProgram
    <2>3. text(i) # Blank
      BY DEF text, FullCells
    <2> QED BY <2>2, <2>3 DEF m, c, filled, value
  <1> HIDE DEF one, full
  <1>4. \A s \in prog : s = Delete(n, DayCells(p, d)) \/ \E i \in full : s \in one(i)
    BY <1>1
  <1>5. Delete(n, DayCells(p, d)) \in prog /\ \A i \in full : \A s \in one(i) : s \in prog
    BY <1>1
  <1>6. ASSUME NEW s \in prog
        PROVE  /\ s.at \in Int /\ s.keys \subseteq DayCells(p, d)
               /\ s.does = "insert" =>
                    \E i \in full : s.keys \subseteq {cell(i)} /\ s.text = text(i)
    <2>1. CASE s = Delete(n, DayCells(p, d))
      BY <2>1 DEF Delete
    <2>2. CASE \E i \in full : s \in one(i)
      <3>1. PICK i \in full : s \in one(i)
        BY <2>2
      <3> HIDE DEF cell
      <3>2. cell(i) \in DayCells(p, d)
        BY <1>2 DEF cell
      <3> QED BY <1>3, <3>1, <3>2
    <2> QED BY <1>4, <2>1, <2>2
  <1>7. \A key \in DayCells(p, d) : Covered(prog, key)
    BY <1>5 DEF Covered, Clears, Delete
  <1>8. ASSUME ~Stuck(prog), NEW i \in full
        PROVE  \E s \in prog : Brings(prog, s, Row(cell(i), text(i)))
    <2>1. ~Stuck(one(i))
      BY <1>5, <1>8 DEF Stuck
    <2>2. PICK s \in one(i) : /\ s.does = "insert" /\ s.keys = {cell(i)}
                              /\ s.text = text(i) /\ s.at = n + 1 + 2 * i + 1
      BY <1>3, <2>1
    <2>3. ASSUME NEW t \in prog, t.does = "delete", cell(i) \in t.keys
          PROVE  t.at < s.at
      <3>1. CASE t = Delete(n, DayCells(p, d))
        <4>1. t.at = n
          BY <3>1 DEF Delete
        <4> QED BY <1>2, <2>2, <4>1
      <3>2. CASE \E j \in full : t \in one(j)
        <4>1. PICK j \in full : t \in one(j)
          BY <3>2
        <4>2. cell(i) = cell(j) /\ t.at = n + 1 + 2 * j
          BY <1>3, <2>3, <4>1
        <4>3. i = j
          BY <4>2, KeysApart
        <4> QED BY <1>2, <2>2, <4>2, <4>3
      <3> QED BY <1>4, <3>1, <3>2
    <2>4. s \in prog
      BY <1>5
    <2> QED BY <2>2, <2>3, <2>4 DEF Brings, Clears, Row
  <1> QED BY <1>6, <1>7, <1>8 DEF text, full

LEMMA AssignmentsProgram ==
  ASSUME NEW n \in Int, NEW p, NEW texts
  PROVE  Sound(ReplaceAssignments(n, p, texts), {Assignments(p)},
               {Row(Assignments(p), t) : t \in texts \ {Blank}})
  <1> DEFINE prog == ReplaceAssignments(n, p, texts)
             key == Assignments(p)
             want == {Row(key, t) : t \in texts \ {Blank}}
  <1>1. /\ Delete(n, {key}) \in prog /\ \A t \in texts \ {Blank} : Insert(n + 1, key, t) \in prog
        /\ \A s \in prog : s = Delete(n, {key})
                            \/ \E t \in texts \ {Blank} : s = Insert(n + 1, key, t)
    BY DEF ReplaceAssignments
  <1>2. /\ Delete(n, {key}).at = n /\ Delete(n, {key}).keys = {key}
        /\ Delete(n, {key}).does = "delete"
        /\ \A t : /\ Insert(n + 1, key, t).at = n + 1 /\ Insert(n + 1, key, t).keys = {key}
                   /\ Insert(n + 1, key, t).does = "insert" /\ Insert(n + 1, key, t).text = t
    BY DEF Delete, Insert
  <1>3. \A w \in want : \E t \in texts \ {Blank} : w = Row(key, t)
    OBVIOUS
  <1>4. \A t \in texts \ {Blank} : Row(key, t) \in want
    OBVIOUS
  <1> HIDE DEF prog, key, want
  <1>5. About(prog, {key}, want)
    <2> SUFFICES ASSUME NEW s \in prog
                 PROVE  /\ s.at \in Int /\ s.keys \subseteq {key}
                        /\ s.does = "insert" => Row(key, s.text) \in want
      BY DEF About
    <2>1. CASE s = Delete(n, {key})
      BY <1>2, <2>1
    <2>2. CASE \E t \in texts \ {Blank} : s = Insert(n + 1, key, t)
      BY <1>2, <1>4, <2>2
    <2> QED BY <1>1, <2>1, <2>2
  <1>6. Clearing(prog, {key})
    BY <1>1, <1>2 DEF Clearing, Covered, Clears
  <1>7. ASSUME NEW t \in texts \ {Blank}
        PROVE  Brings(prog, Insert(n + 1, key, t), Row(key, t))
    <2>1. \A s \in prog : Clears(s, key) => s.at = n
      BY <1>1, <1>2 DEF Clears
    <2> QED BY <1>2, <2>1 DEF Brings, Row
  <1>8. Bringing(prog, want)
    BY <1>1, <1>3, <1>7 DEF Bringing
  <1> QED BY <1>5, <1>6, <1>8 DEF Sound, prog, key, want

\* The keys of what an edit has loaded when it begins: a copy of the week loads the
\* assignments later.
FirstTargets(e) == IF e.op = "week" THEN Cells(e.plan) ELSE Targets(e)

LEMMA DayCellsAre ==
  \A p, d : \A key \in DayCells(p, d) :
    /\ IsCell(key) /\ key[1] = p /\ key[2] = d
    /\ key = Cell(p, d, key[3]) /\ key[3] \in 0 .. SlotsPerDay - 1
  <1> SUFFICES ASSUME NEW p, NEW d, NEW s \in 0 .. SlotsPerDay - 1
               PROVE  /\ IsCell(Cell(p, d, s))
                      /\ Cell(p, d, s)[1] = p /\ Cell(p, d, s)[2] = d /\ Cell(p, d, s)[3] = s
    BY DEF DayCells
  <1> QED BY DEF Cell, IsCell

LEMMA SlotSound ==
  ASSUME NEW e, e.op = "slot"
  PROVE  Sound(Program(e), Targets(e), Filled(Meaning(e)))
  <1> DEFINE c == Cell(e.plan, e.day, e.slot)
             prog == SetSlot(0, c, e.text)
  <1>1. Program(e) = prog /\ Targets(e) = {c} /\ Meant(e, c) = e.text
    BY DEF Program, Targets, Meant
  <1>2. IsCell(c)
    BY KeysApart
  <1>3. Meaning(e) = {Row(c, e.text)}
    BY <1>1, <1>2 DEF Meaning, Row
  <1>4. Filled(Meaning(e)) = {w \in {Row(c, e.text)} : e.text # Blank}
    BY <1>3 DEF Filled, Row
  <1> HIDE DEF c, prog
  <1>5. prog = SetSlot(0, c, e.text)
    BY DEF prog
  <1>6. /\ \A s \in prog : /\ s.at \in Int /\ s.keys \subseteq {c}
                           /\ s.does = "insert" => s.text = e.text /\ e.text # Blank
                           /\ s.does = "delete" => s.at = 0
        /\ Stuck(prog) \/ Covered(prog, c)
        /\ e.text # Blank =>
             Stuck(prog) \/ \E s \in prog : /\ s.does = "insert" /\ s.keys = {c}
                                            /\ s.text = e.text /\ s.at = 0 + 1
    BY <1>5, SlotProgram
  <1>7. About(prog, {c}, Filled(Meaning(e)))
    BY <1>4, <1>6 DEF About
  <1>8. Clearing(prog, {c})
    BY <1>6 DEF Clearing
  <1>9. Bringing(prog, Filled(Meaning(e)))
    <2> SUFFICES ASSUME ~Stuck(prog), e.text # Blank
                 PROVE  \E s \in prog : Brings(prog, s, Row(c, e.text))
      BY <1>4 DEF Bringing
    <2>1. PICK s \in prog : s.does = "insert" /\ s.keys = {c} /\ s.text = e.text /\ s.at = 1
      BY <1>6
    <2>2. \A t \in prog : Clears(t, c) => t.at = 0
      BY <1>6 DEF Clears
    <2> QED BY <2>1, <2>2 DEF Brings, Row
  <1> QED BY <1>1, <1>7, <1>8, <1>9 DEF Sound

LEMMA ClearSound ==
  ASSUME NEW e, e.op = "clear"
  PROVE  Sound(Program(e), Targets(e), Filled(Meaning(e)))
  <1> DEFINE keys == DayCells(e.plan, e.day)
  <1>1. Program(e) = {Delete(0, keys)} /\ Targets(e) = keys /\ \A c : Meant(e, c) = Blank
    BY DEF Program, Targets, Meant, ClearDay
  <1>2. Filled(Meaning(e)) = {}
    BY <1>1 DEF Meaning, Filled
  <1> HIDE DEF keys
  <1>3. Delete(0, keys).at = 0 /\ Delete(0, keys).keys = keys /\ Delete(0, keys).does = "delete"
    BY DEF Delete
  <1> QED BY <1>1, <1>2, <1>3 DEF Sound, About, Clearing, Bringing, Covered, Clears

\* The copy of a day brings what was loaded of the source.
LEMMA DaySound ==
  ASSUME NEW n \in Int, NEW p, NEW d, NEW from, NEW source, SlotsPerDay \in Nat,
         NEW prog, prog = CopyDay(n, p, d, from, source),
         NEW want, want = {Row(c, Loaded(Cell(from, source, c[3]))) : c \in DayCells(p, d)}
  PROVE  Sound(prog, DayCells(p, d), Filled(want))
  <1> DEFINE text(i) == Loaded(Cell(from, source, i))
             full == FullCells(from, source)
  <1>1. /\ \A s \in prog :
             /\ s.at \in Int /\ s.keys \subseteq DayCells(p, d)
             /\ s.does = "insert" =>
                  \E i \in full : s.keys \subseteq {Cell(p, d, i)} /\ s.text = text(i)
        /\ \A key \in DayCells(p, d) : Covered(prog, key)
        /\ \/ Stuck(prog)
           \/ \A i \in full : \E s \in prog : Brings(prog, s, Row(Cell(p, d, i), text(i)))
    BY DayProgram
  <1>2. Filled(want) = {Row(Cell(p, d, i), text(i)) : i \in full}
    <2>1. ASSUME NEW w \in Filled(want)
          PROVE  \E i \in full : w = Row(Cell(p, d, i), text(i))
      <3>1. PICK c \in DayCells(p, d) : w = Row(c, text(c[3]))
        BY <2>1 DEF Filled
      <3>2. c = Cell(p, d, c[3]) /\ c[3] \in 0 .. SlotsPerDay - 1
        BY DayCellsAre
      <3>3. text(c[3]) # Blank
        BY <2>1, <3>1 DEF Filled, Row
      <3>4. c[3] \in full
        BY <3>2, <3>3 DEF FullCells
      <3> HIDE DEF text, full
      <3> QED BY <3>1, <3>2, <3>4
    <2>2. ASSUME NEW i \in full
          PROVE  Row(Cell(p, d, i), text(i)) \in Filled(want)
      <3>1. Cell(p, d, i) \in DayCells(p, d) /\ Cell(p, d, i)[3] = i
        BY DEF DayCells, Cell, FullCells
      <3>2. Row(Cell(p, d, i), text(i)) \in want
        BY <3>1
      <3> QED BY <3>2 DEF Filled, Row, FullCells
    <2> HIDE DEF text, full
    <2> QED BY <2>1, <2>2
  <1> HIDE DEF text, full
  <1>3. About(prog, DayCells(p, d), Filled(want))
    <2> SUFFICES ASSUME NEW s \in prog
                 PROVE  /\ s.at \in Int /\ s.keys \subseteq DayCells(p, d)
                        /\ s.does = "insert" =>
                             \A key \in s.keys : Row(key, s.text) \in Filled(want)
      BY DEF About
    <2> QED BY <1>1, <1>2
  <1>4. Clearing(prog, DayCells(p, d))
    BY <1>1 DEF Clearing
  <1>5. Bringing(prog, Filled(want))
    BY <1>1, <1>2 DEF Bringing
  <1> QED BY <1>3, <1>4, <1>5 DEF Sound

LEMMA CopySound ==
  ASSUME NEW e, e.op = "copy", SlotsPerDay \in Nat
  PROVE  Sound(Program(e), Targets(e), Filled(Meaning(e)))
  <1>1. /\ Program(e) = CopyDay(0, e.plan, e.to, e.plan, e.day)
        /\ Targets(e) = DayCells(e.plan, e.to)
    BY DEF Program, Targets
  <1>2. \A c : Meant(e, c) = Loaded(Cell(e.plan, e.day, c[3]))
    BY DEF Meant
  <1>3. Meaning(e) = {Row(c, Loaded(Cell(e.plan, e.day, c[3]))) : c \in DayCells(e.plan, e.to)}
    BY <1>1, <1>2, DayCellsAre DEF Meaning, Row
  <1> QED BY <1>1, <1>3, DaySound

LEMMA AssignmentsSound ==
  ASSUME NEW e, e.op = "assignments"
  PROVE  Sound(Program(e), Targets(e), Filled(Meaning(e)))
  <1>1. /\ Program(e) = ReplaceAssignments(0, e.plan, {e.text})
        /\ Targets(e) = {Assignments(e.plan)}
        /\ Meaning(e) = {Row(Assignments(e.plan), e.text)}
    BY DEF Program, Targets, Meaning, Row
  <1>2. Filled(Meaning(e)) = {Row(Assignments(e.plan), t) : t \in {e.text} \ {Blank}}
    BY <1>1 DEF Filled, Row
  <1> QED BY <1>1, <1>2, AssignmentsProgram

\* The copy of the week is that of its days, which have nothing in common.
LEMMA WeekSound ==
  ASSUME NEW e, e.op = "week"
  PROVE  Sound(Program(e), Cells(e.plan), Filled(Meaning(e)))
  <1> DEFINE p == e.plan
             q == Previous[e.plan]
             day(i) == CopyDay(Place(i), p, Week[i], q, Week[i])
             asks(i) == {Row(c, Loaded(Cell(q, Week[i], c[3]))) : c \in DayCells(p, Week[i])}
             prog == Program(e)
             want == Filled(Meaning(e))
  <1>1. prog = UNION {day(i) : i \in DOMAIN Week}
    BY DEF Program
  <1>2. /\ Targets(e) = Cells(p) \cup {Assignments(p)}
        /\ \A c : Meant(e, c) = Loaded(Cell(q, c[2], c[3]))
    BY DEF Targets, Meant
  <1>3. \A c \in Cells(p) : \E i \in DOMAIN Week : c \in DayCells(p, Week[i])
    BY DEF Cells
  <1>4. \A i \in DOMAIN Week : DayCells(p, Week[i]) \subseteq Cells(p)
    BY DEF Cells
  <1>5. {k \in Targets(e) : IsCell(k)} = Cells(p)
    <2>1. \A c \in Cells(p) : IsCell(c)
      BY <1>3, DayCellsAre
    <2> QED BY <1>2, <2>1, KeysApart
  <1>6. Meaning(e) = {Row(c, Loaded(Cell(q, c[2], c[3]))) : c \in Cells(p)}
    BY <1>2, <1>5 DEF Meaning, Row
  <1>7. \A i \in DOMAIN Week : \A c \in DayCells(p, Week[i]) : c[2] = Week[i]
    BY DayCellsAre
  <1>8. ASSUME NEW i \in DOMAIN Week
        PROVE  Sound(day(i), DayCells(p, Week[i]), Filled(asks(i)))
    <2>1. Place(i) \in Int /\ SlotsPerDay \in Nat
      BY ContentAssumption DEF Place
    <2> QED BY <2>1, DaySound
  <1>9. ASSUME NEW i \in DOMAIN Week, NEW w \in Filled(asks(i))
        PROVE  w \in want /\ w.key \in DayCells(p, Week[i])
    <2>1. PICK c \in DayCells(p, Week[i]) : w = Row(c, Loaded(Cell(q, Week[i], c[3])))
      BY <1>9 DEF Filled
    <2>2. c \in Cells(p) /\ c[2] = Week[i]
      BY <1>4, <1>7
    <2>3. w \in Meaning(e) /\ w.text # Blank
      BY <1>6, <1>9, <2>1, <2>2 DEF Filled
    <2> QED BY <2>1, <2>3 DEF Filled, Row
  <1>10. ASSUME NEW w \in want
         PROVE  \E i \in DOMAIN Week : w \in Filled(asks(i))
    <2>1. PICK c \in Cells(p) : w = Row(c, Loaded(Cell(q, c[2], c[3])))
      BY <1>6, <1>10 DEF Filled
    <2>2. PICK i \in DOMAIN Week : c \in DayCells(p, Week[i])
      BY <1>3
    <2>3. c[2] = Week[i]
      BY <1>7, <2>2
    <2>4. w \in asks(i)
      BY <2>1, <2>2, <2>3
    <2> QED BY <1>10, <2>4 DEF Filled
  <1> HIDE DEF p, q, day, asks, prog, want
  <1>11. About(prog, Cells(p), want)
    <2> SUFFICES ASSUME NEW i \in DOMAIN Week, NEW s \in day(i)
                 PROVE  /\ s.at \in Int /\ s.keys \subseteq Cells(p)
                        /\ s.does = "insert" => \A key \in s.keys : Row(key, s.text) \in want
      BY <1>1 DEF About
    <2> QED BY <1>4, <1>8, <1>9 DEF Sound, About
  <1>12. Clearing(prog, Cells(p))
    BY <1>1, <1>3, <1>8 DEF Sound, Clearing, Stuck, Covered
  <1>13. Bringing(prog, want)
    <2> SUFFICES ASSUME ~Stuck(prog), NEW w \in want
                 PROVE  \E s \in prog : Brings(prog, s, w)
      BY DEF Bringing
    <2>1. PICK i \in DOMAIN Week : w \in Filled(asks(i))
      BY <1>10
    <2>2. ~Stuck(day(i)) /\ day(i) \subseteq prog
      BY <1>1 DEF Stuck
    <2>3. PICK s \in day(i) : Brings(day(i), s, w)
      BY <1>8, <2>1, <2>2 DEF Sound, Bringing
    <2>4. ASSUME NEW t \in prog, Clears(t, w.key)
          PROVE  t \in day(i)
      <3>1. PICK j \in DOMAIN Week : t \in day(j)
        BY <1>1
      <3>2. w.key \in DayCells(p, Week[j])
        BY <1>8, <2>4, <3>1 DEF Sound, About, Clears
      <3>3. Week[i] = Week[j]
        BY <1>7, <1>9, <2>1, <3>2
      <3> QED BY <3>1, <3>3, ContentAssumption
    <2> QED BY <2>2, <2>3, <2>4 DEF Brings
  <1> QED BY <1>11, <1>12, <1>13 DEF Sound, p, prog, want

\* Whatever was loaded, the program of an edit is sound.
LEMMA ProgramSound ==
  ASSUME NEW e \in Requests
  PROVE  Sound(Program(e), FirstTargets(e), Filled(Meaning(e)))
  <1>1. e.op \in {"slot", "clear", "copy", "assignments", "week"} /\ SlotsPerDay \in Nat
    BY ContentAssumption
  <1>2. CASE e.op = "week"
    BY <1>2, WeekSound DEF FirstTargets
  <1>3. CASE e.op # "week"
    BY <1>1, <1>3, SlotSound, ClearSound, CopySound, AssignmentsSound DEF FirstTargets
  <1> QED BY <1>2, <1>3

-----------------------------------------------------------------------------
(* The invariant: what is left of a handler's program.                     *)

Shaped(x) ==
  DOMAIN x = {"pc", "edit", "prog", "doing", "seen", "dead", "new", "want", "began"}

\* What a handler has loaded, its statements and their rows are about its edit.
Faithful(x, n) ==
  /\ x.edit \in Requests /\ x.began \in Nat /\ x.began <= n
  /\ x.pc # "deleting" => x.doing = {}
  /\ x.pc = "list" => /\ x.edit.op = "week" /\ About(x.prog, Cells(x.edit.plan), x.want)
                      /\ \A w \in x.want : w.key \in Cells(x.edit.plan)
  /\ About(x.prog, Targets(x.edit), x.want)
  /\ x.doing \subseteq Targets(x.edit)
  /\ \A r \in x.dead \cup x.seen : r.key \in Targets(x.edit)
  /\ x.new \subseteq x.want
  /\ \A w \in x.want : w = Row(w.key, w.text) /\ w.key \in Targets(x.edit)

\* What is wanted was inserted for good, or will be.
Coming(x) ==
  Stuck(x.prog) \/ \A w \in x.want :
    \/ w \in x.new /\ w.key \notin x.doing /\ ~Covered(x.prog, w.key)
    \/ \E s \in x.prog : Brings(x.prog, s, w)

\* A row that was there is deleted, will be, or came since the handler began.
Going(x, rows) ==
  \A r \in rows :
    r.key \in (IF x.pc = "list" THEN Cells(x.edit.plan) ELSE Targets(x.edit)) =>
      \/ Stuck(x.prog) \/ Covered(x.prog, r.key) \/ r \in x.dead \/ r.by > x.began
      \/ r \in x.seen /\ r.key \in x.doing

Works(x, rows, n) ==
  /\ x.pc \in {"list", "ready", "deleting"}
  /\ Faithful(x, n) /\ Coming(x) /\ Going(x, rows)

EInv ==
  /\ commits \in Nat /\ sess = [h \in Sessions |-> sess[h]]
  /\ \A r \in stored : r.by \in Nat /\ r.by <= commits
  /\ \A h \in Sessions : /\ Shaped(sess[h])
                         /\ sess[h].pc = "idle" \/ Works(sess[h], stored, commits)

LEMMA IdleIs ==
  /\ Shaped(Idle) /\ Idle.pc = "idle" /\ Idle.doing = {} /\ Idle.seen = {} /\ Idle.dead = {}
  /\ Idle.new = {}
  BY DEF Shaped, Idle

\* What others commit meanwhile came since.
LEMMA WorksStill ==
  ASSUME NEW x, NEW rows, NEW n \in Nat, NEW rows2, NEW m \in Nat, Works(x, rows, n), n <= m,
         \A r \in rows2 : r \in rows \/ r.by = n + 1
  PROVE  Works(x, rows2, m)
  <1>1. Faithful(x, m) /\ Coming(x) /\ x.pc \in {"list", "ready", "deleting"}
    BY DEF Works, Faithful
  <1>2. \A r \in rows2 : r \in rows \/ r.by > x.began
    BY DEF Works, Faithful
  <1>3. Going(x, rows2)
    BY <1>2 DEF Works, Going
  <1> QED BY <1>1, <1>3 DEF Works

\* A step of one handler that commits nothing.
LEMMA StepKeeps ==
  ASSUME EInv, NEW h \in Sessions, NEW y, sess' = [sess EXCEPT ![h] = y],
         stored' = stored, commits' = commits, Shaped(y),
         y.pc = "idle" \/ Works(y, stored, commits)
  PROVE  EInv'
  <1>1. /\ sess' = [g \in Sessions |-> sess'[g]] /\ sess'[h] = y
        /\ \A g \in Sessions \ {h} : sess'[g] = sess[g]
    BY DEF EInv
  <1> QED BY <1>1 DEF EInv

LEMMA EInit == ContentInit => EInv
  <1> SUFFICES ASSUME ContentInit PROVE EInv
    OBVIOUS
  <1>1. \A r \in stored : r.by = 0
    BY DEF ContentInit
  <1>2. commits = 0 /\ sess = [h \in Sessions |-> Idle]
    BY DEF ContentInit
  <1> QED BY <1>1, <1>2, IdleIs DEF EInv

LEMMA BeginWorks ==
  ASSUME EInv, NEW h \in Sessions, NEW e \in Requests, BeginEdit(h, e)
  PROVE  EInv'
  <1> DEFINE prog == Program(e)
             want == Filled(Meaning(e))
             pc == IF e.op = "week" THEN "list" ELSE "ready"
             y == [Idle EXCEPT !.pc = pc, !.edit = e, !.prog = prog, !.want = want,
                               !.began = commits]
  <1>1. sess' = [sess EXCEPT ![h] = y] /\ stored' = stored /\ commits' = commits
    BY Zenon DEF BeginEdit
  <1>2. Sound(prog, FirstTargets(e), want)
    BY ProgramSound
  <1>3. \A w \in want : w = Row(w.key, w.text) /\ w.key \in FirstTargets(e)
    <2>1. CASE e.op = "assignments"
      <3>1. want \subseteq {Row(Assignments(e.plan), e.text)}
        BY <2>1 DEF Meaning, Filled, Row
      <3>2. FirstTargets(e) = {Assignments(e.plan)}
        BY <2>1 DEF FirstTargets, Targets
      <3> QED BY <3>1, <3>2 DEF Row
    <2>2. CASE e.op # "assignments"
      <3>1. ASSUME NEW w \in want
            PROVE  \E c \in Targets(e) : IsCell(c) /\ w = Row(c, Meant(e, c))
        BY <2>2 DEF Meaning, Filled, Row
      <3>2. \A c \in Targets(e) : IsCell(c) => c \in FirstTargets(e)
        <4>1. CASE e.op = "week"
          <5>1. Targets(e) = Cells(e.plan) \cup {Assignments(e.plan)}
            BY <4>1 DEF Targets
          <5> QED BY <4>1, <5>1, KeysApart DEF FirstTargets
        <4>2. CASE e.op # "week"
          BY <4>2 DEF FirstTargets
        <4> QED BY <4>1, <4>2
      <3> HIDE DEF want
      <3> QED BY <3>1, <3>2 DEF Row
    <2> QED BY <2>1, <2>2
  <1>4. FirstTargets(e) \subseteq Targets(e)
    <2>1. CASE e.op = "week"
      BY <2>1 DEF FirstTargets, Targets
    <2>2. CASE e.op # "week"
      BY <2>2 DEF FirstTargets
    <2> QED BY <2>1, <2>2
  <1>5. y.pc = pc /\ y.edit = e /\ y.prog = prog /\ y.doing = {} /\ y.seen = {} /\ y.dead = {}
        /\ y.new = {} /\ y.want = want /\ y.began = commits /\ Shaped(y)
    <2> HIDE DEF prog, want, pc
    <2> QED BY IdleIs DEF Shaped
  <1> HIDE DEF prog, want, y
  <1>6. About(prog, Targets(e), want)
    BY <1>2, <1>4 DEF Sound, About
  <1>7. pc = "list" => e.op = "week" /\ FirstTargets(e) = Cells(e.plan)
    BY DEF FirstTargets
  <1>8. Faithful(y, commits)
    BY <1>2, <1>3, <1>4, <1>5, <1>6, <1>7 DEF Faithful, Sound, EInv
  <1>9. Coming(y)
    BY <1>2, <1>5 DEF Coming, Sound, Bringing
  <1>10. Going(y, stored)
    BY <1>2, <1>5 DEF Going, Sound, Clearing, FirstTargets
  <1>11. Works(y, stored, commits)
    BY <1>5, <1>8, <1>9, <1>10 DEF Works
  <1> QED BY <1>1, <1>5, <1>11, StepKeeps

\* A cell of the week is a cell.
LEMMA CellsAre ==
  \A p : \A key \in Cells(p) : IsCell(key)
  BY DayCellsAre DEF Cells

LEMMA LoadWorks ==
  ASSUME EInv, NEW h \in Sessions, LoadAssignments(h)
  PROVE  EInv'
  <1> DEFINE x == sess[h]
             p == x.edit.plan
             key == Assignments(p)
             texts == {r.text : r \in {z \in stored : z.key = Assignments(Previous[p])}}
             more == ReplaceAssignments(Place(Len(Week) + 1), p, texts)
             asks == Filled({[key |-> key, text |-> t] : t \in texts})
             y == [x EXCEPT !.pc = "ready", !.prog = @ \cup more, !.want = @ \cup asks]
  <1>1. x.pc = "list" /\ stored' = stored /\ commits' = commits
    BY DEF LoadAssignments, Is
  <1>2. sess' = [sess EXCEPT ![h] = y]
    BY Zenon DEF LoadAssignments
  <1>3. Shaped(x) /\ Works(x, stored, commits)
    BY <1>1 DEF EInv
  <1>4. Place(Len(Week) + 1) \in Int
    BY ContentAssumption DEF Place
  <1>5. asks = {Row(key, t) : t \in texts \ {Blank}}
    <2> HIDE DEF texts, key
    <2> QED BY DEF Filled, Row
  <1>6. Sound(more, {key}, asks)
    <2> HIDE DEF texts, asks
    <2> QED BY <1>4, <1>5, AssignmentsProgram
  <1>7. \A w \in asks : w = Row(w.key, w.text) /\ w.key = key
    BY <1>5 DEF Row
  <1>8. x.edit.op = "week" /\ Targets(x.edit) = Cells(p) \cup {key} /\ key \notin Cells(p)
    BY <1>1, <1>3, KeysApart, CellsAre DEF Works, Faithful, Targets
  <1> HIDE DEF texts, more, asks, key, p
  <1>9. /\ y.pc = "ready" /\ y.prog = x.prog \cup more /\ y.want = x.want \cup asks
        /\ y.edit = x.edit /\ y.doing = x.doing /\ y.seen = x.seen /\ y.dead = x.dead
        /\ y.new = x.new /\ y.began = x.began /\ Shaped(y)
    BY <1>3 DEF Shaped
  <1> HIDE DEF y
  <1>10. /\ About(x.prog, Cells(p), x.want) /\ About(x.prog, Targets(x.edit), x.want)
         /\ \A w \in x.want : w.key \in Cells(p)
    BY <1>1, <1>3 DEF Works, Faithful, p
  <1>11. About(y.prog, Targets(y.edit), y.want)
    BY <1>6, <1>8, <1>9, <1>10 DEF About, Sound
  <1>12. Faithful(y, commits)
    <2>1. /\ \A w \in x.want : w = Row(w.key, w.text)
          /\ x.edit \in Requests /\ x.began \in Nat /\ x.began <= commits
          /\ x.doing = {} /\ (\A r \in x.dead \cup x.seen : r.key \in Targets(x.edit))
          /\ x.new \subseteq x.want
      BY <1>1, <1>3 DEF Works, Faithful
    <2>2. \A w \in y.want : w = Row(w.key, w.text) /\ w.key \in Targets(y.edit)
      BY <1>7, <1>8, <1>9, <1>10, <2>1
    <2> QED BY <1>9, <1>11, <2>1, <2>2 DEF Faithful
  <1>13. Coming(y)
    <2> SUFFICES ASSUME ~Stuck(y.prog), NEW w \in y.want
                 PROVE  \/ w \in y.new /\ w.key \notin y.doing /\ ~Covered(y.prog, w.key)
                        \/ \E s \in y.prog : Brings(y.prog, s, w)
      BY DEF Coming
    <2>1. ~Stuck(x.prog) /\ ~Stuck(more)
      BY <1>9 DEF Stuck
    <2>2. CASE w \in asks
      <3>1. PICK s \in more : Brings(more, s, w)
        BY <1>6, <2>1, <2>2 DEF Sound, Bringing
      <3>2. \A t \in x.prog : ~Clears(t, w.key)
        BY <1>7, <1>8, <1>10, <2>2 DEF About, Clears
      <3> QED BY <1>9, <3>1, <3>2 DEF Brings
    <2>3. CASE w \in x.want
      <3>1. \A t \in more : ~Clears(t, w.key)
        BY <1>6, <1>8, <1>10, <2>3 DEF Sound, About, Clears
      <3>2. \/ w \in x.new /\ w.key \notin x.doing /\ ~Covered(x.prog, w.key)
            \/ \E s \in x.prog : Brings(x.prog, s, w)
        BY <1>3, <2>1, <2>3 DEF Works, Coming
      <3> QED BY <1>9, <3>1, <3>2 DEF Brings, Covered
    <2> QED BY <1>9, <2>2, <2>3
  <1>14. Going(y, stored)
    <2> SUFFICES ASSUME ~Stuck(y.prog), NEW r \in stored, r.key \in Targets(x.edit)
                 PROVE  \/ Covered(y.prog, r.key) \/ r \in y.dead \/ r.by > y.began
                        \/ r \in y.seen /\ r.key \in y.doing
      BY <1>9 DEF Going
    <2>1. ~Stuck(x.prog) /\ ~Stuck(more)
      BY <1>9 DEF Stuck
    <2>2. CASE r.key = key
      BY <1>6, <1>9, <2>1, <2>2 DEF Sound, Clearing, Covered
    <2>3. CASE r.key \in Cells(p)
      BY <1>1, <1>3, <1>9, <2>1, <2>3 DEF Works, Going, Covered, p
    <2> QED BY <1>8, <2>2, <2>3
  <1>15. Works(y, stored, commits)
    BY <1>9, <1>12, <1>13, <1>14 DEF Works
  <1> QED BY <1>1, <1>2, <1>9, <1>15, StepKeeps

LEMMA LookWorks ==
  ASSUME EInv, NEW h \in Sessions, Look(h)
  PROVE  EInv'
  <1> DEFINE x == sess[h]
  <1>1. PICK s \in Due(h, "delete") :
          sess' = [sess EXCEPT ![h] = [x EXCEPT
            !.pc = "deleting", !.prog = @ \ {s}, !.doing = s.keys,
            !.seen = {r \in stored : r.key \in s.keys} \ sess[h].dead]]
    BY ZenonT(30) DEF Look
  <1> DEFINE rows == {r \in stored : r.key \in s.keys} \ x.dead
             y == [x EXCEPT !.pc = "deleting", !.prog = @ \ {s}, !.doing = s.keys, !.seen = rows]
  <1>2. sess' = [sess EXCEPT ![h] = y] /\ stored' = stored /\ commits' = commits
    BY <1>1, Zenon DEF Look
  <1>3. x.pc = "ready" /\ Shaped(x) /\ Works(x, stored, commits)
    BY DEF Look, Is, EInv
  <1>4. s \in x.prog /\ s.does = "delete" /\ \A t \in x.prog : s.at <= t.at
    BY DEF Due
  <1>5. \A r \in rows : r \in stored /\ r.key \in s.keys
    OBVIOUS
  <1>6. \A r \in stored : r.key \in s.keys => r \in rows \/ r \in x.dead
    OBVIOUS
  <1> HIDE DEF rows
  <1>7. /\ y.pc = "deleting" /\ y.prog = x.prog \ {s} /\ y.doing = s.keys /\ y.seen = rows
        /\ y.edit = x.edit /\ y.dead = x.dead /\ y.new = x.new /\ y.want = x.want
        /\ y.began = x.began /\ Shaped(y)
    BY <1>3 DEF Shaped
  <1> HIDE DEF y
  <1>8. Faithful(y, commits)
    <2>1. About(y.prog, Targets(y.edit), y.want)
      <3>1. About(x.prog, Targets(x.edit), x.want)
        BY <1>3 DEF Works, Faithful
      <3> QED BY <1>7, <3>1 DEF About
    <2>2. s.keys \subseteq Targets(x.edit)
      BY <1>3, <1>4 DEF Works, Faithful, About
    <2> QED BY <1>3, <1>5, <1>7, <2>1, <2>2 DEF Works, Faithful
  <1>9. Stuck(y.prog) <=> Stuck(x.prog)
    BY <1>4, <1>7 DEF Stuck
  <1>10. Coming(y)
    <2> SUFFICES ASSUME ~Stuck(x.prog), NEW w \in x.want
                 PROVE  \/ w \in x.new /\ w.key \notin s.keys /\ ~Covered(y.prog, w.key)
                        \/ \E t \in y.prog : Brings(y.prog, t, w)
      BY <1>7, <1>9 DEF Coming
    <2>1. CASE w \in x.new /\ ~Covered(x.prog, w.key)
      BY <1>4, <1>7, <2>1 DEF Covered, Clears
    <2>2. CASE \E t \in x.prog : Brings(x.prog, t, w)
      BY <1>4, <1>7, <2>2 DEF Brings
    <2> QED BY <1>3, <2>1, <2>2 DEF Works, Coming
  <1>11. Going(y, stored)
    <2> SUFFICES ASSUME ~Stuck(x.prog), NEW r \in stored, r.key \in Targets(x.edit)
                 PROVE  \/ Covered(y.prog, r.key) \/ r \in x.dead \/ r.by > x.began
                        \/ r \in rows /\ r.key \in s.keys
      BY <1>7, <1>9 DEF Going
    <2>1. x.doing = {}
      BY <1>3 DEF Works, Faithful
    <2>2. Covered(x.prog, r.key) \/ r \in x.dead \/ r.by > x.began
      BY <1>3, <2>1 DEF Works, Going
    <2>3. CASE Covered(x.prog, r.key)
      BY <1>6, <1>7, <2>3 DEF Covered, Clears
    <2> QED BY <2>2, <2>3
  <1>12. Works(y, stored, commits)
    BY <1>7, <1>8, <1>10, <1>11 DEF Works
  <1> QED BY <1>2, <1>7, <1>12, StepKeeps

LEMMA StrikeWorks ==
  ASSUME EInv, NEW h \in Sessions, Strike(h)
  PROVE  EInv'
  <1> DEFINE x == sess[h]
             gone == x.seen \cap stored
             kept == {n \in x.new : n.key \notin x.doing}
             y == [x EXCEPT !.pc = "ready", !.seen = {}, !.doing = {}, !.dead = @ \cup gone,
                            !.new = kept]
  <1>1. x.pc = "deleting" /\ stored' = stored /\ commits' = commits
    BY DEF Strike, Is
  <1>2. sess' = [sess EXCEPT ![h] = y]
    BY Zenon DEF Strike
  <1>3. Shaped(x) /\ Works(x, stored, commits)
    BY <1>1 DEF EInv
  <1>4. \A w : w \in kept <=> w \in x.new /\ w.key \notin x.doing
    OBVIOUS
  <1>5. \A r : r \in gone <=> r \in x.seen /\ r \in stored
    OBVIOUS
  <1> HIDE DEF gone, kept
  <1>6. /\ y.pc = "ready" /\ y.seen = {} /\ y.doing = {} /\ y.dead = x.dead \cup gone
        /\ y.new = kept /\ y.prog = x.prog /\ y.edit = x.edit /\ y.want = x.want
        /\ y.began = x.began /\ Shaped(y)
    BY <1>3 DEF Shaped
  <1> HIDE DEF y
  <1>7. Faithful(y, commits)
    BY <1>3, <1>4, <1>5, <1>6 DEF Works, Faithful
  <1>8. Coming(y)
    BY <1>3, <1>4, <1>6 DEF Works, Coming
  <1>9. Going(y, stored)
    BY <1>1, <1>3, <1>5, <1>6 DEF Works, Going
  <1>10. Works(y, stored, commits)
    BY <1>6, <1>7, <1>8, <1>9 DEF Works
  <1> QED BY <1>1, <1>2, <1>6, <1>10, StepKeeps

\* An INSERT runs when no DELETE is left that runs before it.
LEMMA AddWorks ==
  ASSUME EInv, NEW h \in Sessions, Add(h)
  PROVE  EInv'
  <1> DEFINE x == sess[h]
  <1>1. PICK s \in Due(h, "insert") :
          sess' = [sess EXCEPT ![h] = [x EXCEPT
            !.prog = @ \ {s},
            !.new = @ \cup {[key |-> key, text |-> s.text] : key \in s.keys}]]
    BY ZenonT(30) DEF Add
  <1> DEFINE rows == {Row(key, s.text) : key \in s.keys}
             y == [x EXCEPT !.prog = @ \ {s}, !.new = @ \cup rows]
  <1>2. sess' = [sess EXCEPT ![h] = y] /\ stored' = stored /\ commits' = commits
    BY <1>1, Zenon DEF Add, Row
  <1>3. x.pc = "ready" /\ Shaped(x) /\ Works(x, stored, commits)
    BY DEF Add, Is, EInv
  <1>4. s \in x.prog /\ s.does = "insert" /\ \A t \in x.prog : s.at <= t.at
    BY DEF Due
  <1>5. \A key \in s.keys : Row(key, s.text) \in rows
    OBVIOUS
  <1>6. About(x.prog, Targets(x.edit), x.want) /\ x.doing = {}
    BY <1>3 DEF Works, Faithful
  <1>7. rows \subseteq x.want
    BY <1>4, <1>6 DEF About
  <1> HIDE DEF rows
  <1>8. /\ y.prog = x.prog \ {s} /\ y.new = x.new \cup rows /\ y.pc = "ready"
        /\ y.doing = x.doing /\ y.seen = x.seen /\ y.edit = x.edit /\ y.dead = x.dead
        /\ y.want = x.want /\ y.began = x.began /\ Shaped(y)
    BY <1>3 DEF Shaped
  <1> HIDE DEF y
  <1>9. Faithful(y, commits)
    <2>1. About(y.prog, Targets(y.edit), y.want)
      BY <1>6, <1>8 DEF About
    <2> QED BY <1>3, <1>7, <1>8, <2>1 DEF Works, Faithful
  <1>10. Stuck(y.prog) <=> Stuck(x.prog)
    BY <1>4, <1>8 DEF Stuck
  <1>11. Coming(y)
    <2> SUFFICES ASSUME ~Stuck(x.prog), NEW w \in x.want
                 PROVE  \/ w \in y.new /\ w.key \notin y.doing /\ ~Covered(y.prog, w.key)
                        \/ \E t \in y.prog : Brings(y.prog, t, w)
      BY <1>8, <1>10 DEF Coming
    <2>1. CASE w \in x.new /\ ~Covered(x.prog, w.key)
      BY <1>6, <1>8, <2>1 DEF Covered
    <2>2. CASE Brings(x.prog, s, w)
      <3>1. ~Covered(x.prog, w.key)
        <4> SUFFICES ASSUME NEW t \in x.prog, Clears(t, w.key)
                     PROVE  FALSE
          BY DEF Covered
        <4>1. t.at < s.at /\ s.at <= t.at /\ s.at \in Int /\ t.at \in Int
          BY <1>4, <1>6, <2>2 DEF Brings, About
        <4> QED BY <4>1
      <3>2. w \in rows
        <4>1. w = Row(w.key, w.text)
          BY <1>3 DEF Works, Faithful
        <4> QED BY <1>5, <2>2, <4>1 DEF Brings
      <3> QED BY <1>6, <1>8, <3>1, <3>2 DEF Covered
    <2>3. CASE \E t \in x.prog \ {s} : Brings(x.prog, t, w)
      BY <1>8, <2>3 DEF Brings
    <2> QED BY <1>3, <2>1, <2>2, <2>3 DEF Works, Coming
  <1>12. Going(y, stored)
    <2>1. \A key : Covered(x.prog, key) => Covered(y.prog, key)
      BY <1>4, <1>8 DEF Covered, Clears
    <2> QED BY <1>3, <1>8, <1>10, <2>1 DEF Works, Going
  <1>13. Works(y, stored, commits)
    BY <1>8, <1>9, <1>11, <1>12 DEF Works
  <1> QED BY <1>2, <1>8, <1>13, StepKeeps

LEMMA RollbackKeeps ==
  ASSUME EInv, NEW h \in Sessions, Rollback(h)
  PROVE  EInv'
  <1>1. sess' = [sess EXCEPT ![h] = Idle] /\ stored' = stored /\ commits' = commits
    BY DEF Rollback
  <1> QED BY <1>1, IdleIs, StepKeeps

LEMMA CommitKeeps ==
  ASSUME EInv, NEW h \in Sessions, CommitEdit(h)
  PROVE  EInv'
  <1>1. sess' = [sess EXCEPT ![h] = Idle] /\ commits' = commits + 1
    BY DEF CommitEdit
  <1>2. commits \in Nat /\ commits' \in Nat /\ commits <= commits'
    BY <1>1 DEF EInv
  <1>3. \A r \in stored' : r \in stored \/ r.by = commits + 1
    BY <1>1 DEF CommitEdit
  <1>4. \A r \in stored' : r.by \in Nat /\ r.by <= commits'
    BY <1>1, <1>2, <1>3 DEF EInv
  <1>5. /\ sess' = [g \in Sessions |-> sess'[g]] /\ sess'[h] = Idle
        /\ \A g \in Sessions \ {h} : sess'[g] = sess[g]
    BY <1>1 DEF EInv
  <1>6. ASSUME NEW g \in Sessions \ {h}
        PROVE  /\ Shaped(sess'[g])
               /\ sess'[g].pc = "idle" \/ Works(sess'[g], stored', commits')
    <2>1. Shaped(sess[g]) /\ (sess[g].pc = "idle" \/ Works(sess[g], stored, commits))
      BY DEF EInv
    <2> QED BY <1>2, <1>3, <1>5, <2>1, WorksStill
  <1>7. \A g \in Sessions : /\ Shaped(sess'[g])
                            /\ sess'[g].pc = "idle" \/ Works(sess'[g], stored', commits')
    BY <1>5, <1>6, IdleIs
  <1> QED BY <1>2, <1>4, <1>5, <1>7 DEF EInv

LEMMA NextKeeps == EInv /\ [ContentNext]_cvars => EInv'
  <1> SUFFICES ASSUME EInv, [ContentNext]_cvars
               PROVE  EInv'
    OBVIOUS
  <1>1. CASE UNCHANGED cvars
    BY <1>1 DEF cvars, EInv, Works, Going, Faithful
  <1>2. CASE ContentNext
    <2>1. PICK h \in Sessions :
            \/ \E e \in Requests : BeginEdit(h, e)
            \/ LoadAssignments(h)
            \/ Look(h) \/ Strike(h) \/ Add(h)
            \/ CommitEdit(h) \/ Rollback(h)
      BY <1>2 DEF ContentNext
    <2> QED BY <2>1, BeginWorks, LoadWorks, LookWorks, StrikeWorks, AddWorks, CommitKeeps,
               RollbackKeeps
  <1> QED BY <1>1, <1>2

-----------------------------------------------------------------------------
(* The property.                                                           *)

\* An edit that is committed changes nothing but its targets, and they hold what
\* was meant, or what other handlers committed since it began (the handlers of
\* PlanManager and the statements of PlanRepository).
THEOREM EditsLand == ContentSpec => EditLands
  <1>1. ContentInit => EInv
    BY EInit
  <1>2. EInv /\ [ContentNext]_cvars => EInv'
    BY NextKeeps
  <1>3. ASSUME EInv, NEW h \in Sessions, CommitEdit(h)
        PROVE  LET x == sess[h]
               IN /\ \A r \in (stored \ stored') \cup (stored' \ stored) :
                       r.key \in Targets(x.edit)
                  /\ \A w \in x.want : \E r \in stored' : r.key = w.key /\ r.text = w.text
                  /\ \A r \in stored' : r.key \in Targets(x.edit) =>
                       \/ [key |-> r.key, text |-> r.text] \in x.want
                       \/ r.by \in x.began + 1 .. commits
    <2> DEFINE x == sess[h]
               new == {[key |-> n.key, text |-> n.text, by |-> commits'] : n \in x.new}
    <2>1. x.pc = "ready" /\ x.prog = {} /\ stored' = (stored \ x.dead) \cup new
      BY <1>3 DEF CommitEdit, Is
    <2>2. Works(x, stored, commits) /\ x.doing = {}
      BY <1>3, <2>1 DEF EInv, Works, Faithful
    <2>3. x.new = x.want /\ \A w \in x.want : w = Row(w.key, w.text) /\ w.key \in Targets(x.edit)
      BY <2>1, <2>2 DEF Works, Faithful, Coming, Stuck, Brings
    <2>4. \A r \in x.dead : r.key \in Targets(x.edit)
      BY <2>2 DEF Works, Faithful
    <2>5. \A r \in stored : r.key \in Targets(x.edit) => r \in x.dead \/ r.by > x.began
      BY <2>1, <2>2 DEF Works, Going, Stuck, Covered
    <2>6. x.began \in Nat /\ commits \in Nat /\ \A r \in stored : r.by \in Nat /\ r.by <= commits
      BY <1>3, <2>2 DEF EInv, Works, Faithful
    <2>7. \A r \in new : \E w \in x.want : r.key = w.key /\ r.text = w.text
      BY <2>3
    <2>8. \A w \in x.want : \E r \in new : r.key = w.key /\ r.text = w.text
      <3>1. \A n \in x.new : \E r \in new : r.key = n.key /\ r.text = n.text
        <4> TAKE n \in x.new
        <4> WITNESS [key |-> n.key, text |-> n.text, by |-> commits'] \in new
        <4> QED OBVIOUS
      <3> HIDE DEF x, new
      <3> QED BY <2>3, <3>1
    <2> HIDE DEF x, new
    <2>9. \A r \in (stored \ stored') \cup (stored' \ stored) : r.key \in Targets(x.edit)
      BY <2>1, <2>3, <2>4, <2>7
    <2>10. \A r \in stored' : r.key \in Targets(x.edit) =>
             \/ [key |-> r.key, text |-> r.text] \in x.want
             \/ r.by \in x.began + 1 .. commits
      BY <2>1, <2>3, <2>5, <2>6, <2>7 DEF Row
    <2> QED BY <2>1, <2>8, <2>9, <2>10 DEF x
  <1>4. EInv /\ [ContentNext]_cvars =>
          [\A h \in Sessions : CommitEdit(h) =>
             LET x == sess[h]
             IN /\ \A r \in (stored \ stored') \cup (stored' \ stored) :
                     r.key \in Targets(x.edit)
                /\ \A w \in x.want : \E r \in stored' : r.key = w.key /\ r.text = w.text
                /\ \A r \in stored' : r.key \in Targets(x.edit) =>
                     \/ [key |-> r.key, text |-> r.text] \in x.want
                     \/ r.by \in x.began + 1 .. commits]_cvars
    BY <1>3
  <1> QED BY <1>1, <1>2, <1>4, PTL DEF ContentSpec, EditLands

=============================================================================
