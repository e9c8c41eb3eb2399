---------------------------- MODULE MCBotProcess ----------------------------
(* Small instances of BotProcess.                                           *)
EXTENDS BotProcess

CONSTANTS k1, a1, a2, h1, h2, t1, t2, u1, u2

MCKeys == {k1}
MCAdmins == {a1, a2}
MCHandlers == {h1, h2}
MCTaps == {t1, t2}
MCUploads == {u1, u2}

\* Two tables, a column of the first and a column of the second.
MCChain == 1..4
MCTableOf == <<1, 2, 1, 2>>

At3 == [have |-> 1..3, rev |-> 3]
At2 == [have |-> 1..2, rev |-> 2]
Empty == [have |-> {}, rev |-> 0]
NoData == [plans |-> {}, days |-> {}, users |-> {}]
One == [plans |-> {k1}, days |-> {k1}, users |-> {}]
Old == [data |-> One, schema |-> At2]
Recent == [data |-> One, schema |-> At3]
Newer == [data |-> NoData, schema |-> [have |-> 1..4, rev |-> 4]]
Rowless == [data |-> NoData, schema |-> [have |-> 1..2, rev |-> 0]]

Plain == [schema |-> At3, data |-> NoData, head |-> 3, heads |-> 3, onStart |-> TRUE,
          autocreate |-> TRUE, redis |-> FALSE, files |-> {Recent}, uploads |-> {u1},
          admins |-> {a1}, renamed |-> {}, taps |-> {t1}, handlers |-> {h1}, slots |-> 1,
          updates |-> 4, stops |-> 0, faults |-> 0]

\* A restore beside updates: of one admin, of one admin who taps twice, of two.
Beside == [Plain EXCEPT !.handlers = {h1, h2}, !.faults = 1, !.renamed = {a1}]
Twice == [Plain EXCEPT !.renamed = {a1}, !.taps = {t1, t2}]
TwoAdmins == [Plain EXCEPT !.data = One, !.admins = {a1, a2},
                           !.taps = {t1, t2}, !.uploads = {u1, u2}]
\* Shutdown, crash and restart, with one render slot.
Restarts == [Plain EXCEPT !.handlers = {h1, h2}, !.stops = 1, !.faults = 1, !.redis = TRUE]
\* Boots and deploys on schemas of any age, with and without the ORM.
Boots == {[Plain EXCEPT !.schema = s, !.head = 2, !.heads = 4, !.onStart = o,
                        !.autocreate = c, !.stops = 2, !.updates = 2,
                        !.files = {Old, Newer, Rowless, Damaged}]
            : s \in {Empty, At2, Rowless.schema}, o \in BOOLEAN, c \in BOOLEAN}

MCSites == {Beside, Twice, TwoAdmins, Restarts} \cup Boots

\* The restore of an archive that is older than the code.
MCOlder == {[Plain EXCEPT !.files = {Old}]}
=============================================================================
