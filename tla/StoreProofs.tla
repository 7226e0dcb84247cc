---------------------------- MODULE StoreProofs ----------------------------
(***************************************************************************)
(* Proofs about the table of History: that imports never repeat a row and  *)
(* never give one a time after what is typed later, and that a session     *)
(* none of whose requests was lost or overtaken has every exit code at its *)
(* command.                                                                *)
(***************************************************************************)
EXTENDS HistoryProofs

\* The ids a step inserts.
NewIds == DOMAIN rows' \ DOMAIN rows

\* What an import appends: entries of the file that no import has inserted,
\* each once, in the order of the file.
LEMMA ImportedFrom ==
  ASSUME TypeOK, NEW file \in ImportFiles, Import(file)
  PROVE  \E p \in [NewIds -> Fresh(file)] :
           /\ \A i, j \in NewIds : i < j => p[i] < p[j]
           /\ \A i \in NewIds : /\ rows'[i].session = Importer
                                /\ rows'[i].n = file[p[i]].n
                                /\ rows'[i].ts = TimeOf(file, p[i], clock)
<1>1. rows \in Seq(Row) /\ clock \in Nat
  BY DEF TypeOK
<1>2. PICK s \in Seq(Row) : /\ rows' = rows \o s
                            /\ \A a \in 1..Len(s) : s[a].session = Importer
                            /\ \E p \in [1..Len(s) -> Fresh(file)] : InFileOrder(file, s, p)
  BY <1>1, ImportType
<1>3. PICK p \in [1..Len(s) -> Fresh(file)] : InFileOrder(file, s, p)
  BY <1>2
<1>4. /\ \A a, b \in 1..Len(s) : a < b => p[a] < p[b]
      /\ \A a \in 1..Len(s) : s[a].n = file[p[a]].n /\ s[a].ts = TimeOf(file, p[a], clock)
  BY <1>3 DEF InFileOrder
<1> DEFINE old == Len(rows)
           q   == [i \in NewIds |-> p[i - old]]
<1>5. NewIds = (old + 1)..(old + Len(s)) /\ old \in Nat /\ Len(s) \in Nat
  BY <1>1, <1>2 DEF NewIds
<1>6. \A i \in NewIds : rows'[i] = s[i - old] /\ i - old \in 1..Len(s) /\ i \in Nat
  BY <1>1, <1>2, <1>5
<1> HIDE DEF old
<1>7. q \in [NewIds -> Fresh(file)]
  BY <1>3, <1>4, <1>6
<1>8. ASSUME NEW i \in NewIds, NEW j \in NewIds, i < j PROVE q[i] < q[j]
  <2>1. i - old < j - old
    BY <1>5, <1>6, <1>8
  <2> QED BY <1>4, <1>6, <2>1
<1>9. ASSUME NEW i \in NewIds
      PROVE  /\ rows'[i].session = Importer /\ rows'[i].n = file[q[i]].n
             /\ rows'[i].ts = TimeOf(file, q[i], clock)
  BY <1>2, <1>4, <1>6
<1> QED BY <1>7, <1>8, <1>9

\* No entry of a file gets a time that is not yet.
LEMMA TimeOfPast ==
  ASSUME clock \in Nat, NEW file \in ImportFiles, NEW k \in DOMAIN file,
         \A j \in Timed(file) : file[j].ts <= clock
  PROVE  TimeOf(file, k, clock) <= clock
<1>1. CASE k \in Timed(file)
  BY <1>1 DEF TimeOf
<1>2. CASE k \notin Timed(file)
  <2>1. k \in DOMAIN file \ Timed(file)
    BY <1>2
  <2>2. PICK lo, hi \in Int, d, b \in Nat \ {0} :
          /\ d < b /\ TimeOf(file, k, clock) = lo + Quotient((hi - lo) * d, b)
          /\ hi <= clock \/ \E j \in Timed(file) : hi = file[j].ts
          /\ lo <= hi \/ \E j \in Timed(file) : lo = file[j].ts
    BY <2>1, TimeOfParts, Zenon
  <2>3. hi <= clock /\ (lo <= hi \/ lo <= clock)
    BY <2>2
  <2>4. Quotient((hi - lo) * d, b) <= IF hi - lo >= 0 THEN hi - lo ELSE 0
    <3>1. hi - lo \in Int /\ b \in Nat
      OBVIOUS
    <3> QED BY <2>2, <3>1, QuotientBelow
  <2>5. Quotient((hi - lo) * d, b) \in Int
    <3>1. (hi - lo) * d \in Int
      OBVIOUS
    <3> QED BY <3>1, QuotientType
  <2> QED BY <2>2, <2>3, <2>4, <2>5
<1> QED BY <1>1, <1>2

-----------------------------------------------------------------------------
(***************************************************************************)
(* Times and imports.  ImportsLieBehind is not inductive: a command is     *)
(* inserted at the clock, so that every row must lie in the past.          *)
(***************************************************************************)

\* No row is of a time that is not yet.
AllPast == \A i \in Ids : rows[i].ts <= clock

TableInv == TypeOK /\ AllPast /\ ImportsLieBehind /\ ImportIsIdempotent

\* What a step does to the table and the clock.
LEMMA TableStep ==
  ASSUME TypeOK, [Next]_vars
  PROVE  /\ clock \in Nat /\ clock' \in Nat /\ clock <= clock'
         /\ \/ rows' = rows
            \/ \E m \in execs : Exec(m) /\ ShouldRecord(m.kind)
            \/ \E m \in dones, paused \in BOOLEAN : Done(m, paused)
            \/ \E file \in ImportFiles : Import(file)
<1>1. clock \in Nat
  BY DEF TypeOK
<1>2. clock' = clock \/ clock' = clock + 1
  BY DEF Next, Shell, Handler, Drop, World, vars, Preexec, Precmd, Exec, Done, Reload, DropExec,
         DropDone, DropReload, Import, Stop, Start, Tick
<1>3. \/ rows' = rows
      \/ \E m \in execs : Exec(m) /\ ShouldRecord(m.kind)
      \/ \E m \in dones, paused \in BOOLEAN : Done(m, paused)
      \/ \E file \in ImportFiles : Import(file)
  <2>1. CASE Shell \/ Drop \/ UNCHANGED vars
    BY <2>1 DEF Shell, Drop, vars, Preexec, Precmd, DropExec, DropDone, DropReload
  <2>2. CASE World
    BY <2>2 DEF World, Stop, Start, Tick
  <2>3. CASE Handler
    <3>1. ASSUME NEW m \in execs, Exec(m), ~ShouldRecord(m.kind) PROVE rows' = rows
      BY <3>1 DEF Exec
    <3> QED BY <2>3, <3>1 DEF Handler, Reload
  <2> QED BY <2>1, <2>2, <2>3 DEF Next
<1> QED BY <1>1, <1>2, <1>3

\* Every action keeps imports below what is typed, and without repetition.
LEMMA TableInvStep == TableInv /\ [Next]_vars => TableInv'
<1> SUFFICES ASSUME TableInv, [Next]_vars PROVE TableInv'
  OBVIOUS
<1> USE DEF TableInv
<1>0. TypeOK'
  BY TypeStep
<1>1. clock \in Nat /\ clock' \in Nat /\ clock <= clock'
  BY TableStep
<1>2. DOMAIN rows = 1..Len(rows) /\ Len(rows) \in Nat
      /\ \A i \in DOMAIN rows : rows[i].ts \in Int
  <2>1. DOMAIN rows = 1..Len(rows) /\ Len(rows) \in Nat /\ \A i \in 1..Len(rows) : rows[i] \in Row
    BY DEF TypeOK
  <2> QED BY <2>1 DEF Row
<1>3. DOMAIN rows' = 1..Len(rows') /\ Len(rows') \in Nat
  BY <1>0 DEF TypeOK
\* A step that inserts nothing.
<1>4. ASSUME DOMAIN rows' = DOMAIN rows,
             \A i \in DOMAIN rows : /\ rows'[i].session = rows[i].session
                                    /\ rows'[i].n = rows[i].n
                                    /\ rows'[i].ts = rows[i].ts
      PROVE  AllPast' /\ ImportsLieBehind' /\ ImportIsIdempotent'
  <2>1. AllPast'
    BY <1>1, <1>2, <1>4 DEF AllPast, Ids
  <2>2. ImportsLieBehind'
    BY <1>4 DEF ImportsLieBehind, Ids
  <2>3. ImportIsIdempotent'
    BY <1>4 DEF ImportIsIdempotent, Ids
  <2> QED BY <2>1, <2>2, <2>3
<1>5. CASE rows' = rows
  BY <1>0, <1>4, <1>5
<1>6. ASSUME NEW m \in dones, NEW paused \in BOOLEAN, Done(m, paused)
      PROVE  AllPast' /\ ImportsLieBehind' /\ ImportIsIdempotent'
  BY <1>4, <1>6, DoneRows
<1>7. ASSUME NEW m \in execs, Exec(m), ShouldRecord(m.kind)
      PROVE  AllPast' /\ ImportsLieBehind' /\ ImportIsIdempotent'
  <2> DEFINE id == Len(rows) + 1
  <2>1. /\ DOMAIN rows' = 1..id /\ rows'[id].ts = clock
        /\ \A i \in DOMAIN rows : rows'[i] = rows[i]
        /\ rows'[id].session # Importer
    BY <1>7, ExecRows, HistoryAssumption DEF TypeOK, ExecRequest
  <2>2. id \in Nat /\ DOMAIN rows' = DOMAIN rows \cup {id} /\ \A i \in DOMAIN rows : i < id
    BY <1>2, <2>1
  <2> HIDE DEF id
  <2>3. AllPast'
    BY <1>1, <1>2, <2>1, <2>2 DEF AllPast, Ids
  <2>4. ASSUME NEW i \in DOMAIN rows', NEW j \in DOMAIN rows',
               rows'[i].session # Importer, rows'[j].session = Importer, j < i
        PROVE  rows'[j].ts <= rows'[i].ts
    <3>1. j \in DOMAIN rows /\ j \in Nat
      BY <1>2, <2>1, <2>2, <2>4
    <3>2. CASE i = id
      <4>1. rows'[i].ts = clock /\ rows'[j].ts = rows[j].ts /\ rows[j].ts \in Int
        BY <1>2, <2>1, <3>1, <3>2
      <4>2. rows[j].ts <= clock
        BY <3>1 DEF AllPast, Ids
      <4> QED BY <1>1, <2>2, <2>4, <3>2, <4>1, <4>2
    <3>3. CASE i # id
      <4>1. i \in DOMAIN rows /\ rows'[i] = rows[i] /\ rows'[j] = rows[j]
        BY <2>1, <2>2, <3>1, <3>3
      <4> QED BY <2>4, <3>1, <4>1 DEF ImportsLieBehind, Ids
    <3> QED BY <3>2, <3>3
  <2>5. ImportsLieBehind'
    BY <2>4 DEF ImportsLieBehind, Ids
  <2>6. ImportIsIdempotent'
    <3> SUFFICES ASSUME NEW i \in DOMAIN rows', NEW j \in DOMAIN rows',
                        rows'[i].session = Importer, rows'[j].session = Importer,
                        rows'[i].n = rows'[j].n, rows'[i].ts = rows'[j].ts
                 PROVE  i = j
      BY DEF ImportIsIdempotent, Ids
    <3>1. i \in DOMAIN rows /\ j \in DOMAIN rows
      BY <2>1, <2>2
    <3> QED BY <2>1, <3>1 DEF ImportIsIdempotent, Ids
  <2> QED BY <2>3, <2>5, <2>6
<1>8. ASSUME NEW file \in ImportFiles, Import(file)
      PROVE  AllPast' /\ ImportsLieBehind' /\ ImportIsIdempotent'
  <2>1. /\ DOMAIN rows \subseteq DOMAIN rows'
        /\ \A i \in DOMAIN rows : rows'[i] = rows[i]
    BY <1>8, ImportRows
  <2>2. PICK p \in [NewIds -> Fresh(file)] :
           /\ \A i, j \in NewIds : i < j => p[i] < p[j]
           /\ \A i \in NewIds : /\ rows'[i].session = Importer
                                /\ rows'[i].n = file[p[i]].n
                                /\ rows'[i].ts = TimeOf(file, p[i], clock)
    BY <1>8, ImportedFrom
  <2>3. ASSUME NEW i \in NewIds
        PROVE  /\ p[i] \in DOMAIN file /\ p[i] \in Entries(file)
               /\ \A j \in RowsOf(Importer) :
                    <<rows[j].n, rows[j].ts>> # <<rows'[i].n, rows'[i].ts>>
               /\ \A k \in Entries(file) : k < p[i] =>
                    Entry(file, k, clock) # Entry(file, p[i], clock)
    BY <2>2 DEF Fresh, Entries, Entry
  <2>4. ASSUME NEW i \in NewIds PROVE rows'[i].ts <= clock
    <3>1. \A k \in Timed(file) : file[k].ts <= clock
      BY <1>8 DEF Import
    <3> QED BY <1>1, <2>2, <2>3, <3>1, TimeOfPast
  <2>5. AllPast'
    <3>1. clock' = clock
      BY <1>8 DEF Import
    <3> QED BY <2>1, <2>4, <3>1 DEF AllPast, Ids, NewIds
  <2>6. ASSUME NEW i \in NewIds PROVE \A j \in DOMAIN rows : j < i
    BY <1>2, <1>3, <2>1 DEF NewIds
  <2>7. ImportsLieBehind'
    <3> SUFFICES ASSUME NEW i \in DOMAIN rows', NEW j \in DOMAIN rows',
                        rows'[i].session # Importer, rows'[j].session = Importer, j < i
                 PROVE  rows'[j].ts <= rows'[i].ts
      BY DEF ImportsLieBehind, Ids
    <3>1. i \in DOMAIN rows
      BY <2>2 DEF NewIds
    <3>2. j \in DOMAIN rows
      BY <1>2, <1>3, <2>6, <3>1 DEF NewIds
    <3> QED BY <2>1, <3>1, <3>2 DEF ImportsLieBehind, Ids
  <2>8. ImportIsIdempotent'
    <3> SUFFICES ASSUME NEW i \in DOMAIN rows', NEW j \in DOMAIN rows',
                        rows'[i].session = Importer, rows'[j].session = Importer,
                        rows'[i].n = rows'[j].n, rows'[i].ts = rows'[j].ts
                 PROVE  i = j
      BY DEF ImportIsIdempotent, Ids
    <3>1. CASE i \in DOMAIN rows /\ j \in DOMAIN rows
      BY <2>1, <3>1 DEF ImportIsIdempotent, Ids
    <3>2. CASE i \in NewIds /\ j \in DOMAIN rows
      BY <2>1, <2>3, <3>2 DEF RowsOf, Ids
    <3>3. CASE i \in DOMAIN rows /\ j \in NewIds
      BY <2>1, <2>3, <3>3 DEF RowsOf, Ids
    <3>4. CASE i \in NewIds /\ j \in NewIds
      <4>1. Entry(file, p[i], clock) = Entry(file, p[j], clock)
        BY <2>2, <3>4 DEF Entry
      <4>2. ~(p[i] < p[j]) /\ ~(p[j] < p[i])
        BY <2>3, <3>4, <4>1
      <4>3. ~(i < j) /\ ~(j < i)
        BY <2>2, <3>4, <4>2
      <4> QED BY <1>3, <4>3
    <3> QED BY <3>1, <3>2, <3>3, <3>4 DEF NewIds
  <2> QED BY <2>5, <2>7, <2>8
<1> QED BY <1>0, <1>5, <1>6, <1>7, <1>8, TableStep

\* It holds throughout.
LEMMA TableInvCorrect == Spec => []TableInv
<1>1. Init => TableInv
  <2> SUFFICES ASSUME Init PROVE TableInv
    OBVIOUS
  <2>1. TypeOK
    BY TypeInit
  <2>2. Ids = {}
    BY DEF Init, Ids
  <2> QED BY <2>1, <2>2 DEF TableInv, AllPast, ImportsLieBehind, ImportIsIdempotent
<1> QED BY <1>1, TableInvStep, PTL DEF Spec

\* However long history files are imported again, whatever times their entries
\* get and whatever is typed meanwhile, no import inserts a command twice for
\* one time (store.rs, import, compares with what is there and with itself).
THEOREM ImportIdempotent == Spec => []ImportIsIdempotent
<1>1. TableInv => ImportIsIdempotent
  BY DEF TableInv
<1> QED BY <1>1, TableInvCorrect, PTL

\* No imported row is later than a command typed after the import, whatever times
\* the import made up (import.rs, parse, interpolates and anchors at the hour), and
\* even while the clock stands still.
THEOREM ImportsBehind == Spec => []ImportsLieBehind
<1>1. TableInv => ImportsLieBehind
  BY DEF TableInv
<1> QED BY <1>1, TableInvCorrect, PTL

-----------------------------------------------------------------------------
(***************************************************************************)
(* Sessions.  CleanSessionsAreExact speaks of what is recorded; why Done   *)
(* finds the right row depends on what is running and on its way.          *)
(***************************************************************************)

ExecsOf(s) == {x \in execs : x.session = s}
DonesOf(s) == {d \in dones : d.session = s}

\* Commands have numbers of their own, and nothing is known of one that has
\* not started.
Numbered(s) ==
  /\ running[s] <= ran
  /\ \A x \in ExecsOf(s) : x.n \in 1..ran /\ (running[s] # 0 => x.n <= running[s])
  /\ \A d \in DonesOf(s) : d.n \in 1..ran /\ (running[s] # 0 => d.n < running[s])
  /\ \A i \in RowsOf(s)  : rows[i].n \in 1..ran /\ (running[s] # 0 => rows[i].n <= running[s])
  /\ \A x, y \in ExecsOf(s) : x.n = y.n => x = y

\* The exit code of command n has not arrived.
Awaited(s, n) == n = running[s] \/ \E d \in DonesOf(s) : d.n = n

\* In a clean session every command that is recorded or about to be awaits its
\* exit code, at most one row does, and it is of the first of these commands.
InTurn(s) ==
  clean[s] =>
    /\ \A i \in RowsOf(s) : rows[i].exit # NoExit => rows[i].by = rows[i].n
    /\ \A x \in ExecsOf(s) : Awaited(s, x.n)
    /\ \A i \in OpenRows(s) :
         /\ Awaited(s, rows[i].n)
         /\ \A x \in ExecsOf(s) : rows[i].n < x.n
         /\ \A d \in DonesOf(s) : rows[i].n <= d.n
         /\ \A j \in OpenRows(s) : i = j

SessionsInv == TypeOK /\ \A s \in Sessions : Numbered(s) /\ InTurn(s)

\* The rows of a session that a step leaves alone.
SameRowsOf(s) == RowsOf(s)' = RowsOf(s) /\ \A i \in RowsOf(s) : rows'[i] = rows[i]

\* What is on its way, recorded and open is typed.
LEMMA SessionTypes ==
  ASSUME TypeOK, NEW s \in Sessions
  PROVE  /\ ran \in Nat /\ running[s] \in Nat
         /\ \A x \in ExecsOf(s) : x.n \in Nat
         /\ \A d \in DonesOf(s) : d.n \in Nat
         /\ \A i \in RowsOf(s)  : rows[i].n \in Nat
         /\ OpenRows(s) \subseteq RowsOf(s)
<1>1. \A x \in ExecsOf(s) : x.n \in Nat
  BY DEF TypeOK, ExecsOf, ExecRequest
<1>2. \A d \in DonesOf(s) : d.n \in Nat
  BY DEF TypeOK, DonesOf, DoneRequest
<1>3. \A i \in RowsOf(s)  : rows[i].n \in Nat
  <2>1. \A i \in RowsOf(s) : rows[i] \in Row
    BY DEF TypeOK, RowsOf, Ids
  <2> QED BY <2>1 DEF Row
<1> QED BY <1>1, <1>2, <1>3 DEF TypeOK, OpenRows

\* Requests may get lost, and other sessions go on.
LEMMA NumberedFrame ==
  ASSUME TypeOK, NEW s \in Sessions, Numbered(s),
         ran' \in Nat, ran <= ran', running'[s] = running[s],
         ExecsOf(s)' \subseteq ExecsOf(s), DonesOf(s)' \subseteq DonesOf(s),
         RowsOf(s)' = RowsOf(s), \A i \in RowsOf(s) : rows'[i].n = rows[i].n
  PROVE  Numbered(s)'
  BY SessionTypes DEF Numbered

\* A step that has nothing to do with session s.
LEMMA OtherSession ==
  ASSUME TypeOK, NEW s \in Sessions, Numbered(s), InTurn(s),
         ran' \in Nat, ran <= ran', running'[s] = running[s],
         ExecsOf(s)' = ExecsOf(s), DonesOf(s)' = DonesOf(s), clean'[s] = clean[s],
         SameRowsOf(s)
  PROVE  Numbered(s)' /\ InTurn(s)'
<1>1. Numbered(s)'
  BY NumberedFrame DEF SameRowsOf
<1>2. OpenRows(s)' = OpenRows(s)
  BY DEF SameRowsOf, OpenRows
<1>3. InTurn(s)'
  BY <1>2 DEF InTurn, Awaited, SameRowsOf, OpenRows
<1> QED BY <1>1, <1>3

\* A step that leaves the table alone.
LEMMA SameTable ==
  ASSUME rows' = rows, NEW s
  PROVE  SameRowsOf(s) /\ OpenRows(s)' = OpenRows(s)
  BY DEF SameRowsOf, RowsOf, OpenRows, Ids

\* A command starts.
LEMMA PreexecSession ==
  ASSUME SessionsInv, NEW s \in Sessions, NEW kind \in Kinds, Preexec(s, kind)
  PROVE  Numbered(s)' /\ InTurn(s)'
<1> USE DEF SessionsInv
<1>1. /\ running[s] = 0 /\ running'[s] = ran + 1 /\ ran' = ran + 1
      /\ dones' = dones /\ rows' = rows /\ clean' = clean
      /\ execs' = execs \/ execs' = execs \cup {[session |-> s, n |-> ran + 1, kind |-> kind]}
  BY DEF Preexec, TypeOK
<1>2. /\ DonesOf(s)' = DonesOf(s) /\ RowsOf(s)' = RowsOf(s) /\ OpenRows(s)' = OpenRows(s)
      /\ \A x \in ExecsOf(s)' \ ExecsOf(s) :
           x = [session |-> s, n |-> ran + 1, kind |-> kind] /\ x.n = ran + 1
  BY <1>1 DEF DonesOf, RowsOf, OpenRows, Ids, ExecsOf
<1>3. Numbered(s) /\ InTurn(s)
  OBVIOUS
<1>4. Numbered(s)'
  <2>1. \A x \in ExecsOf(s)' : x.n \in 1..ran' /\ x.n <= running'[s]
    BY <1>1, <1>2, <1>3, SessionTypes DEF Numbered
  <2>2. \A d \in DonesOf(s) : d.n \in 1..ran' /\ d.n < running'[s]
    BY <1>1, <1>3, SessionTypes DEF Numbered
  <2>3. \A i \in RowsOf(s) : rows'[i].n \in 1..ran' /\ rows'[i].n <= running'[s]
    BY <1>1, <1>3, SessionTypes DEF Numbered
  <2>4. \A x, y \in ExecsOf(s)' : x.n = y.n => x = y
    <3>1. \A x \in ExecsOf(s) : x.n # ran + 1
      BY <1>3, SessionTypes DEF Numbered
    <3> QED BY <1>2, <1>3, <3>1 DEF Numbered
  <2>5. running'[s] <= ran'
    BY <1>1, SessionTypes
  <2> QED BY <1>2, <2>1, <2>2, <2>3, <2>4, <2>5 DEF Numbered
<1>5. InTurn(s)'
  <2> SUFFICES ASSUME clean[s] PROVE InTurn(s)'
    BY <1>1 DEF InTurn
  <2>1. \A n \in 1..ran : Awaited(s, n) => Awaited(s, n)'
    BY <1>1, <1>2 DEF Awaited
  <2>2. \A x \in ExecsOf(s)' : Awaited(s, x.n)'
    <3>1. \A x \in ExecsOf(s) : Awaited(s, x.n) /\ x.n \in 1..ran
      BY <1>3 DEF InTurn, Numbered
    <3>2. \A n : n = ran + 1 => Awaited(s, n)'
      BY <1>1 DEF Awaited
    <3> QED BY <1>2, <2>1, <3>1, <3>2
  <2>3. ASSUME NEW i \in OpenRows(s)
        PROVE  /\ \A n : n = rows[i].n => Awaited(s, n)'
               /\ \A x \in ExecsOf(s)' : rows[i].n < x.n
               /\ \A d \in DonesOf(s) : rows[i].n <= d.n
               /\ \A j \in OpenRows(s) : i = j
    <3>1. rows[i].n \in 1..ran
      BY <1>3, SessionTypes DEF Numbered
    <3>2. \A n : n = rows[i].n => Awaited(s, n)'
      BY <1>3, <2>1, <3>1 DEF InTurn
    <3>3. \A x \in ExecsOf(s)' : rows[i].n < x.n
      BY <1>2, <1>3, <3>1, SessionTypes DEF InTurn
    <3> QED BY <1>3, <3>1, <3>2, <3>3 DEF InTurn
  <2>4. \A i \in RowsOf(s) : rows[i].exit # NoExit => rows[i].by = rows[i].n
    BY <1>3 DEF InTurn
  <2> QED BY <1>1, <1>2, <2>2, <2>3, <2>4, Zenon DEF InTurn
<1> QED BY <1>4, <1>5

\* A command ends.
LEMMA PrecmdSession ==
  ASSUME SessionsInv, NEW s \in Sessions, NEW code \in ExitCodes, Precmd(s, code)
  PROVE  Numbered(s)' /\ InTurn(s)'
<1> USE DEF SessionsInv
<1> DEFINE m == [session |-> s, n |-> running[s], exit |-> code]
<1>1. /\ running[s] # 0 /\ running'[s] = 0 /\ ran' = ran
      /\ execs' = execs /\ rows' = rows /\ clean' = clean /\ dones' = dones \cup {m}
  BY DEF Precmd, TypeOK
<1>2. /\ ExecsOf(s)' = ExecsOf(s) /\ RowsOf(s)' = RowsOf(s) /\ OpenRows(s)' = OpenRows(s)
      /\ DonesOf(s)' = DonesOf(s) \cup {m} /\ m.n = running[s]
  BY <1>1 DEF DonesOf, RowsOf, OpenRows, Ids, ExecsOf
<1> HIDE DEF m
<1>3. Numbered(s) /\ InTurn(s)
  OBVIOUS
<1>4. Numbered(s)'
  <2>1. m.n \in 1..ran
    BY <1>1, <1>2, <1>3, SessionTypes DEF Numbered
  <2> QED BY <1>1, <1>2, <1>3, <2>1, SessionTypes DEF Numbered
<1>5. InTurn(s)'
  <2> SUFFICES ASSUME clean[s] PROVE InTurn(s)'
    BY <1>1 DEF InTurn
  <2>1. \A n : Awaited(s, n) => Awaited(s, n)'
    BY <1>2 DEF Awaited
  <2>2. \A i \in OpenRows(s) : rows[i].n <= m.n
    BY <1>1, <1>2, <1>3, SessionTypes DEF Numbered
  <2> QED BY <1>1, <1>2, <1>3, <2>1, <2>2 DEF InTurn
<1> QED BY <1>4, <1>5

\* A request gets lost: the session is clean no more.
LEMMA DropSession ==
  ASSUME SessionsInv, NEW s \in Sessions, ~clean'[s], ran' = ran, running' = running,
         rows' = rows, execs' \subseteq execs, dones' \subseteq dones
  PROVE  Numbered(s)' /\ InTurn(s)'
<1>1. ExecsOf(s)' \subseteq ExecsOf(s) /\ DonesOf(s)' \subseteq DonesOf(s)
  BY DEF ExecsOf, DonesOf
<1>2. Numbered(s)'
  BY <1>1, SameTable, SessionTypes, NumberedFrame DEF SessionsInv, SameRowsOf
<1> QED BY <1>2 DEF InTurn

\* An Exec is handled.  If the session stays clean, it is the first request on
\* its way, and no row was open.
LEMMA ExecSession ==
  ASSUME SessionsInv, NEW m \in execs, Exec(m)
  PROVE  \A s \in Sessions : Numbered(s)' /\ InTurn(s)'
<1> USE DEF SessionsInv
<1>1. /\ m.session \in Sessions /\ m \in ExecsOf(m.session)
      /\ ran \in Nat /\ ran' = ran /\ running' = running
      /\ execs' = execs \ {m} /\ dones' = dones
      /\ clean' = [clean EXCEPT ![m.session] =
                     @ /\ ~OvertakesDone(m) /\ ~OvertakesExec(m, m.n)]
      /\ clean \in [Sessions -> BOOLEAN]
      /\ ~ShouldRecord(m.kind) => rows' = rows
  BY DEF Exec, TypeOK, ExecRequest, ExecsOf, shellVars
<1>2. ASSUME ShouldRecord(m.kind)
      PROVE  /\ DOMAIN rows' = DOMAIN rows \cup {Len(rows) + 1}
             /\ Len(rows) + 1 \notin DOMAIN rows
             /\ \A i \in DOMAIN rows : rows'[i] = rows[i]
             /\ rows'[Len(rows) + 1].session = m.session /\ rows'[Len(rows) + 1].n = m.n
             /\ rows'[Len(rows) + 1].exit = NoExit
  <2>1. /\ DOMAIN rows' = 1..(Len(rows) + 1) /\ DOMAIN rows = 1..Len(rows) /\ Len(rows) \in Nat
        /\ \A i \in DOMAIN rows : rows'[i] = rows[i]
        /\ rows'[Len(rows) + 1].session = m.session /\ rows'[Len(rows) + 1].n = m.n
        /\ rows'[Len(rows) + 1].exit = NoExit
    BY <1>2, ExecRows
  <2>2. /\ DOMAIN rows' = DOMAIN rows \cup {Len(rows) + 1}
        /\ Len(rows) + 1 \notin DOMAIN rows
    BY <2>1
  <2> QED BY <2>1, <2>2
<1>3. ASSUME NEW s \in Sessions, s # m.session
      PROVE  Numbered(s)' /\ InTurn(s)'
  <2>1. ExecsOf(s)' = ExecsOf(s) /\ DonesOf(s)' = DonesOf(s)
    BY <1>1, <1>3 DEF ExecsOf, DonesOf
  <2>2. clean'[s] = clean[s]
    BY <1>1, <1>3
  <2>3. SameRowsOf(s)
    <3>1. CASE ShouldRecord(m.kind)
      BY <1>2, <1>3, <3>1 DEF SameRowsOf, RowsOf, Ids
    <3>2. CASE ~ShouldRecord(m.kind)
      BY <1>1, <3>2, SameTable
    <3> QED BY <3>1, <3>2
  <2> QED BY <1>1, <2>1, <2>2, <2>3, OtherSession
<1>4. ASSUME NEW s \in Sessions, s = m.session
      PROVE  Numbered(s)' /\ InTurn(s)'
  <2>1. ExecsOf(s)' = ExecsOf(s) \ {m} /\ DonesOf(s)' = DonesOf(s) /\ m \in ExecsOf(s)
    BY <1>1, <1>4 DEF ExecsOf, DonesOf
  <2>2. Numbered(s) /\ InTurn(s)
    OBVIOUS
  <2>3. ASSUME clean'[s]
        PROVE  /\ clean[s]
               /\ \A d \in DonesOf(s) : ~(d.n < m.n)
               /\ \A x \in ExecsOf(s) : ~(x.n < m.n)
    <3>1. clean[s] /\ ~OvertakesDone(m) /\ ~OvertakesExec(m, m.n)
      BY <1>1, <1>4, <2>3
    <3> QED BY <1>4, <3>1 DEF OvertakesDone, OvertakesExec, DonesOf, ExecsOf
  <2>4. \A n : Awaited(s, n)' <=> Awaited(s, n)
    BY <1>1, <2>1 DEF Awaited
  <2>5. CASE ~ShouldRecord(m.kind)
    <3>1. SameRowsOf(s) /\ OpenRows(s)' = OpenRows(s) /\ rows' = rows
      BY <1>1, <2>5, SameTable
    <3>2. Numbered(s)'
      BY <1>1, <2>1, <2>2, <3>1, NumberedFrame DEF SameRowsOf
    <3>3. InTurn(s)'
      <4> SUFFICES ASSUME clean'[s] PROVE InTurn(s)'
        BY DEF InTurn
      <4> QED BY <2>1, <2>2, <2>3, <2>4, <3>1 DEF InTurn, SameRowsOf
    <3> QED BY <3>2, <3>3
  <2>6. CASE ShouldRecord(m.kind)
    <3> DEFINE id == Len(rows) + 1
    <3>1. /\ RowsOf(s)' = RowsOf(s) \cup {id} /\ id \notin RowsOf(s)
          /\ OpenRows(s)' = OpenRows(s) \cup {id}
          /\ \A i \in RowsOf(s) : rows'[i] = rows[i]
          /\ rows'[id].n = m.n /\ rows'[id].exit = NoExit
      BY <1>2, <1>4, <2>6 DEF RowsOf, OpenRows, Ids
    <3> HIDE DEF id
    <3>2. Numbered(s)'
      <4>1. \A i \in RowsOf(s)' : /\ rows'[i].n \in 1..ran
                                  /\ running[s] # 0 => rows'[i].n <= running[s]
        BY <2>1, <2>2, <3>1 DEF Numbered
      <4> QED BY <1>1, <2>1, <2>2, <4>1 DEF Numbered
    <3>3. InTurn(s)'
      <4> SUFFICES ASSUME clean'[s] PROVE InTurn(s)'
        BY DEF InTurn
      <4>1. OpenRows(s) = {}
        <5> SUFFICES ASSUME NEW i \in OpenRows(s) PROVE FALSE
          OBVIOUS
        <5>1. Awaited(s, rows[i].n) /\ rows[i].n < m.n
          BY <2>1, <2>2, <2>3 DEF InTurn
        <5>2. rows[i].n # running[s]
          BY <2>1, <2>2, <5>1, SessionTypes DEF Numbered
        <5>3. PICK d \in DonesOf(s) : d.n = rows[i].n
          BY <5>1, <5>2 DEF Awaited
        <5> QED BY <2>3, <5>1, <5>3
      <4>2. \A x \in ExecsOf(s)' : m.n < x.n /\ Awaited(s, x.n)
        BY <2>1, <2>2, <2>3, SessionTypes DEF Numbered, InTurn
      <4>3. \A d \in DonesOf(s) : m.n <= d.n
        BY <2>1, <2>3, SessionTypes
      <4>4. Awaited(s, m.n)
        BY <2>1, <2>2, <2>3 DEF InTurn
      <4>5. \A i \in RowsOf(s)' : rows'[i].exit # NoExit => rows'[i].by = rows'[i].n
        BY <2>2, <2>3, <3>1 DEF InTurn
      <4>6. OpenRows(s)' = {id}
        BY <3>1, <4>1
      <4> QED BY <2>1, <2>4, <3>1, <4>2, <4>3, <4>4, <4>5, <4>6 DEF InTurn
    <3> QED BY <3>2, <3>3
  <2> QED BY <2>5, <2>6
<1> QED BY <1>3, <1>4

\* A Done is handled.  If the session stays clean, it is the first request on
\* its way, so that a row that is open is that of its command.
LEMMA DoneSession ==
  ASSUME SessionsInv, NEW m \in dones, NEW paused \in BOOLEAN, Done(m, paused)
  PROVE  \A s \in Sessions : Numbered(s)' /\ InTurn(s)'
<1> USE DEF SessionsInv
<1>1. /\ m.session \in Sessions /\ m \in DonesOf(m.session)
      /\ ran \in Nat /\ ran' = ran /\ running' = running
      /\ dones' = dones \ {m} /\ execs' = execs
      /\ clean' = [clean EXCEPT ![m.session] =
                     @ /\ ~OvertakesDone(m) /\ ~OvertakesExec(m, m.n + 1)]
      /\ clean \in [Sessions -> BOOLEAN]
      /\ m.exit # NoExit
  <2>1. m.session \in Sessions /\ m.exit \in ExitCodes
    BY DEF TypeOK, DoneRequest
  <2> QED BY <2>1, HistoryAssumption DEF Done, TypeOK, DonesOf, shellVars
<1>2. /\ DOMAIN rows' = DOMAIN rows
      /\ \A i \in DOMAIN rows : rows'[i].session = rows[i].session /\ rows'[i].n = rows[i].n
      /\ OpenRows(m.session) = {} => rows' = rows
      /\ OpenRows(m.session) # {} =>
           /\ rows'[LatestOpen(m.session)].exit = m.exit
           /\ rows'[LatestOpen(m.session)].by = m.n
           /\ LatestOpen(m.session) \in OpenRows(m.session)
           /\ \A i \in DOMAIN rows \ {LatestOpen(m.session)} : rows'[i] = rows[i]
  <2>1. rows \in Seq(Row)
    BY DEF TypeOK
  <2> QED BY <2>1, DoneRows, LatestOpenIsOpen
<1>3. ASSUME NEW s \in Sessions, s # m.session
      PROVE  Numbered(s)' /\ InTurn(s)'
  <2>1. ExecsOf(s)' = ExecsOf(s) /\ DonesOf(s)' = DonesOf(s)
    BY <1>1, <1>3 DEF ExecsOf, DonesOf
  <2>2. clean'[s] = clean[s]
    BY <1>1, <1>3
  <2>3. SameRowsOf(s)
    BY <1>2, <1>3 DEF SameRowsOf, RowsOf, OpenRows, Ids
  <2> QED BY <1>1, <2>1, <2>2, <2>3, OtherSession
<1>4. ASSUME NEW s \in Sessions, s = m.session
      PROVE  Numbered(s)' /\ InTurn(s)'
  <2>1. ExecsOf(s)' = ExecsOf(s) /\ DonesOf(s)' = DonesOf(s) \ {m} /\ m \in DonesOf(s)
    BY <1>1, <1>4 DEF ExecsOf, DonesOf
  <2>2. Numbered(s) /\ InTurn(s)
    OBVIOUS
  <2>3. RowsOf(s)' = RowsOf(s) /\ \A i \in RowsOf(s) : rows'[i].n = rows[i].n
    BY <1>2 DEF RowsOf, Ids
  <2>4. Numbered(s)'
    BY <1>1, <2>1, <2>2, <2>3, NumberedFrame
  <2>5. InTurn(s)'
    <3> SUFFICES ASSUME clean'[s] PROVE InTurn(s)'
      BY DEF InTurn
    <3>1. /\ clean[s]
          /\ \A d \in DonesOf(s) : ~(d.n < m.n)
          /\ \A x \in ExecsOf(s) : ~(x.n < m.n + 1)
      <4>1. clean[s] /\ ~OvertakesDone(m) /\ ~OvertakesExec(m, m.n + 1)
        BY <1>1, <1>4
      <4> QED BY <1>4, <4>1 DEF OvertakesDone, OvertakesExec, DonesOf, ExecsOf
    <3>2. \A x \in ExecsOf(s) : \A n : n = x.n => Awaited(s, n)'
      <4> SUFFICES ASSUME NEW x \in ExecsOf(s), NEW n, n = x.n PROVE Awaited(s, n)'
        OBVIOUS
      <4>1. Awaited(s, n) /\ n # m.n
        BY <2>1, <2>2, <3>1, SessionTypes DEF InTurn
      <4> QED BY <1>1, <2>1, <4>1 DEF Awaited
    <3>3. ASSUME NEW i \in OpenRows(s)
          PROVE  rows[i].n = m.n /\ OpenRows(s) = {i}
      <4>1. /\ Awaited(s, rows[i].n) /\ rows[i].n <= m.n
            /\ \A j \in OpenRows(s) : i = j
        BY <2>1, <2>2, <3>1 DEF InTurn
      <4>2. rows[i].n \in Nat /\ rows[i].n # 0
        BY <2>2, SessionTypes DEF Numbered
      <4>3. rows[i].n # running[s]
        BY <2>1, <2>2, <4>1, <4>2, SessionTypes DEF Numbered
      <4>4. PICK d \in DonesOf(s) : d.n = rows[i].n
        BY <4>1, <4>3 DEF Awaited
      <4>5. ~(rows[i].n < m.n)
        BY <3>1, <4>4
      <4> QED BY <2>1, <4>1, <4>2, <4>5, SessionTypes
    <3>4. OpenRows(s)' = {} /\ \A i \in RowsOf(s) : rows'[i].exit # NoExit => rows'[i].by = rows'[i].n
      <4>1. CASE OpenRows(s) = {}
        <5>1. rows' = rows
          BY <1>2, <1>4, <4>1
        <5> QED BY <2>2, <3>1, <4>1, <5>1, SameTable DEF InTurn
      <4>2. CASE OpenRows(s) # {}
        <5> DEFINE k == LatestOpen(m.session)
        <5>1. /\ k \in OpenRows(s) /\ rows'[k].exit = m.exit /\ rows'[k].by = m.n
              /\ \A i \in DOMAIN rows \ {k} : rows'[i] = rows[i]
          BY <1>2, <1>4, <4>2
        <5> HIDE DEF k
        <5>2. rows[k].n = m.n /\ OpenRows(s) = {k}
          BY <3>3, <5>1
        <5>3. k \in RowsOf(s) /\ rows'[k].n = m.n
          BY <2>3, <5>1, <5>2 DEF OpenRows
        <5>4. OpenRows(s)' = {}
          BY <1>1, <2>3, <5>1, <5>2 DEF OpenRows, RowsOf, Ids
        <5>5. \A i \in RowsOf(s) \ {k} : rows'[i] = rows[i]
          BY <5>1 DEF RowsOf, Ids
        <5> QED BY <2>2, <3>1, <5>1, <5>3, <5>4, <5>5 DEF InTurn
      <4> QED BY <4>1, <4>2
    <3> QED BY <2>1, <2>3, <3>2, <3>4 DEF InTurn
  <2> QED BY <2>4, <2>5
<1> QED BY <1>3, <1>4

\* An import inserts nothing for a session.
LEMMA ImportSession ==
  ASSUME TypeOK, NEW file \in ImportFiles, Import(file), NEW s \in Sessions
  PROVE  SameRowsOf(s)
  BY ImportRows, HistoryAssumption DEF SameRowsOf, RowsOf, Ids

\* Every action keeps the sessions in order.
LEMMA SessionsInvStep == SessionsInv /\ [Next]_vars => SessionsInv'
<1> SUFFICES ASSUME SessionsInv, [Next]_vars PROVE SessionsInv'
  OBVIOUS
<1>0. TypeOK /\ TypeOK' /\ \A s \in Sessions : Numbered(s) /\ InTurn(s)
  BY TypeStep DEF SessionsInv
<1> DEFINE Goal == \A s \in Sessions : Numbered(s)' /\ InTurn(s)'
\* The sessions that an action does not speak of.
<1>1. ASSUME NEW t, ran' \in Nat, ran <= ran', \A s \in Sessions \ {t} : running'[s] = running[s],
             \A s \in Sessions \ {t} : ExecsOf(s)' = ExecsOf(s) /\ DonesOf(s)' = DonesOf(s),
             \A s \in Sessions \ {t} : clean'[s] = clean[s],
             \A s \in Sessions \ {t} : SameRowsOf(s)
      PROVE  \A s \in Sessions \ {t} : Numbered(s)' /\ InTurn(s)'
  BY <1>0, <1>1, OtherSession
<1>2. ASSUME NEW t \in Sessions, NEW kind \in Kinds, Preexec(t, kind) PROVE Goal
  <2>1. \A s \in Sessions \ {t} : running'[s] = running[s]
    BY <1>0, <1>2 DEF Preexec, TypeOK
  <2>2. ran' \in Nat /\ ran <= ran'
    BY <1>0, <1>2 DEF Preexec, TypeOK
  <2>3. \A s \in Sessions \ {t} : ExecsOf(s)' = ExecsOf(s) /\ DonesOf(s)' = DonesOf(s)
    BY <1>2 DEF Preexec, ExecsOf, DonesOf
  <2>4. rows' = rows /\ clean' = clean
    BY <1>2 DEF Preexec
  <2>5. \A s \in Sessions \ {t} : Numbered(s)' /\ InTurn(s)'
    BY <1>1, <2>1, <2>2, <2>3, <2>4, SameTable
  <2> QED BY <1>2, <2>5, PreexecSession
<1>3. ASSUME NEW t \in Sessions, NEW code \in ExitCodes, Precmd(t, code) PROVE Goal
  <2>1. \A s \in Sessions \ {t} : running'[s] = running[s]
    BY <1>0, <1>3 DEF Precmd, TypeOK
  <2>2. ran' \in Nat /\ ran <= ran'
    BY <1>0, <1>3 DEF Precmd, TypeOK
  <2>3. \A s \in Sessions \ {t} : ExecsOf(s)' = ExecsOf(s) /\ DonesOf(s)' = DonesOf(s)
    BY <1>3 DEF Precmd, ExecsOf, DonesOf
  <2>4. rows' = rows /\ clean' = clean
    BY <1>3 DEF Precmd
  <2>5. \A s \in Sessions \ {t} : Numbered(s)' /\ InTurn(s)'
    BY <1>1, <2>1, <2>2, <2>3, <2>4, SameTable
  <2> QED BY <1>3, <2>5, PrecmdSession
<1>4. ASSUME NEW m \in execs, Exec(m) PROVE Goal
  BY <1>4, ExecSession
<1>5. ASSUME NEW m \in dones, NEW paused \in BOOLEAN, Done(m, paused) PROVE Goal
  BY <1>5, DoneSession
<1>6. ASSUME NEW m \in execs, DropExec(m) PROVE Goal
  <2>1. m.session \in Sessions
    BY <1>0 DEF TypeOK, ExecRequest
  <2>2. /\ ran' = ran /\ running' = running /\ rows' = rows /\ dones' = dones
        /\ execs' = execs \ {m} /\ clean' = [clean EXCEPT ![m.session] = FALSE]
    BY <1>6 DEF DropExec, shellVars
  <2>3. \A s \in Sessions \ {m.session} : /\ ExecsOf(s)' = ExecsOf(s) /\ DonesOf(s)' = DonesOf(s)
                                          /\ clean'[s] = clean[s]
    BY <1>0, <2>2 DEF ExecsOf, DonesOf, TypeOK
  <2>4. ran' \in Nat /\ ran <= ran' /\ ~clean'[m.session]
    BY <1>0, <2>1, <2>2 DEF TypeOK
  <2>5. \A s \in Sessions \ {m.session} : Numbered(s)' /\ InTurn(s)'
    BY <1>1, <2>2, <2>3, <2>4, SameTable
  <2>6. Numbered(m.session)' /\ InTurn(m.session)'
    <3> SUFFICES ASSUME NEW s \in Sessions, s = m.session PROVE Numbered(s)' /\ InTurn(s)'
      BY <2>1
    <3> QED BY <2>2, <2>4, DropSession
  <2> QED BY <2>5, <2>6
<1>7. ASSUME NEW m \in dones, DropDone(m) PROVE Goal
  <2>1. m.session \in Sessions
    BY <1>0 DEF TypeOK, DoneRequest
  <2>2. /\ ran' = ran /\ running' = running /\ rows' = rows /\ execs' = execs
        /\ dones' = dones \ {m} /\ clean' = [clean EXCEPT ![m.session] = FALSE]
    BY <1>7 DEF DropDone, shellVars
  <2>3. \A s \in Sessions \ {m.session} : /\ ExecsOf(s)' = ExecsOf(s) /\ DonesOf(s)' = DonesOf(s)
                                          /\ clean'[s] = clean[s]
    BY <1>0, <2>2 DEF ExecsOf, DonesOf, TypeOK
  <2>4. ran' \in Nat /\ ran <= ran' /\ ~clean'[m.session]
    BY <1>0, <2>1, <2>2 DEF TypeOK
  <2>5. \A s \in Sessions \ {m.session} : Numbered(s)' /\ InTurn(s)'
    BY <1>1, <2>2, <2>3, <2>4, SameTable
  <2>6. Numbered(m.session)' /\ InTurn(m.session)'
    <3> SUFFICES ASSUME NEW s \in Sessions, s = m.session PROVE Numbered(s)' /\ InTurn(s)'
      BY <2>1
    <3> QED BY <2>2, <2>4, DropSession
  <2> QED BY <2>5, <2>6
<1>8. ASSUME Reload \/ DropReload \/ Stop \/ Start \/ Tick \/ UNCHANGED vars PROVE Goal
  <2>1. UNCHANGED <<ran, running, execs, dones, clean, rows>>
    BY <1>8 DEF Reload, DropReload, Stop, Start, Tick, vars, shellVars, netVars, daemonVars
  <2>2. ran' \in Nat /\ ran <= ran'
    BY <1>0, <2>1 DEF TypeOK
  <2>3. \A s \in Sessions : ExecsOf(s)' = ExecsOf(s) /\ DonesOf(s)' = DonesOf(s) /\ SameRowsOf(s)
    BY <2>1, SameTable DEF ExecsOf, DonesOf
  <2> QED BY <1>0, <2>1, <2>2, <2>3, OtherSession
<1>9. ASSUME NEW file \in ImportFiles, Import(file) PROVE Goal
  <2>1. UNCHANGED <<ran, running, execs, dones, clean>>
    BY <1>9 DEF Import, shellVars
  <2>2. ran' \in Nat /\ ran <= ran'
    BY <1>0, <2>1 DEF TypeOK
  <2>3. \A s \in Sessions : ExecsOf(s)' = ExecsOf(s) /\ DonesOf(s)' = DonesOf(s) /\ SameRowsOf(s)
    BY <1>0, <1>9, <2>1, ImportSession DEF ExecsOf, DonesOf
  <2> QED BY <1>0, <2>1, <2>2, <2>3, OtherSession
<1>10. Goal
  <2> HIDE DEF Goal
  <2> QED BY <1>2, <1>3, <1>4, <1>5, <1>6, <1>7, <1>8, <1>9 DEF Next, Shell, Handler, Drop, World
<1> QED BY <1>0, <1>10 DEF SessionsInv

\* It holds throughout.
LEMMA SessionsInvCorrect == Spec => []SessionsInv
<1>1. Init => SessionsInv
  <2> SUFFICES ASSUME Init PROVE SessionsInv
    OBVIOUS
  <2>1. TypeOK
    BY TypeInit
  <2>2. ran = 0 /\ \A s \in Sessions : /\ running[s] = 0 /\ ExecsOf(s) = {} /\ DonesOf(s) = {}
                                       /\ RowsOf(s) = {} /\ OpenRows(s) = {}
    BY DEF Init, ExecsOf, DonesOf, RowsOf, OpenRows, Ids
  <2> QED BY <2>1, <2>2 DEF SessionsInv, Numbered, InTurn
<1> QED BY <1>1, SessionsInvStep, PTL DEF Spec

\* Unless one of its requests was lost or overtaken, every exit code of a session
\* stands at the command that ended with it, and in the end at every command,
\* although a Done names no command (daemon.rs, Done; store.rs, record_done, takes
\* the latest open row): whatever other sessions, imports and restarts of the daemon
\* do meanwhile.
THEOREM CleanSessionsExact == Spec => []CleanSessionsAreExact
<1>1. SessionsInv => CleanSessionsAreExact
  <2> SUFFICES ASSUME SessionsInv, NEW s \in Sessions, clean[s]
               PROVE  /\ \A i \in RowsOf(s) : rows[i].exit # NoExit => rows[i].by = rows[i].n
                      /\ (running[s] = 0 /\ \A m \in execs \cup dones : m.session # s)
                           => OpenRows(s) = {}
    BY DEF CleanSessionsAreExact
  <2>1. TypeOK /\ Numbered(s) /\ InTurn(s)
    BY DEF SessionsInv
  <2>2. ASSUME running[s] = 0, \A m \in execs \cup dones : m.session # s,
               NEW i \in OpenRows(s)
        PROVE  FALSE
    <3>1. DonesOf(s) = {}
      BY <2>2 DEF DonesOf
    <3>2. rows[i].n = 0
      BY <2>1, <2>2, <3>1 DEF InTurn, Awaited
    <3> QED BY <2>1, <3>2, SessionTypes DEF Numbered
  <2> QED BY <2>1, <2>2 DEF InTurn
<1> QED BY <1>1, SessionsInvCorrect, PTL
=============================================================================
