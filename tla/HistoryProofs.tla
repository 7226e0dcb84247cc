--------------------------- MODULE HistoryProofs ---------------------------
(***************************************************************************)
(* Proofs about History, for every number of sessions, every exit code,    *)
(* predictor capacity and set of history files, and without the bounds     *)
(* that make an instance finite.                                           *)
(***************************************************************************)
EXTENDS History, FiniteSetTheorems, WellFoundedInduction, TLAPS

\* A function on 1..n is a sequence of length n.
LEMMA FunctionIsSeq ==
  ASSUME NEW S, NEW n \in Nat, NEW f \in [1..n -> S]
  PROVE  f \in Seq(S) /\ Len(f) = n
  OBVIOUS

\* A nonempty set of positions has a last one.
LEMMA HasMax ==
  ASSUME NEW n \in Nat, NEW T \in SUBSET (1..n), T # {}
  PROVE  \E x \in T : \A y \in T : y <= x
<1> DEFINE U == {n - i : i \in T}
<1>0. \A i \in T : i \in 1..n /\ i \in Nat /\ n - i \in Nat
  <2> SUFFICES ASSUME NEW i \in T PROVE i \in 1..n /\ i \in Nat /\ n - i \in Nat
    OBVIOUS
  <2>1. i \in 1..n
    OBVIOUS
  <2> QED BY <2>1
<1>1. U \subseteq Nat /\ U # {}
  BY <1>0
<1>2. PICK u \in U : \A v \in U : ~(<<v, u>> \in OpToRel(<, Nat))
  <2> HIDE DEF U
  <2> QED BY <1>1, WFMin, NatLessThanWellFounded
<1>3. \A v \in U : ~(v < u)
  BY <1>1, <1>2 DEF OpToRel
<1>4. PICK x \in T : u = n - x
  BY <1>2
<1>5. ASSUME NEW y \in T PROVE y <= x
  <2>1. n - y \in U
    OBVIOUS
  <2>2. ~(n - y < n - x)
    BY <2>1, <1>3, <1>4
  <2>3. x \in Nat /\ y \in Nat
    BY <1>0
  <2> QED BY <2>2, <2>3
<1> QED BY <1>5

\* Predictor::push keeps a well-formed list and its bound.
LEMMA PushType ==
  ASSUME NEW p \in Seq(HotEntry), Len(p) <= Capacity, NEW e \in HotEntry
  PROVE  Push(p, e) \in Seq(HotEntry) /\ Len(Push(p, e)) <= Capacity
<1> DEFINE q == <<e>> \o p
<1>1. q \in Seq(HotEntry) /\ Len(q) = Len(p) + 1 /\ Len(p) \in Nat
  OBVIOUS
<1>2. CASE Len(q) > Capacity
  <2>1. /\ SubSeq(q, 1, Len(q) - 1) \in Seq(HotEntry)
        /\ Len(SubSeq(q, 1, Len(q) - 1)) = Len(p)
    BY <1>1
  <2> QED BY <2>1, <1>2 DEF Push
<1>3. CASE ~(Len(q) > Capacity)
  BY <1>1, <1>3, HistoryAssumption DEF Push
<1> QED BY <1>2, <1>3

\* Predictor::mark_done changes exit codes only.
LEMMA MarkDoneType ==
  ASSUME NEW p \in Seq(HotEntry), NEW code \in ExitCodes
  PROVE  MarkDone(p, code) \in Seq(HotEntry) /\ Len(MarkDone(p, code)) = Len(p)
<1>1. p \in [1..Len(p) -> HotEntry] /\ DOMAIN p = 1..Len(p) /\ Len(p) \in Nat
  OBVIOUS
<1>2. ASSUME NEW a \in 1..Len(p)
      PROVE  p[a] \in HotEntry /\ [p[a] EXCEPT !.exit = code] \in HotEntry
  BY <1>1 DEF HotEntry, Exits
<1>3. MarkDone(p, code) \in [1..Len(p) -> HotEntry]
  BY <1>1, <1>2, Zenon DEF MarkDone
<1> QED BY <1>1, <1>3, FunctionIsSeq

\* What Store::recent returns fits the predictor.
LEMMA LoadType ==
  ASSUME rows \in Seq(Row), NEW p \in Newest(Ids, Capacity)
  PROVE  Load(p) \in Seq(HotEntry) /\ Len(Load(p)) <= Capacity
<1> DEFINE size == IF Cardinality(Ids) < Capacity THEN Cardinality(Ids) ELSE Capacity
<1>1. Ids = 1..Len(rows) /\ Cardinality(Ids) = Len(rows) /\ Len(rows) \in Nat
  <2>1. Ids = 1..Len(rows) /\ Len(rows) \in Nat
    BY DEF Ids
  <2>2. Cardinality(1..Len(rows)) = Len(rows)
    BY <2>1, FS_Interval
  <2> QED BY <2>1, <2>2
<1>2. p \in [1..size -> Ids] /\ size \in Nat /\ size <= Capacity
  BY <1>1, HistoryAssumption DEF Newest, Listings
<1>3. ASSUME NEW a \in 1..size
      PROVE  [row |-> p[a], exit |-> rows[p[a]].exit] \in HotEntry
  <2>1. p[a] \in 1..Len(rows)
    BY <1>1, <1>2
  <2>2. rows[p[a]] \in Row
    BY <2>1
  <2> QED BY <2>1, <2>2, <1>1 DEF HotEntry, Row
<1>4. Load(p) \in [1..size -> HotEntry]
  BY <1>2, <1>3 DEF Load
<1> QED BY <1>2, <1>4, FunctionIsSeq

\* A nonempty set of positions has a first one.
LEMMA HasMin ==
  ASSUME NEW T \in SUBSET Nat, T # {}
  PROVE  \E x \in T : \A y \in T : x <= y
<1>1. PICK x \in T : \A y \in T : ~(<<y, x>> \in OpToRel(<, Nat))
  BY WFMin, NatLessThanWellFounded
<1>2. ASSUME NEW y \in T PROVE x <= y
  <2>1. x \in Nat /\ y \in Nat
    OBVIOUS
  <2>2. ~(y < x)
    BY <1>1, <2>1 DEF OpToRel
  <2> QED BY <2>1, <2>2
<1> QED BY <1>2

\* The entries of a history file.
LEMMA FileEntries ==
  ASSUME NEW file \in ImportFiles
  PROVE  /\ DOMAIN file = 1..Len(file) /\ Len(file) \in Nat
         /\ \A k \in DOMAIN file : file[k].n \in Nat /\ file[k].ts \in Nat \cup {NoTime}
<1> DEFINE E == [n : Nat, ts : Nat \cup {NoTime}]
<1>1. file \in Seq(E)
  BY HistoryAssumption
<1>2. \A e \in E : e.n \in Nat /\ e.ts \in Nat \cup {NoTime}
  OBVIOUS
<1> HIDE DEF E
<1>3. DOMAIN file = 1..Len(file) /\ Len(file) \in Nat /\ \A k \in 1..Len(file) : file[k] \in E
  BY <1>1
<1> QED BY <1>2, <1>3

\* Division that rounds towards zero gives integers.
LEMMA QuotientType ==
  ASSUME NEW a \in Int, NEW b \in Nat \ {0}
  PROVE  Quotient(a, b) \in Int
<1>1. \A x \in Int : x \div b \in Int
  OBVIOUS
<1>2. -a \in Int
  OBVIOUS
<1>3. a \div b \in Int /\ (-a) \div b \in Int
  BY <1>1, <1>2
<1> QED BY <1>3 DEF Quotient

\* ... no further from zero than what is divided, and on its side.
LEMMA QuotientBelow ==
  ASSUME NEW x \in Int, NEW d \in Nat \ {0}, NEW b \in Nat, d < b
  PROVE  Quotient(x * d, b) <= IF x >= 0 THEN x ELSE 0
<1>1. CASE x >= 0
  <2> DEFINE q == (x * d) \div b
  <2>1. x * d \in Nat /\ x * d <= x * b
    BY <1>1
  <2>2. q \in Int /\ b * q <= x * d
    BY <2>1
  <2>3. q <= x
    <3> SUFFICES ASSUME q >= x + 1 PROVE FALSE
      BY <2>2
    <3> HIDE DEF q
    <3>1. b * q >= b * (x + 1)
      BY <2>2
    <3>2. b * (x + 1) = x * b + b
      OBVIOUS
    <3> QED BY <2>1, <2>2, <3>1, <3>2
  <2> QED BY <1>1, <2>1, <2>3 DEF Quotient
<1>2. CASE x < 0
  <2> DEFINE y == -(x * d)
  <2>1. y \in Nat /\ y > 0 /\ x * d \in Int
    BY <1>2
  <2>2. y \div b \in Int /\ y \div b >= 0
    <3> HIDE DEF y
    <3> QED BY <2>1
  <2>3. ~(x * d >= 0)
    BY <2>1
  <2>4. Quotient(x * d, b) = -(y \div b)
    BY <2>3 DEF Quotient
  <2> HIDE DEF y
  <2> QED BY <1>2, <2>2, <2>4
<1> QED BY <1>1, <1>2

\* An entry without a time gets one between two times: the later is in the file or
\* not after now, the earlier in the file or not after the later.
LEMMA TimeOfParts ==
  ASSUME clock \in Nat, NEW file \in ImportFiles, NEW k \in DOMAIN file \ Timed(file)
  PROVE  \E lo, hi \in Int, d, b \in Nat \ {0} :
           /\ d < b /\ TimeOf(file, k, clock) = lo + Quotient((hi - lo) * d, b)
           /\ hi <= clock \/ \E j \in Timed(file) : hi = file[j].ts
           /\ lo <= hi \/ \E j \in Timed(file) : lo = file[j].ts
<1> DEFINE earlier == {j \in Timed(file) : j < k}
           later   == {j \in Timed(file) : k < j}
           from == IF earlier = {} THEN 0 ELSE Max(earlier)
           to   == IF later = {} THEN Len(file) + 1 ELSE Min(later)
           hi   == IF later = {} THEN AnchorEnd(clock) ELSE file[to].ts
           lo   == IF earlier = {} THEN hi - Span ELSE file[from].ts
<1>0. Span \in Nat
  BY HistoryAssumption
<1>1. /\ DOMAIN file = 1..Len(file) /\ Len(file) \in Nat /\ k \in Nat
      /\ \A j \in DOMAIN file : file[j].ts \in Nat \cup {NoTime}
  BY FileEntries
<1>2. \A j \in Timed(file) : file[j].ts \in Nat /\ j \in 1..Len(file) /\ j \in Nat
  BY <1>1 DEF Timed
<1>3. ASSUME earlier # {} PROVE Max(earlier) \in earlier
  <2>1. earlier \in SUBSET (1..Len(file))
    BY <1>2
  <2>2. \E x \in earlier : \A y \in earlier : y <= x
    BY <1>1, <1>3, <2>1, HasMax
  <2>3. \E x \in earlier : \A y \in earlier : x >= y
    BY <1>2, <2>2
  <2> QED BY <2>3 DEF Max
<1>4. ASSUME later # {} PROVE Min(later) \in later
  <2>1. later \in SUBSET Nat
    BY <1>2
  <2>2. \E x \in later : \A y \in later : x <= y
    BY <1>4, <2>1, HasMin
  <2> QED BY <2>2 DEF Min
<1>5. from \in Nat /\ from < k
  BY <1>1, <1>2, <1>3
<1>6. to \in Nat /\ k < to
  BY <1>1, <1>2, <1>4
<1>7. AnchorEnd(clock) \in Int /\ AnchorEnd(clock) <= clock
  <2>1. clock % Hour \in Int /\ clock % Hour >= 0
    BY HistoryAssumption
  <2> QED BY <2>1 DEF AnchorEnd
<1>8. hi \in Int /\ (hi <= clock \/ \E j \in Timed(file) : hi = file[j].ts)
  <2>1. CASE later = {}
    <3>1. hi = AnchorEnd(clock)
      BY <2>1
    <3> HIDE DEF hi
    <3> QED BY <1>7, <3>1
  <2>2. CASE later # {}
    <3>1. hi = file[Min(later)].ts /\ Min(later) \in Timed(file)
      BY <1>4, <2>2
    <3> HIDE DEF hi, later
    <3> QED BY <1>2, <3>1
  <2> QED BY <2>1, <2>2
<1>9. lo \in Int /\ (lo <= hi \/ \E j \in Timed(file) : lo = file[j].ts)
  <2>1. CASE earlier = {}
    <3>1. lo = hi - Span
      BY <2>1
    <3> HIDE DEF hi, lo
    <3> QED BY <1>0, <1>8, <3>1
  <2>2. CASE earlier # {}
    <3>1. lo = file[Max(earlier)].ts /\ Max(earlier) \in Timed(file)
      BY <1>3, <2>2
    <3> HIDE DEF lo, hi, earlier
    <3> QED BY <1>2, <3>1
  <2> QED BY <2>1, <2>2
<1>10. TimeOf(file, k, clock) = lo + Quotient((hi - lo) * (k - from), to - from)
  BY DEF TimeOf
<1> HIDE DEF from, to, hi, lo
<1>11. k - from \in Nat \ {0} /\ to - from \in Nat \ {0} /\ k - from < to - from
  BY <1>1, <1>5, <1>6
<1> QED BY <1>8, <1>9, <1>10, <1>11

\* Every entry of a history file gets a time, given or made up.
LEMMA TimeOfType ==
  ASSUME clock \in Nat, NEW file \in ImportFiles, NEW k \in DOMAIN file
  PROVE  TimeOf(file, k, clock) \in Int
<1>1. CASE k \in Timed(file)
  BY <1>1, FileEntries DEF TimeOf, Timed
<1>2. CASE k \notin Timed(file)
  <2>1. k \in DOMAIN file \ Timed(file)
    BY <1>2
  <2>2. PICK lo, hi \in Int, d, b \in Nat \ {0} :
          /\ d < b /\ TimeOf(file, k, clock) = lo + Quotient((hi - lo) * d, b)
          /\ hi <= clock \/ \E j \in Timed(file) : hi = file[j].ts
          /\ lo <= hi \/ \E j \in Timed(file) : lo = file[j].ts
    BY <2>1, TimeOfParts, Zenon
  <2>3. (hi - lo) * d \in Int
    OBVIOUS
  <2> QED BY <2>2, <2>3, QuotientType
<1> QED BY <1>1, <1>2

\* The rows s are those of the entries p of a file, in its order.
InFileOrder(file, s, p) ==
  /\ \A a, b \in 1..Len(s) : a < b => p[a] < p[b]
  /\ \A a \in 1..Len(s) : s[a].n = file[p[a]].n /\ s[a].ts = TimeOf(file, p[a], clock)

\* The rows an import appends are rows: those of the entries that are not there,
\* in the order of the file.
LEMMA ImportType ==
  ASSUME clock \in Nat, rows \in Seq(Row), NEW file \in ImportFiles, Import(file)
  PROVE  \E s \in Seq(Row) : /\ rows' = rows \o s
                             /\ \A a \in 1..Len(s) : /\ s[a].session = Importer
                                                      /\ s[a].exit = 0
                             /\ \E p \in [1..Len(s) -> Fresh(file)] : InFileOrder(file, s, p)
<1> DEFINE fresh == Fresh(file)
           size  == Cardinality(fresh)
           new(p) == [a \in 1..size |->
                        [session |-> Importer, n |-> file[p[a]].n,
                         ts |-> TimeOf(file, p[a], clock), exit |-> 0, by |-> 0]]
<1>0. /\ DOMAIN file = 1..Len(file) /\ Len(file) \in Nat
      /\ \A k \in DOMAIN file : file[k].n \in Nat
  BY FileEntries
<1>f. fresh \subseteq DOMAIN file
  BY DEF Fresh, Entries
<1>1. size \in Nat
  <2> HIDE DEF fresh
  <2>0. IsFiniteSet(1..Len(file))
    BY <1>0, FS_Interval
  <2>1. IsFiniteSet(fresh)
    BY <1>0, <1>f, <2>0, FS_Subset
  <2> QED BY <2>1, FS_CardinalityType
<1>2. PICK p \in [1..size -> fresh] : /\ \A a, b \in 1..size : a < b => p[a] < p[b]
                                      /\ rows' = rows \o new(p)
  BY DEF Import
<1>3. ASSUME NEW a \in 1..size
      PROVE  /\ new(p)[a] \in Row
             /\ new(p)[a].session = Importer /\ new(p)[a].exit = 0
             /\ new(p)[a].n = file[p[a]].n /\ new(p)[a].ts = TimeOf(file, p[a], clock)
  <2> HIDE DEF fresh
  <2>1. p[a] \in DOMAIN file
    BY <1>2, <1>f
  <2>2. file[p[a]].n \in Nat /\ TimeOf(file, p[a], clock) \in Int
    BY <1>0, <2>1, TimeOfType
  <2> QED BY <2>2 DEF Row, Exits
<1> HIDE DEF size
<1>4. new(p) \in [1..size -> Row]
  BY <1>3
<1>5. new(p) \in Seq(Row) /\ Len(new(p)) = size
  BY <1>1, <1>4, FunctionIsSeq
<1> HIDE DEF new, fresh
<1> QED BY <1>2, <1>3, <1>5 DEF fresh, InFileOrder

-----------------------------------------------------------------------------
\* Init establishes the types.
LEMMA TypeInit == Init => TypeOK
BY HistoryAssumption DEF Init, TypeOK, NoFailure, Exits

\* Every action preserves the types.
LEMMA TypeStep == TypeOK /\ [Next]_vars => TypeOK'
<1> SUFFICES ASSUME TypeOK, [Next]_vars PROVE TypeOK'
  OBVIOUS
<1> USE HistoryAssumption
<1>1. ASSUME NEW s \in Sessions, NEW kind \in Kinds, Preexec(s, kind)
      PROVE  TypeOK'
  <2>1. ran' \in Nat /\ running' = [running EXCEPT ![s] = ran']
    BY <1>1 DEF TypeOK, Preexec
  <2>2. running' \in [Sessions -> Nat]
    BY <2>1 DEF TypeOK
  <2>3. [session |-> s, n |-> ran', kind |-> kind] \in ExecRequest
    BY <2>1 DEF ExecRequest
  <2>4. execs' \subseteq ExecRequest
    BY <1>1, <2>3 DEF TypeOK, Preexec
  <2> QED BY <1>1, <2>1, <2>2, <2>4 DEF TypeOK, Preexec, daemonVars
<1>2. ASSUME NEW s \in Sessions, NEW code \in ExitCodes, Precmd(s, code)
      PROVE  TypeOK'
  BY <1>2 DEF TypeOK, Precmd, DoneRequest, daemonVars
<1>3. ASSUME NEW m \in execs, Exec(m)
      PROVE  TypeOK'
  <2>1. m.session \in Sessions /\ m.n \in Nat
    BY DEF TypeOK, ExecRequest
  <2>2. CASE ~ShouldRecord(m.kind)
    BY <1>3, <2>1, <2>2 DEF TypeOK, Exec, shellVars
  <2>3. CASE ShouldRecord(m.kind)
    <3> DEFINE id  == Len(rows) + 1
               row == [session |-> m.session, n |-> m.n, ts |-> clock,
                       exit |-> NoExit, by |-> 0]
    <3>1. row \in Row /\ id \in Nat /\ [row |-> id, exit |-> NoExit] \in HotEntry
      BY <2>1 DEF TypeOK, Row, HotEntry, Exits
    <3>2. rows' = Append(rows, row) /\ predictor' = Push(predictor, [row |-> id, exit |-> NoExit])
          /\ inflight' = [inflight EXCEPT ![m.session] = id] /\ known' = known \cup {id}
      BY <1>3, <2>3 DEF Exec
    <3> HIDE DEF id, row
    <3>3. rows' \in Seq(Row) /\ predictor' \in Seq(HotEntry) /\ Len(predictor') <= Capacity
      BY <3>1, <3>2, PushType DEF TypeOK
    <3> QED BY <1>3, <2>1, <3>1, <3>2, <3>3 DEF TypeOK, Exec, shellVars
  <2> QED BY <2>2, <2>3
<1>4. ASSUME NEW m \in dones, NEW paused \in BOOLEAN, Done(m, paused)
      PROVE  TypeOK'
  <2>1. m.session \in Sessions /\ m.n \in Nat /\ m.exit \in ExitCodes
    BY DEF TypeOK, DoneRequest
  <2>2. rows' \in Seq(Row)
    <3>1. CASE OpenRows(m.session) = {}
      BY <1>4, <3>1 DEF TypeOK, Done
    <3>2. CASE OpenRows(m.session) # {}
      <4>1. rows' = [rows EXCEPT ![LatestOpen(m.session)].exit = m.exit,
                                 ![LatestOpen(m.session)].by = m.n]
        BY <1>4, <3>2 DEF Done
      <4>2. rows \in [1..Len(rows) -> Row] /\ Len(rows) \in Nat
        BY DEF TypeOK
      <4>3. ASSUME NEW r \in Row
            PROVE  [[r EXCEPT !.exit = m.exit] EXCEPT !.by = m.n] \in Row
        BY <2>1 DEF Row, Exits
      <4>4. rows' \in [1..Len(rows) -> Row]
        <5>1. /\ DOMAIN rows' = 1..Len(rows)
              /\ rows' = [i \in DOMAIN rows' |-> rows'[i]]
          BY <4>1, <4>2
        <5>2. ASSUME NEW i \in 1..Len(rows) PROVE rows'[i] \in Row
          <6>1. \/ rows'[i] = [[rows[i] EXCEPT !.exit = m.exit] EXCEPT !.by = m.n]
                \/ rows'[i] = rows[i]
            BY <4>1, <4>2
          <6> QED BY <4>2, <4>3, <6>1
        <5> QED BY <5>1, <5>2
      <4> QED BY <4>2, <4>4, FunctionIsSeq
    <3> QED BY <3>1, <3>2
  <2>3. predictor' \in Seq(HotEntry) /\ Len(predictor') <= Capacity
    <3>1. predictor' = predictor \/ predictor' = MarkDone(predictor, m.exit)
      BY <1>4 DEF Done
    <3>2. predictor \in Seq(HotEntry) /\ Len(predictor) <= Capacity
      BY DEF TypeOK
    <3> QED BY <2>1, <3>1, <3>2, MarkDoneType
  <2>4. lastFailure' \in [Sessions -> [row : Nat, exit : Exits]]
    BY <1>4, <2>1 DEF TypeOK, Done, Exits
  <2> QED BY <1>4, <2>1, <2>2, <2>3, <2>4 DEF TypeOK, Done, shellVars
<1>5. ASSUME Reload PROVE TypeOK'
  <2>1. predictor' \in Seq(HotEntry) /\ Len(predictor') <= Capacity
    BY <1>5, LoadType DEF TypeOK, Reload
  <2>2. known' \subseteq Nat
    BY <1>5 DEF TypeOK, Reload, Ids
  <2> QED BY <1>5, <2>1, <2>2 DEF TypeOK, Reload, shellVars
<1>6. ASSUME NEW m \in execs, DropExec(m) PROVE TypeOK'
  BY <1>6 DEF TypeOK, DropExec, shellVars, daemonVars, ExecRequest
<1>7. ASSUME NEW m \in dones, DropDone(m) PROVE TypeOK'
  BY <1>7 DEF TypeOK, DropDone, shellVars, daemonVars, DoneRequest
<1>8. ASSUME DropReload PROVE TypeOK'
  BY <1>8 DEF TypeOK, DropReload, shellVars, daemonVars
<1>9. ASSUME NEW file \in ImportFiles, Import(file) PROVE TypeOK'
  <2>1. PICK s \in Seq(Row) : rows' = rows \o s
    BY <1>9, ImportType DEF TypeOK
  <2>2. rows' \in Seq(Row)
    BY <2>1 DEF TypeOK
  <2> QED BY <1>9, <2>2 DEF TypeOK, Import, shellVars, daemonVars
<1>10. ASSUME Stop PROVE TypeOK'
  <2>1. NoFailure \in [row : Nat, exit : Exits]
    BY DEF NoFailure, Exits
  <2>2. /\ predictor' \in Seq(HotEntry) /\ Len(predictor') <= Capacity
        /\ known' \subseteq Nat /\ up' \in BOOLEAN
    <3>1. << >> \in Seq(HotEntry) /\ Len(<< >>) = 0
      OBVIOUS
    <3>2. predictor' = << >> /\ known' = {} /\ up' = FALSE
      BY <1>10 DEF Stop
    <3>3. Len(predictor') <= Capacity
      BY <3>1, <3>2
    <3>4. predictor' \in Seq(HotEntry)
      BY <3>1, <3>2
    <3>5. known' \subseteq Nat
      BY <3>2
    <3>6. up' \in BOOLEAN
      BY <3>2
    <3> QED BY <3>3, <3>4, <3>5, <3>6
  <2>3. /\ inflight' \in [Sessions -> Nat]
        /\ lastFailure' \in [Sessions -> [row : Nat, exit : Exits]]
        /\ crashes' \in Nat
    BY <1>10, <2>1 DEF TypeOK, Stop
  <2> QED BY <1>10, <2>2, <2>3 DEF TypeOK, Stop, shellVars, netVars
<1>11. ASSUME Start PROVE TypeOK'
  <2>1. predictor' \in Seq(HotEntry) /\ Len(predictor') <= Capacity
    BY <1>11, LoadType DEF TypeOK, Start
  <2>2. known' \subseteq Nat
    BY <1>11 DEF TypeOK, Start, Ids
  <2> QED BY <1>11, <2>1, <2>2 DEF TypeOK, Start, shellVars, netVars
<1>12. ASSUME Tick PROVE TypeOK'
  BY <1>12 DEF TypeOK, Tick, shellVars, netVars, daemonVars
<1>13. CASE UNCHANGED vars
  BY <1>13 DEF TypeOK, vars, shellVars, netVars, daemonVars
<1> QED
  BY <1>1, <1>2, <1>3, <1>4, <1>5, <1>6, <1>7, <1>8, <1>9, <1>10, <1>11, <1>12, <1>13
     DEF Next, Shell, Handler, Drop, World

\* Every reachable state is well typed; in particular the predictor never holds
\* more than hot_rows entries.
THEOREM TypeCorrect == Spec => []TypeOK
BY TypeInit, TypeStep, PTL DEF Spec

-----------------------------------------------------------------------------
(***************************************************************************)
(* What a step does to the table.                                          *)
(***************************************************************************)

\* The row record_done closes is an open row of the session, the last of them.
LEMMA LatestOpenIsOpen ==
  ASSUME rows \in Seq(Row), NEW s, OpenRows(s) # {}
  PROVE  /\ LatestOpen(s) \in OpenRows(s)
         /\ \A j \in OpenRows(s) : j <= LatestOpen(s)
<1>1. Len(rows) \in Nat /\ OpenRows(s) \in SUBSET (1..Len(rows))
  BY DEF OpenRows, RowsOf, Ids
<1>2. \E i \in OpenRows(s) : \A j \in OpenRows(s) : j <= i
  <2> HIDE DEF OpenRows
  <2> QED BY <1>1, HasMax
<1> QED BY <1>2 DEF LatestOpen

\* Exec inserts one open row of the session that sent it, at the next id.
LEMMA ExecRows ==
  ASSUME TypeOK, NEW m \in execs, Exec(m), ShouldRecord(m.kind)
  PROVE  /\ DOMAIN rows' = 1..(Len(rows) + 1) /\ DOMAIN rows = 1..Len(rows)
         /\ Len(rows) \in Nat /\ Len(rows') = Len(rows) + 1
         /\ \A i \in DOMAIN rows : rows'[i] = rows[i]
         /\ rows'[Len(rows) + 1].session = m.session /\ rows'[Len(rows) + 1].n = m.n
         /\ rows'[Len(rows) + 1].ts = clock /\ rows'[Len(rows) + 1].exit = NoExit
<1> DEFINE row == [session |-> m.session, n |-> m.n, ts |-> clock,
                   exit |-> NoExit, by |-> 0]
<1>1. rows' = Append(rows, row)
  BY DEF Exec
<1>2. rows \in Seq(Row) /\ m.session \in Sessions
  BY DEF TypeOK, ExecRequest
<1>3. row.session = m.session /\ row.n = m.n /\ row.ts = clock /\ row.exit = NoExit
  OBVIOUS
<1> HIDE DEF row
<1>4. /\ Len(rows) \in Nat /\ Len(rows') = Len(rows) + 1
      /\ rows'[Len(rows) + 1] = row
      /\ \A i \in 1..Len(rows) : rows'[i] = rows[i]
  BY <1>1, <1>2
<1>5. DOMAIN rows' = 1..(Len(rows) + 1) /\ DOMAIN rows = 1..Len(rows)
  BY <1>1, <1>2
<1> QED BY <1>3, <1>4, <1>5

\* Done changes at most the outcome of the latest open row of its session.
LEMMA DoneRows ==
  ASSUME TypeOK, NEW m \in dones, NEW paused \in BOOLEAN, Done(m, paused)
  PROVE  /\ DOMAIN rows' = DOMAIN rows /\ Len(rows') = Len(rows)
         /\ \A i \in DOMAIN rows :
              /\ rows'[i].session = rows[i].session
              /\ rows'[i].n = rows[i].n
              /\ rows'[i].ts = rows[i].ts
         /\ OpenRows(m.session) = {} => rows' = rows
         /\ OpenRows(m.session) # {} =>
              /\ rows'[LatestOpen(m.session)].exit = m.exit
              /\ rows'[LatestOpen(m.session)].by = m.n
              /\ \A i \in DOMAIN rows \ {LatestOpen(m.session)} : rows'[i] = rows[i]
<1> DEFINE s == m.session
           k == LatestOpen(s)
<1>1. rows \in [1..Len(rows) -> Row] /\ Len(rows) \in Nat /\ rows \in Seq(Row)
      /\ DOMAIN rows = 1..Len(rows)
  BY DEF TypeOK
<1>2. CASE OpenRows(s) = {}
  <2>1. rows' = rows
    BY <1>2 DEF Done
  <2> QED BY <2>1, <1>2
<1>3. CASE OpenRows(s) # {}
  <2>1. k \in DOMAIN rows
    BY <1>1, <1>3, LatestOpenIsOpen DEF OpenRows, RowsOf, Ids
  <2>2. rows' = [rows EXCEPT ![k].exit = m.exit, ![k].by = m.n]
    BY <1>3 DEF Done
  <2> HIDE DEF k
  <2>3. rows[k] \in Row
    BY <2>1, <1>1
  <2>4. DOMAIN rows' = DOMAIN rows
        /\ \A i \in DOMAIN rows \ {k} : rows'[i] = rows[i]
    BY <1>1, <2>1, <2>2
  <2>5. rows'[k] = [[rows[k] EXCEPT !.exit = m.exit] EXCEPT !.by = m.n]
    BY <1>1, <2>1, <2>2
  <2>6. /\ rows'[k].exit = m.exit /\ rows'[k].by = m.n /\ rows'[k].session = rows[k].session
        /\ rows'[k].n = rows[k].n /\ rows'[k].ts = rows[k].ts
    BY <2>3, <2>5 DEF Row
  <2>7. rows' \in [1..Len(rows) -> Row]
    <3>1. rows'[k] \in Row
      <4>1. m.exit \in Exits /\ m.n \in Nat
        BY DEF TypeOK, DoneRequest, Exits
      <4> QED BY <2>3, <2>5, <4>1 DEF Row
    <3> QED BY <1>1, <2>1, <2>2, <2>4, <3>1
  <2>8. Len(rows') = Len(rows)
    BY <2>7, <1>1, FunctionIsSeq
  <2> QED BY <1>3, <2>4, <2>6, <2>8 DEF k
<1> QED BY <1>2, <1>3

\* An import appends rows of no shell's session and leaves the others alone.
LEMMA ImportRows ==
  ASSUME TypeOK, NEW file \in ImportFiles, Import(file)
  PROVE  /\ DOMAIN rows \subseteq DOMAIN rows' /\ Len(rows) <= Len(rows')
         /\ \A i \in DOMAIN rows : rows'[i] = rows[i]
         /\ \A i \in DOMAIN rows' \ DOMAIN rows : /\ rows'[i].session = Importer
                                                  /\ rows'[i].exit = 0
<1>1. rows \in Seq(Row) /\ clock \in Nat
  BY DEF TypeOK
<1>2. PICK s \in Seq(Row) : /\ rows' = rows \o s
                            /\ \A a \in 1..Len(s) : /\ s[a].session = Importer
                                                     /\ s[a].exit = 0
  BY <1>1, ImportType
<1>3. /\ DOMAIN rows = 1..Len(rows) /\ Len(rows) \in Nat /\ Len(s) \in Nat
      /\ DOMAIN rows' = 1..(Len(rows) + Len(s)) /\ Len(rows') = Len(rows) + Len(s)
      /\ \A i \in 1..Len(rows) : rows'[i] = rows[i]
  BY <1>1, <1>2
<1>4. ASSUME NEW i \in (Len(rows) + 1)..(Len(rows) + Len(s))
      PROVE  rows'[i] = s[i - Len(rows)] /\ i - Len(rows) \in 1..Len(s)
  BY <1>1, <1>2, <1>4
<1>5. ASSUME NEW i \in DOMAIN rows' \ DOMAIN rows
      PROVE  rows'[i].session = Importer /\ rows'[i].exit = 0
  <2>1. i \in (Len(rows) + 1)..(Len(rows) + Len(s))
    BY <1>3
  <2> QED BY <1>2, <1>4, <2>1
<1> QED BY <1>3, <1>5

-----------------------------------------------------------------------------
(***************************************************************************)
(* The inductive invariant.  InflightTracksStore is not inductive alone:   *)
(* a daemon that starts must find the map empty.  Nor is                   *)
(* FixMatchesHistory: it needs InflightTracksStore, for Done reads the     *)
(* command from the map and writes the outcome into the table, and it      *)
(* needs that a failure has an exit code, for a row that has one is never  *)
(* written again.                                                          *)
(***************************************************************************)

\* A daemon that is down remembers nothing of what runs.
DownForgets == ~up => \A s \in Sessions : inflight[s] = 0

\* A failure has an exit code.
FailureHasCode == \A s \in Sessions : lastFailure[s].exit # NoExit

HistoryInv ==
  /\ TypeOK
  /\ InflightTracksStore
  /\ DownForgets
  /\ FixMatchesHistory
  /\ FailureHasCode

\* A fresh daemon with an empty table satisfies it.
LEMMA HistoryInvInit == Init => HistoryInv
<1> SUFFICES ASSUME Init PROVE HistoryInv
  OBVIOUS
<1>1. TypeOK
  BY TypeInit
<1>2. InflightTracksStore
  BY DEF Init, InflightTracksStore, OpenRows, RowsOf, Ids
<1>3. DownForgets /\ FixMatchesHistory /\ FailureHasCode
  BY HistoryAssumption DEF Init, DownForgets, FixMatchesHistory, FailureHasCode, NoFailure
<1> QED BY <1>1, <1>2, <1>3 DEF HistoryInv

\* A step that leaves the table, the map and the daemon alone.
LEMMA InflightFrame ==
  ASSUME InflightTracksStore, DownForgets,
         rows' = rows, up' = up, inflight' = inflight, boot' = boot
  PROVE  InflightTracksStore' /\ DownForgets'
BY DEF InflightTracksStore, DownForgets, OpenRows, RowsOf, Ids

\* Every action keeps the map and the table in agreement.
LEMMA InflightStep ==
  ASSUME HistoryInv, [Next]_vars
  PROVE  InflightTracksStore' /\ DownForgets'
<1> USE DEF HistoryInv
<1>0. inflight \in [Sessions -> Nat] /\ rows \in Seq(Row) /\ boot \in Nat
  BY DEF TypeOK
<1>1. ASSUME NEW s \in Sessions, NEW kind \in Kinds, Preexec(s, kind)
      PROVE  InflightTracksStore' /\ DownForgets'
  BY <1>1, InflightFrame DEF Preexec, daemonVars
<1>2. ASSUME NEW s \in Sessions, NEW code \in ExitCodes, Precmd(s, code)
      PROVE  InflightTracksStore' /\ DownForgets'
  BY <1>2, InflightFrame DEF Precmd, daemonVars
<1>3. ASSUME NEW m \in execs, Exec(m)
      PROVE  InflightTracksStore' /\ DownForgets'
  <2>1. CASE ~ShouldRecord(m.kind)
    BY <1>3, <2>1, InflightFrame DEF Exec
  <2>2. CASE ShouldRecord(m.kind)
    <3> DEFINE id == Len(rows) + 1
    <3>1. /\ DOMAIN rows' = 1..id /\ DOMAIN rows = 1..Len(rows) /\ Len(rows) \in Nat
          /\ \A i \in DOMAIN rows : rows'[i] = rows[i]
          /\ rows'[id].session = m.session /\ rows'[id].exit = NoExit
      BY <1>3, <2>2, ExecRows
    <3>2. inflight' = [inflight EXCEPT ![m.session] = id] /\ up /\ up' = up /\ boot' = boot
      BY <1>3, <2>2 DEF Exec
    <3>3. ASSUME NEW s \in Sessions, s # m.session
          PROVE  RowsOf(s)' = RowsOf(s) /\ OpenRows(s)' = OpenRows(s)
      BY <3>1, <3>3 DEF RowsOf, OpenRows, Ids
    <3>4. ASSUME NEW s \in Sessions, s = m.session
          PROVE  /\ id \in OpenRows(s)' /\ \A i \in RowsOf(s)' : i <= id /\ i \in Nat
                 /\ \A i \in OpenRows(s)' : i \in RowsOf(s)' /\ i \in Nat
                 /\ id \in RowsOf(s)'
      BY <3>1, <3>4 DEF RowsOf, OpenRows, Ids
    <3>5. id \in Nat /\ m.session \in Sessions
      BY <3>1 DEF TypeOK, ExecRequest
    <3> HIDE DEF id
    <3>6. ASSUME NEW s \in Sessions
          PROVE  /\ inflight'[s] # 0 => /\ inflight'[s] \in OpenRows(s)'
                                        /\ \A i \in RowsOf(s)' : i <= inflight'[s]
                 /\ \A i \in OpenRows(s)' :
                      (\A j \in RowsOf(s)' : j <= i) /\ i > boot' => inflight'[s] = i
      <4>1. CASE s = m.session
        <5>1. inflight'[s] = id
          BY <1>0, <3>2, <4>1
        <5>2. ASSUME NEW i \in OpenRows(s)', \A j \in RowsOf(s)' : j <= i
              PROVE  i = id
          BY <3>4, <3>5, <4>1, <5>2
        <5> QED BY <3>4, <4>1, <5>1, <5>2
      <4>2. CASE s # m.session
        BY <1>0, <3>2, <3>3, <4>2 DEF InflightTracksStore
      <4> QED BY <4>1, <4>2
    <3>7. InflightTracksStore'
      BY <3>6 DEF InflightTracksStore
    <3>8. DownForgets'
      BY <3>2 DEF DownForgets
    <3> QED BY <3>7, <3>8
  <2> QED BY <2>1, <2>2
<1>4. ASSUME NEW m \in dones, NEW paused \in BOOLEAN, Done(m, paused)
      PROVE  InflightTracksStore' /\ DownForgets'
  <2>1. inflight' = [inflight EXCEPT ![m.session] = 0] /\ up /\ up' = up /\ boot' = boot
    BY <1>4 DEF Done
  <2>2. m.session \in Sessions /\ m.exit \in ExitCodes /\ m.exit # NoExit
    BY HistoryAssumption DEF TypeOK, DoneRequest
  <2>3. ASSUME NEW s \in Sessions PROVE RowsOf(s)' = RowsOf(s)
    BY <1>4, DoneRows DEF RowsOf, Ids
  <2>4. ASSUME NEW s \in Sessions, s # m.session PROVE OpenRows(s)' = OpenRows(s)
    <3>1. CASE OpenRows(m.session) = {}
      BY <1>4, <3>1, DoneRows DEF OpenRows, RowsOf, Ids
    <3>2. CASE OpenRows(m.session) # {}
      <4>1. rows[LatestOpen(m.session)].session = m.session
        BY <1>0, <3>2, LatestOpenIsOpen DEF OpenRows, RowsOf
      <4>2. \A i \in RowsOf(s) : rows'[i] = rows[i]
        BY <1>4, <2>4, <3>2, <4>1, DoneRows DEF RowsOf, Ids
      <4> QED BY <2>3, <4>2 DEF OpenRows
    <3> QED BY <3>1, <3>2
  <2>5. ASSUME NEW i \in OpenRows(m.session)'
        PROVE  i \in OpenRows(m.session) /\ i # LatestOpen(m.session)
    <3>1. CASE OpenRows(m.session) = {}
      BY <1>4, <2>5, <3>1, DoneRows DEF OpenRows, RowsOf, Ids
    <3>2. CASE OpenRows(m.session) # {}
      <4>1. i # LatestOpen(m.session)
        BY <1>4, <2>2, <2>5, <3>2, DoneRows DEF OpenRows
      <4>2. i \in RowsOf(m.session)
        BY <2>2, <2>3, <2>5 DEF OpenRows
      <4>3. rows'[i] = rows[i]
        BY <1>4, <3>2, <4>1, <4>2, DoneRows DEF RowsOf, Ids
      <4> QED BY <2>5, <4>1, <4>2, <4>3 DEF OpenRows
    <3> QED BY <3>1, <3>2
  <2>6. ASSUME NEW i \in OpenRows(m.session)',
               \A j \in RowsOf(m.session)' : j <= i
        PROVE  i = LatestOpen(m.session)
    <3>1. /\ LatestOpen(m.session) \in OpenRows(m.session)
          /\ \A j \in OpenRows(m.session) : j <= LatestOpen(m.session)
      BY <1>0, <2>5, LatestOpenIsOpen
    <3>2. LatestOpen(m.session) <= i /\ i <= LatestOpen(m.session)
      BY <2>2, <2>3, <2>5, <2>6, <3>1 DEF OpenRows
    <3>3. i \in Nat /\ LatestOpen(m.session) \in Nat
      BY <1>0, <2>5, <3>1 DEF OpenRows, RowsOf, Ids
    <3> QED BY <3>2, <3>3
  <2>7. InflightTracksStore'
    <3> SUFFICES ASSUME NEW s \in Sessions
                 PROVE  /\ inflight'[s] # 0 => /\ inflight'[s] \in OpenRows(s)'
                                               /\ \A i \in RowsOf(s)' : i <= inflight'[s]
                        /\ \A i \in OpenRows(s)' :
                             (\A j \in RowsOf(s)' : j <= i) /\ i > boot' => inflight'[s] = i
      BY DEF InflightTracksStore
    <3>1. CASE s = m.session
      BY <1>0, <2>1, <2>5, <2>6, <3>1
    <3>2. CASE s # m.session
      BY <1>0, <2>1, <2>3, <2>4, <3>2 DEF InflightTracksStore
    <3> QED BY <3>1, <3>2
  <2>8. DownForgets'
    BY <2>1 DEF DownForgets
  <2> QED BY <2>7, <2>8
<1>5. ASSUME Reload PROVE InflightTracksStore' /\ DownForgets'
  BY <1>5, InflightFrame DEF Reload
<1>6. ASSUME NEW m \in execs, DropExec(m) PROVE InflightTracksStore' /\ DownForgets'
  BY <1>6, InflightFrame DEF DropExec, daemonVars
<1>7. ASSUME NEW m \in dones, DropDone(m) PROVE InflightTracksStore' /\ DownForgets'
  BY <1>7, InflightFrame DEF DropDone, daemonVars
<1>8. ASSUME DropReload PROVE InflightTracksStore' /\ DownForgets'
  BY <1>8, InflightFrame DEF DropReload, daemonVars
<1>9. ASSUME NEW file \in ImportFiles, Import(file)
      PROVE  InflightTracksStore' /\ DownForgets'
  <2>1. inflight' = inflight /\ up' = up /\ boot' = boot
    BY <1>9 DEF Import, daemonVars
  <2>2. ASSUME NEW s \in Sessions
        PROVE  RowsOf(s)' = RowsOf(s) /\ OpenRows(s)' = OpenRows(s)
    BY <1>9, ImportRows, HistoryAssumption DEF RowsOf, OpenRows, Ids
  <2> QED BY <2>1, <2>2 DEF InflightTracksStore, DownForgets
<1>10. ASSUME Stop PROVE InflightTracksStore' /\ DownForgets'
  BY <1>10 DEF Stop, InflightTracksStore, DownForgets
<1>11. ASSUME Start PROVE InflightTracksStore' /\ DownForgets'
  <2>1. inflight' = inflight /\ (\A s \in Sessions : inflight[s] = 0)
        /\ rows' = rows /\ boot' = Len(rows) /\ up'
    BY <1>11 DEF Start, DownForgets
  <2>2. ASSUME NEW s \in Sessions, NEW i \in OpenRows(s)' PROVE ~(i > boot')
    BY <1>0, <2>1 DEF OpenRows, RowsOf, Ids
  <2> QED BY <2>1, <2>2 DEF InflightTracksStore, DownForgets
<1>12. ASSUME Tick PROVE InflightTracksStore' /\ DownForgets'
  BY <1>12, InflightFrame DEF Tick, daemonVars
<1>13. CASE UNCHANGED vars
  BY <1>13, InflightFrame DEF vars, daemonVars
<1> QED
  BY <1>1, <1>2, <1>3, <1>4, <1>5, <1>6, <1>7, <1>8, <1>9, <1>10, <1>11, <1>12, <1>13
     DEF Next, Shell, Handler, Drop, World

\* A step that keeps the failures and, of every row they name, session and
\* exit code.
LEMMA FixFrame ==
  ASSUME FixMatchesHistory, FailureHasCode, lastFailure' = lastFailure,
         DOMAIN rows \subseteq DOMAIN rows',
         \A i \in DOMAIN rows : /\ rows'[i].session = rows[i].session
                                /\ rows[i].exit # NoExit => rows'[i].exit = rows[i].exit
  PROVE  FixMatchesHistory' /\ FailureHasCode'
<1>1. ASSUME NEW s \in Sessions, lastFailure[s].row # 0
      PROVE  /\ lastFailure[s].row \in RowsOf(s)'
             /\ rows'[lastFailure[s].row].exit = lastFailure[s].exit
             /\ lastFailure[s].exit \notin {0, 130, 148}
  <2>1. /\ lastFailure[s].row \in RowsOf(s)
        /\ rows[lastFailure[s].row].exit = lastFailure[s].exit
        /\ lastFailure[s].exit \notin {0, 130, 148}
        /\ lastFailure[s].exit # NoExit
    BY <1>1 DEF FixMatchesHistory, FailureHasCode
  <2> QED BY <2>1 DEF RowsOf, Ids
<1> QED BY <1>1 DEF FixMatchesHistory, FailureHasCode

\* Every action keeps failures and table in agreement.
LEMMA FixStep ==
  ASSUME HistoryInv, [Next]_vars
  PROVE  FixMatchesHistory' /\ FailureHasCode'
<1> USE DEF HistoryInv
<1>0. inflight \in [Sessions -> Nat] /\ rows \in Seq(Row)
      /\ lastFailure \in [Sessions -> [row : Nat, exit : Exits]]
  BY DEF TypeOK
<1>1. ASSUME NEW s \in Sessions, NEW kind \in Kinds, Preexec(s, kind)
      PROVE  FixMatchesHistory' /\ FailureHasCode'
  BY <1>1, FixFrame DEF Preexec, daemonVars
<1>2. ASSUME NEW s \in Sessions, NEW code \in ExitCodes, Precmd(s, code)
      PROVE  FixMatchesHistory' /\ FailureHasCode'
  BY <1>2, FixFrame DEF Precmd, daemonVars
<1>3. ASSUME NEW m \in execs, Exec(m)
      PROVE  FixMatchesHistory' /\ FailureHasCode'
  <2>1. CASE ~ShouldRecord(m.kind)
    BY <1>3, <2>1, FixFrame DEF Exec
  <2>2. CASE ShouldRecord(m.kind)
    <3>1. /\ DOMAIN rows \subseteq DOMAIN rows'
          /\ \A i \in DOMAIN rows : rows'[i] = rows[i]
      BY <1>3, <2>2, ExecRows
    <3>2. lastFailure' = lastFailure
      BY <1>3 DEF Exec
    <3> QED BY <3>1, <3>2, FixFrame
  <2> QED BY <2>1, <2>2
<1>4. ASSUME NEW m \in dones, NEW paused \in BOOLEAN, Done(m, paused)
      PROVE  FixMatchesHistory' /\ FailureHasCode'
  <2>1. DOMAIN rows' = DOMAIN rows
        /\ \A i \in DOMAIN rows : /\ rows'[i].session = rows[i].session
                                  /\ rows[i].exit # NoExit => rows'[i].exit = rows[i].exit
    <3>1. CASE OpenRows(m.session) = {}
      BY <1>4, <3>1, DoneRows
    <3>2. CASE OpenRows(m.session) # {}
      <4>1. rows[LatestOpen(m.session)].exit = NoExit
        BY <1>0, <3>2, LatestOpenIsOpen DEF OpenRows
      <4> QED BY <1>4, <3>2, <4>1, DoneRows
    <3> QED BY <3>1, <3>2
  <2>2. CASE lastFailure' = lastFailure
    BY <2>1, <2>2, FixFrame
  <2>3. CASE lastFailure' # lastFailure
    <3>1. /\ Failing(m.exit) /\ up /\ inflight[m.session] # 0
          /\ lastFailure' = [lastFailure EXCEPT ![m.session] =
                               [row |-> inflight[m.session], exit |-> m.exit]]
      BY <1>4, <2>3 DEF Done
    <3>2. m.session \in Sessions /\ m.exit \in ExitCodes /\ m.exit # NoExit
      BY HistoryAssumption DEF TypeOK, DoneRequest
    <3>3. /\ inflight[m.session] \in OpenRows(m.session)
          /\ \A i \in RowsOf(m.session) : i <= inflight[m.session]
      BY <3>1, <3>2 DEF InflightTracksStore
    <3>4. inflight[m.session] = LatestOpen(m.session) /\ OpenRows(m.session) # {}
      <4>1. /\ LatestOpen(m.session) \in OpenRows(m.session)
            /\ inflight[m.session] <= LatestOpen(m.session)
        BY <1>0, <3>3, LatestOpenIsOpen
      <4>2. LatestOpen(m.session) <= inflight[m.session]
        BY <3>3, <4>1 DEF OpenRows
      <4>3. inflight[m.session] \in Nat /\ LatestOpen(m.session) \in Nat
        BY <1>0, <3>2, <4>1 DEF OpenRows, RowsOf, Ids
      <4> QED BY <3>3, <4>1, <4>2, <4>3
    <3>5. rows'[inflight[m.session]].exit = m.exit
          /\ inflight[m.session] \in RowsOf(m.session)'
      <4>1. inflight[m.session] \in DOMAIN rows
            /\ rows[inflight[m.session]].session = m.session
        BY <3>3 DEF OpenRows, RowsOf, Ids
      <4>2. inflight[m.session] \in RowsOf(m.session)'
        BY <2>1, <4>1 DEF RowsOf, Ids
      <4> QED BY <1>4, <3>4, <4>2, DoneRows
    <3>6. ASSUME NEW s \in Sessions
          PROVE  /\ lastFailure'[s].exit # NoExit
                 /\ lastFailure'[s].row # 0 =>
                      /\ lastFailure'[s].row \in RowsOf(s)'
                      /\ rows'[lastFailure'[s].row].exit = lastFailure'[s].exit
                      /\ lastFailure'[s].exit \notin {0, 130, 148}
      <4>1. CASE s = m.session
        <5>1. lastFailure'[s] = [row |-> inflight[s], exit |-> m.exit]
          BY <1>0, <3>1, <3>2, <4>1
        <5>2. lastFailure'[s].row = inflight[s] /\ lastFailure'[s].exit = m.exit
          BY <5>1
        <5> QED BY <3>1, <3>2, <3>5, <4>1, <5>2 DEF Failing
      <4>2. CASE s # m.session
        <5>1. lastFailure'[s] = lastFailure[s]
          BY <1>0, <3>1, <3>2, <4>2
        <5>2. lastFailure[s].exit # NoExit
          BY DEF FailureHasCode
        <5>3. ASSUME lastFailure[s].row # 0
              PROVE  /\ lastFailure[s].row \in RowsOf(s)
                     /\ rows[lastFailure[s].row].exit = lastFailure[s].exit
                     /\ lastFailure[s].exit \notin {0, 130, 148}
          BY <5>3 DEF FixMatchesHistory
        <5>4. ASSUME lastFailure[s].row # 0
              PROVE  /\ lastFailure[s].row \in RowsOf(s)'
                     /\ rows'[lastFailure[s].row].exit = lastFailure[s].exit
          BY <2>1, <5>2, <5>3, <5>4 DEF RowsOf, Ids
        <5> QED BY <5>1, <5>2, <5>3, <5>4
      <4> QED BY <4>1, <4>2
    <3> QED BY <3>6 DEF FixMatchesHistory, FailureHasCode
  <2> QED BY <2>2, <2>3
<1>5. ASSUME Reload PROVE FixMatchesHistory' /\ FailureHasCode'
  BY <1>5, FixFrame DEF Reload
<1>6. ASSUME NEW m \in execs, DropExec(m) PROVE FixMatchesHistory' /\ FailureHasCode'
  BY <1>6, FixFrame DEF DropExec, daemonVars
<1>7. ASSUME NEW m \in dones, DropDone(m) PROVE FixMatchesHistory' /\ FailureHasCode'
  BY <1>7, FixFrame DEF DropDone, daemonVars
<1>8. ASSUME DropReload PROVE FixMatchesHistory' /\ FailureHasCode'
  BY <1>8, FixFrame DEF DropReload, daemonVars
<1>9. ASSUME NEW file \in ImportFiles, Import(file)
      PROVE  FixMatchesHistory' /\ FailureHasCode'
  <2>1. lastFailure' = lastFailure
    BY <1>9 DEF Import, daemonVars
  <2> QED BY <1>9, <2>1, ImportRows, FixFrame
<1>10. ASSUME Stop PROVE FixMatchesHistory' /\ FailureHasCode'
  <2>1. lastFailure' = [s \in Sessions |-> NoFailure]
    BY <1>10 DEF Stop
  <2> QED BY <2>1, HistoryAssumption DEF FixMatchesHistory, FailureHasCode, NoFailure
<1>11. ASSUME Start PROVE FixMatchesHistory' /\ FailureHasCode'
  BY <1>11, FixFrame DEF Start
<1>12. ASSUME Tick PROVE FixMatchesHistory' /\ FailureHasCode'
  BY <1>12, FixFrame DEF Tick, daemonVars
<1>13. CASE UNCHANGED vars
  BY <1>13, FixFrame DEF vars, daemonVars
<1> QED
  BY <1>1, <1>2, <1>3, <1>4, <1>5, <1>6, <1>7, <1>8, <1>9, <1>10, <1>11, <1>12, <1>13
     DEF Next, Shell, Handler, Drop, World

\* Every action preserves the inductive invariant.
LEMMA HistoryInvStep == HistoryInv /\ [Next]_vars => HistoryInv'
BY TypeStep, InflightStep, FixStep DEF HistoryInv

\* The inductive invariant holds in every reachable state.
LEMMA HistoryInvCorrect == Spec => []HistoryInv
BY HistoryInvInit, HistoryInvStep, PTL DEF Spec

\* The map of running commands and the table always agree on what a session is
\* running (daemon.rs, Exec and Done; store.rs, record_done).
THEOREM InflightCorrect == Spec => []InflightTracksStore
<1>1. HistoryInv => InflightTracksStore
  BY DEF HistoryInv
<1> QED BY <1>1, HistoryInvCorrect, PTL

\* A fix is only ever started for a command of the session whose recorded exit
\* code is the one the model was told (daemon.rs, Done).
THEOREM FixCorrect == Spec => []FixMatchesHistory
<1>1. HistoryInv => FixMatchesHistory
  BY DEF HistoryInv
<1> QED BY <1>1, HistoryInvCorrect, PTL

\* No step removes a row, renames it or replaces an exit code.
LEMMA PastStep == TypeOK /\ [Next]_vars => [PastIsKept]_rows
<1> SUFFICES ASSUME TypeOK, [Next]_vars, rows' # rows PROVE PastIsKept
  OBVIOUS
<1>0. rows \in Seq(Row)
  BY DEF TypeOK
<1>1. ASSUME NEW m \in execs, Exec(m) PROVE PastIsKept
  <2>1. ShouldRecord(m.kind)
    BY <1>1 DEF Exec
  <2>2. /\ Len(rows) \in Nat /\ Len(rows') = Len(rows) + 1
        /\ \A i \in DOMAIN rows : rows'[i] = rows[i]
    BY <1>1, <2>1, ExecRows
  <2> QED BY <2>2 DEF PastIsKept, Ids
<1>2. ASSUME NEW m \in dones, NEW paused \in BOOLEAN, Done(m, paused) PROVE PastIsKept
  <2>1. OpenRows(m.session) # {}
    BY <1>2 DEF Done
  <2>2. rows[LatestOpen(m.session)].exit = NoExit
    BY <1>0, <2>1, LatestOpenIsOpen DEF OpenRows
  <2>3. Len(rows) <= Len(rows')
    BY <1>0, <1>2, DoneRows
  <2> QED BY <1>2, <2>1, <2>2, <2>3, DoneRows DEF PastIsKept, Ids
<1>3. ASSUME NEW file \in ImportFiles, Import(file) PROVE PastIsKept
  BY <1>3, ImportRows DEF PastIsKept, Ids
<1> QED
  BY <1>1, <1>2, <1>3
     DEF Next, Shell, Handler, Drop, World, vars, Preexec, Precmd, Reload, DropExec,
         DropDone, DropReload, Stop, Start, Tick

\* What the table says of the past is never changed, whatever the shells, the
\* daemon, its restarts and imports do (store.rs, record_exec, record_done and
\* import).
THEOREM HistoryFinal == Spec => HistoryIsFinal
<1>1. TypeOK /\ [Next]_vars => [PastIsKept]_rows
  BY PastStep
<1> QED BY <1>1, TypeCorrect, PTL DEF Spec, HistoryIsFinal
=============================================================================
