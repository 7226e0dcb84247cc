-------------------------- MODULE PredictorProofs --------------------------
(***************************************************************************)
(* Proofs about the predictor of History: it lists the newest commands     *)
(* that the daemon has seen, and agrees with the table on how they ended   *)
(* as long as one shell at most has used it, never twice in a millisecond. *)
(***************************************************************************)
EXTENDS StoreProofs

\* The ids the predictor lists.
Hot(p) == [a \in DOMAIN p |-> p[a].row]

Least(m, n) == IF m < n THEN m ELSE n

\* Predictor::push puts the new entry first and drops what is too much.
LEMMA PushIs ==
  ASSUME NEW p \in Seq(HotEntry), Len(p) <= Capacity, NEW e \in HotEntry,
         NEW q, q = Push(p, e)
  PROVE  /\ q \in Seq(HotEntry) /\ Len(q) = Least(Len(p) + 1, Capacity)
         /\ \A a \in 1..Len(q) : q[a] = IF a = 1 THEN e ELSE p[a - 1]
<1> DEFINE r == <<e>> \o p
<1>1. /\ r \in Seq(HotEntry) /\ Len(r) = Len(p) + 1 /\ Len(p) \in Nat
      /\ \A a \in 1..Len(r) : r[a] = IF a = 1 THEN e ELSE p[a - 1]
  OBVIOUS
<1>2. Capacity \in Nat
  BY HistoryAssumption
<1>3. q = IF Len(r) > Capacity THEN SubSeq(r, 1, Len(r) - 1) ELSE r
  BY DEF Push
<1> HIDE DEF r
<1>4. CASE Len(r) > Capacity
  <2>1. /\ SubSeq(r, 1, Len(r) - 1) \in Seq(HotEntry)
        /\ Len(SubSeq(r, 1, Len(r) - 1)) = Len(r) - 1
        /\ \A a \in 1..(Len(r) - 1) : SubSeq(r, 1, Len(r) - 1)[a] = r[a]
    BY <1>1
  <2>2. Len(r) - 1 = Least(Len(p) + 1, Capacity)
    BY <1>1, <1>2, <1>4 DEF Least
  <2> QED BY <1>1, <1>3, <1>4, <2>1, <2>2
<1>5. CASE ~(Len(r) > Capacity)
  <2>1. Len(r) = Least(Len(p) + 1, Capacity)
    BY <1>1, <1>2, <1>5 DEF Least
  <2> QED BY <1>1, <1>3, <1>5, <2>1
<1> QED BY <1>4, <1>5

\* Predictor::mark_done changes at most the first entry that has no exit code.
LEMMA MarkDoneIs ==
  ASSUME NEW p \in Seq(HotEntry), NEW code
  PROVE  /\ DOMAIN MarkDone(p, code) = DOMAIN p
         /\ \A a \in DOMAIN p :
              /\ MarkDone(p, code)[a].row = p[a].row
              /\ IF p[a].exit = NoExit /\ \A b \in DOMAIN p : p[b].exit = NoExit => a <= b
                 THEN MarkDone(p, code)[a].exit = code
                 ELSE MarkDone(p, code)[a] = p[a]
<1> DEFINE open == {a \in DOMAIN p : p[a].exit = NoExit}
           first(a) == a \in open /\ \A b \in open : a <= b
<1>1. \A a \in DOMAIN p : p[a] \in HotEntry
  OBVIOUS
<1>2. \A a \in DOMAIN p : MarkDone(p, code)[a] = IF first(a) THEN [p[a] EXCEPT !.exit = code]
                                                 ELSE p[a]
  BY DEF MarkDone
<1>3. \A e \in HotEntry : [e EXCEPT !.exit = code].row = e.row
                          /\ [e EXCEPT !.exit = code].exit = code
  BY DEF HotEntry
<1>4. \A a \in DOMAIN p :
        first(a) <=> p[a].exit = NoExit /\ \A b \in DOMAIN p : p[b].exit = NoExit => a <= b
  OBVIOUS
<1>5. DOMAIN MarkDone(p, code) = DOMAIN p
  BY DEF MarkDone
<1> HIDE DEF open, first
<1> QED BY <1>1, <1>2, <1>3, <1>4, <1>5

-----------------------------------------------------------------------------
(***************************************************************************)
(* The invariant.  HotIsNewest needs that a command is pushed at a time    *)
(* when all others are past; AgreesWhenAlone needs HotIsNewest, for        *)
(* mark_done takes the newest open command of the predictor and            *)
(* record_done the latest of the table.                                    *)
(***************************************************************************)

\* The rows of shells are in the order of their times.
LiveOrdered ==
  \A i, j \in Ids : (/\ i < j /\ rows[i].session # Importer /\ rows[j].session # Importer)
                      => rows[i].ts <= rows[j].ts

\* An imported row has an exit code.
ImportedEnded == \A i \in RowsOf(Importer) : rows[i].exit = 0

\* A daemon has seen every row of a shell, and one that is down lists none.
KnownRows ==
  /\ known \subseteq Ids
  /\ up => \A i \in Ids : rows[i].session # Importer => i \in known
  /\ ~up => predictor = << >>

PredictorInv ==
  /\ TableInv
  /\ LiveOrdered /\ ImportedEnded /\ KnownRows
  /\ HotIsNewest /\ AgreesWhenAlone

\* What the types say of the table and the predictor.
LEMMA TableTypes ==
  ASSUME TypeOK
  PROVE  /\ Ids = 1..Len(rows) /\ Len(rows) \in Nat /\ IsFiniteSet(Ids) /\ Cardinality(Ids) = Len(rows)
         /\ \A i \in Ids : i \in Nat /\ rows[i].ts \in Int
         /\ predictor \in Seq(HotEntry) /\ Len(predictor) \in Nat /\ Len(predictor) <= Capacity
         /\ DOMAIN predictor = 1..Len(predictor)
         /\ clock \in Nat /\ Capacity \in Nat
<1>1. Ids = 1..Len(rows) /\ Len(rows) \in Nat /\ \A i \in 1..Len(rows) : rows[i] \in Row
  BY DEF TypeOK, Ids
<1>2. IsFiniteSet(1..Len(rows)) /\ Cardinality(1..Len(rows)) = Len(rows)
  <2>1. PICK n \in Nat : n = Len(rows)
    BY <1>1
  <2>2. IsFiniteSet(1..n) /\ Cardinality(1..n) = IF 1 > n THEN 0 ELSE n-1+1
    BY FS_Interval
  <2> QED BY <2>1, <2>2
<1>3. \A i \in 1..Len(rows) : i \in Nat /\ rows[i].ts \in Int
  BY <1>1 DEF Row
<1> QED BY <1>1, <1>2, <1>3, HistoryAssumption DEF TypeOK

\* What it means to list the newest.
LEMMA ListingsIs ==
  ASSUME NEW S, NEW f
  PROVE  f \in Listings(S, Capacity) <=>
           /\ f \in [1..Least(Cardinality(S), Capacity) -> S]
           /\ \A a, b \in DOMAIN f : a < b => Leads(f[a], f[b])
           /\ \A i \in S : \/ \E a \in DOMAIN f : i = f[a]
                           \/ \A a \in DOMAIN f : Leads(f[a], i)
<1> DEFINE n == Least(Cardinality(S), Capacity)
<1>1. f \in Listings(S, Capacity) <=>
        /\ f \in [1..n -> S]
        /\ \A a, b \in 1..n : a < b => Leads(f[a], f[b])
        /\ \A i \in S \ {f[a] : a \in 1..n} : \A a \in 1..n : Leads(f[a], i)
  BY DEF Listings, Least
<1> HIDE DEF n
<1>2. f \in [1..n -> S] => DOMAIN f = 1..n
  OBVIOUS
<1>3. (\A i \in S \ {f[a] : a \in 1..n} : \A a \in 1..n : Leads(f[a], i)) <=>
        \A i \in S : (\E a \in 1..n : i = f[a]) \/ \A a \in 1..n : Leads(f[a], i)
  OBVIOUS
<1> QED BY <1>1, <1>2, <1>3 DEF n

\* The same of the next state.
LEMMA ListingsIsNext ==
  ASSUME NEW S, NEW f
  PROVE  f \in Listings(S, Capacity)' <=>
           /\ f \in [1..Least(Cardinality(S), Capacity) -> S]
           /\ \A a, b \in DOMAIN f : a < b => Leads(f[a], f[b])'
           /\ \A i \in S : \/ \E a \in DOMAIN f : i = f[a]
                           \/ \A a \in DOMAIN f : Leads(f[a], i)'
<1> DEFINE n == Least(Cardinality(S), Capacity)
<1>1. f \in Listings(S, Capacity)' <=>
        /\ f \in [1..n -> S]
        /\ \A a, b \in 1..n : a < b => Leads(f[a], f[b])'
        /\ \A i \in S \ {f[a] : a \in 1..n} : \A a \in 1..n : Leads(f[a], i)'
  BY DEF Listings, Least
<1> HIDE DEF n
<1>2. f \in [1..n -> S] => DOMAIN f = 1..n
  OBVIOUS
<1>3. (\A i \in S \ {f[a] : a \in 1..n} : \A a \in 1..n : Leads(f[a], i)') <=>
        \A i \in S : (\E a \in 1..n : i = f[a]) \/ \A a \in 1..n : Leads(f[a], i)'
  OBVIOUS
<1> QED BY <1>1, <1>2, <1>3 DEF n

-----------------------------------------------------------------------------
(***************************************************************************)
(* The newest rows.                                                        *)
(***************************************************************************)

\* The rows that are listed, from the newest.
LEMMA HotIn ==
  ASSUME up, HotIsNewest, KnownRows
  PROVE  /\ \A a \in DOMAIN predictor : predictor[a].row \in Ids
         /\ \A a, b \in DOMAIN predictor : a < b => Leads(predictor[a].row, predictor[b].row)
         /\ \A i \in known : \/ \E a \in DOMAIN predictor : predictor[a].row = i
                             \/ \A a \in DOMAIN predictor : Leads(predictor[a].row, i)
<1> DEFINE f == Hot(predictor)
<1>1. f \in Listings(known, Capacity)
  BY DEF HotIsNewest, Hot
<1>2. DOMAIN f = DOMAIN predictor /\ \A a \in DOMAIN predictor : f[a] = predictor[a].row
  BY DEF Hot
<1> HIDE DEF f
<1>3. /\ f \in [1..Least(Cardinality(known), Capacity) -> known]
      /\ \A a, b \in DOMAIN f : a < b => Leads(f[a], f[b])
      /\ \A i \in known : (\E a \in DOMAIN f : i = f[a]) \/ \A a \in DOMAIN f : Leads(f[a], i)
  BY <1>1, ListingsIs
<1>4. \A a \in DOMAIN f : f[a] \in Ids
  BY <1>3 DEF KnownRows
<1> QED BY <1>2, <1>3, <1>4

\* A step that keeps the list, the times of the rows in it and what is known.
LEMMA HotFrame ==
  ASSUME HotIsNewest, known \subseteq Ids, known' = known,
         DOMAIN rows \subseteq DOMAIN rows', \A i \in DOMAIN rows : rows'[i].ts = rows[i].ts,
         up' => up, Hot(predictor') = Hot(predictor)
  PROVE  HotIsNewest'
<1> SUFFICES ASSUME up' PROVE Hot(predictor') \in Listings(known, Capacity)'
  BY DEF HotIsNewest, Hot
<1>1. PICK f, K : f = Hot(predictor) /\ K = known
  OBVIOUS
<1>2. f \in Listings(K, Capacity)
  BY <1>1 DEF HotIsNewest, Hot
<1>3. /\ f \in [1..Least(Cardinality(K), Capacity) -> K]
      /\ \A a, b \in DOMAIN f : a < b => Leads(f[a], f[b])
      /\ \A i \in K : (\E a \in DOMAIN f : i = f[a]) \/ \A a \in DOMAIN f : Leads(f[a], i)
  BY <1>2, ListingsIs
<1>4. \A i, j \in K : Leads(i, j) => Leads(i, j)'
  BY <1>1 DEF Leads, Ids
<1>5. \A a \in DOMAIN f : f[a] \in K
  BY <1>3
<1>6. f \in Listings(K, Capacity)'
  <2>1. \A a, b \in DOMAIN f : a < b => Leads(f[a], f[b])'
    BY <1>3, <1>4, <1>5
  <2>2. \A i \in K : \/ \E a \in DOMAIN f : i = f[a]
                    \/ \A a \in DOMAIN f : Leads(f[a], i)'
    BY <1>3, <1>4, <1>5
  <2> QED BY <1>3, <2>1, <2>2, ListingsIsNext
<1>7. K = known' /\ f = Hot(predictor')
  BY <1>1
<1> QED BY <1>6, <1>7

\* The daemon reads the table: the list is the newest of all rows.
LEMMA HotLoaded ==
  ASSUME rows' = rows, known' = Ids, up', NEW p \in Newest(Ids, Capacity), predictor' = Load(p)
  PROVE  HotIsNewest' /\ KnownRows' /\ AgreesWhenAlone'
<1>1. DOMAIN predictor' = DOMAIN p /\ \A a \in DOMAIN p : /\ predictor'[a].row = p[a]
                                                          /\ predictor'[a].exit = rows[p[a]].exit
  BY DEF Load
<1>2. Hot(predictor') = p
  <2>1. p = [a \in DOMAIN p |-> p[a]]
    BY DEF Newest, Listings
  <2> QED BY <1>1, <2>1 DEF Hot
<1>3. p \in Listings(Ids, Capacity)'
  BY DEF Newest, Listings, Leads, Ids
<1>4. HotIsNewest'
  BY <1>2, <1>3 DEF HotIsNewest, Hot, Listings, Leads, Ids
<1>5. KnownRows'
  BY DEF KnownRows, Ids
<1>6. AgreesWhenAlone'
  BY <1>1 DEF AgreesWhenAlone, Agrees
<1> QED BY <1>4, <1>5, <1>6

\* A command is recorded: its row is newer than all others.
LEMMA HotPushed ==
  ASSUME TypeOK, AllPast, HotIsNewest, KnownRows, NEW m \in execs, Exec(m), ShouldRecord(m.kind)
  PROVE  /\ HotIsNewest'
         /\ \A a \in DOMAIN predictor' :
              \/ predictor'[a] = [row |-> Len(rows) + 1, exit |-> NoExit]
              \/ \E b \in DOMAIN predictor : predictor'[a] = predictor[b]
<1> DEFINE id == Len(rows) + 1
           e  == [row |-> id, exit |-> NoExit]
<1>1. /\ up /\ up' = up /\ predictor' = Push(predictor, e) /\ known' = known \cup {id}
      /\ e.row = id /\ e \in HotEntry
  BY TableTypes DEF Exec, HotEntry, Exits
<1>2. /\ DOMAIN rows' = Ids \cup {id} /\ id \notin Ids /\ id \in Nat /\ \A i \in Ids : i < id
      /\ \A i \in Ids : rows'[i] = rows[i]
      /\ rows'[id].ts = clock
  <2>1. /\ DOMAIN rows' = 1..id /\ rows'[id].ts = clock
        /\ \A i \in Ids : rows'[i] = rows[i]
    BY ExecRows DEF Ids
  <2>2. Ids = 1..Len(rows) /\ Len(rows) \in Nat
    BY TableTypes
  <2>3. 1..id = Ids \cup {id} /\ id \notin Ids /\ id \in Nat /\ \A i \in Ids : i < id
    BY <2>2
  <2> QED BY <2>1, <2>3
<1> HIDE DEF id, e
<1>3. /\ \A i, j \in Ids : Leads(i, j) => Leads(i, j)'
      /\ \A k, i : (k = id /\ i \in Ids) => Leads(k, i)'
  <2>1. \A i, j \in Ids : Leads(i, j) => Leads(i, j)'
    BY <1>2 DEF Leads
  <2>2. ASSUME NEW k, NEW i, k = id, i \in Ids PROVE Leads(k, i)'
    BY <1>2, <2>2, TableTypes DEF Leads, AllPast
  <2> QED BY <2>1, <2>2
<1>4. PICK p, q, K, k : p = predictor /\ q = predictor' /\ K = known /\ k = id
  OBVIOUS
<1> DEFINE c == Cardinality(K)
<1>5. K \subseteq Ids /\ k \notin K /\ c \in Nat /\ Cardinality(K \cup {k}) = c + 1
  <2>1. K \subseteq Ids /\ k \notin K
    BY <1>2, <1>4 DEF KnownRows
  <2>2. IsFiniteSet(K)
    BY <2>1, TableTypes, FS_Subset
  <2> QED BY <2>1, <2>2, FS_CardinalityType, FS_AddElement
<1> HIDE DEF c
<1>6. /\ Hot(p) \in [1..Least(c, Capacity) -> K]
      /\ \A a, b \in DOMAIN Hot(p) : a < b => Leads(Hot(p)[a], Hot(p)[b])
      /\ \A i \in K : (\E a \in DOMAIN Hot(p) : i = Hot(p)[a]) \/ \A a \in DOMAIN Hot(p) : Leads(Hot(p)[a], i)
  <2>1. Hot(p) \in Listings(K, Capacity)
    BY <1>1, <1>4 DEF HotIsNewest, Hot
  <2> QED BY <2>1, ListingsIs DEF c
<1>7. /\ DOMAIN p = 1..Len(p) /\ Len(p) \in Nat /\ Capacity \in Nat
      /\ Len(p) = Least(c, Capacity)
      /\ \A a \in 1..Len(p) : Hot(p)[a] = p[a].row /\ p[a].row \in K
      /\ DOMAIN Hot(p) = 1..Len(p)
  <2>1. DOMAIN p = 1..Len(p) /\ Len(p) \in Nat /\ Capacity \in Nat
    BY <1>4, TableTypes
  <2>2. DOMAIN Hot(p) = 1..Len(p) /\ \A a \in 1..Len(p) : Hot(p)[a] = p[a].row
    BY <2>1 DEF Hot
  <2>3. DOMAIN Hot(p) = 1..Least(c, Capacity) /\ Least(c, Capacity) \in Nat
    BY <1>5, <1>6, <2>1 DEF Least
  <2>4. Len(p) = Least(c, Capacity)
    BY <2>1, <2>2, <2>3
  <2> QED BY <1>6, <2>1, <2>2, <2>4
<1>8. /\ DOMAIN q = 1..Len(q) /\ Len(q) = Least(c + 1, Capacity) /\ Len(q) \in Nat
      /\ \A a \in 1..Len(q) : q[a] = IF a = 1 THEN e ELSE p[a - 1]
      /\ Len(q) <= Len(p) + 1 /\ (Len(q) <= Len(p) => Len(q) = Len(p))
  <2>1. /\ q \in Seq(HotEntry) /\ Len(q) = Least(Len(p) + 1, Capacity)
        /\ \A a \in 1..Len(q) : q[a] = IF a = 1 THEN e ELSE p[a - 1]
    BY <1>1, <1>4, TableTypes, PushIs
  <2>2. Least(Len(p) + 1, Capacity) = Least(c + 1, Capacity)
    BY <1>5, <1>7 DEF Least
  <2>3. Len(q) <= Len(p) + 1 /\ (Len(q) <= Len(p) => Len(q) = Len(p))
    BY <1>5, <1>7, <2>1 DEF Least
  <2> QED BY <2>1, <2>2, <2>3
<1>9. /\ DOMAIN Hot(q) = 1..Len(q)
      /\ \A a \in 1..Len(q) : /\ a = 1 => Hot(q)[a] = k
                              /\ a # 1 => a - 1 \in 1..Len(p) /\ Hot(q)[a] = Hot(p)[a - 1]
  <2>1. \A a \in 1..Len(q) : a # 1 => a - 1 \in 1..Len(p)
    BY <1>7, <1>8
  <2>2. DOMAIN Hot(q) = 1..Len(q) /\ \A a \in 1..Len(q) : Hot(q)[a] = q[a].row
    BY <1>8 DEF Hot
  <2> QED BY <1>1, <1>4, <1>7, <1>8, <2>1, <2>2
<1>10. Hot(q) \in [1..Least(Cardinality(K \cup {k}), Capacity) -> K \cup {k}]
  <2>1. \A a \in 1..Len(q) : Hot(q)[a] \in K \cup {k}
    BY <1>7, <1>9
  <2>2. Hot(q) = [a \in 1..Len(q) |-> Hot(q)[a]]
    BY <1>8 DEF Hot
  <2> QED BY <1>5, <1>8, <2>1, <2>2
<1>11. ASSUME NEW a \in 1..Len(q), NEW b \in 1..Len(q), a < b
       PROVE  Leads(Hot(q)[a], Hot(q)[b])'
  <2>1. b # 1 /\ b - 1 \in 1..Len(p) /\ Hot(q)[b] = Hot(p)[b - 1] /\ Hot(q)[b] \in Ids
    <3>1. b # 1
      BY <1>8, <1>11
    <3> QED BY <1>5, <1>7, <1>9, <3>1
  <2>2. CASE a = 1
    BY <1>3, <1>4, <1>9, <2>1, <2>2
  <2>3. CASE a # 1
    <3>1. a - 1 \in 1..Len(p) /\ Hot(q)[a] = Hot(p)[a - 1] /\ a - 1 < b - 1 /\ Hot(q)[a] \in Ids
      BY <1>5, <1>7, <1>9, <1>11, <2>3
    <3>2. Leads(Hot(q)[a], Hot(q)[b])
      BY <1>6, <1>7, <2>1, <3>1
    <3> QED BY <1>3, <2>1, <3>1, <3>2
  <2> QED BY <2>2, <2>3
<1>12. ASSUME NEW i \in K \cup {k}, \A a \in 1..Len(q) : i # Hot(q)[a], NEW a \in 1..Len(q)
       PROVE  Leads(Hot(q)[a], i)'
  <2>1. 1 \in 1..Len(q)
    BY <1>8
  <2>2. i \in K /\ i \in Ids
    BY <1>5, <1>9, <1>12, <2>1
  <2>3. CASE a = 1
    BY <1>3, <1>4, <1>9, <2>2, <2>3
  <2>4. CASE a # 1
    <3>1. a - 1 \in 1..Len(p) /\ Hot(q)[a] = Hot(p)[a - 1] /\ Hot(q)[a] \in Ids
      BY <1>5, <1>7, <1>9, <2>4
    <3>2. Leads(Hot(p)[a - 1], i)
      <4>1. CASE \E b \in 1..Len(p) : i = Hot(p)[b]
        <5>1. PICK b \in 1..Len(p) : i = Hot(p)[b]
          BY <4>1
        <5>2. ~(b + 1 \in 1..Len(q))
          BY <1>9, <1>12, <5>1
        <5>3. a - 1 < b
          BY <1>7, <1>8, <5>2
        <5> QED BY <1>6, <1>7, <3>1, <5>1, <5>3
      <4>2. CASE ~\E b \in 1..Len(p) : i = Hot(p)[b]
        BY <1>6, <1>7, <2>2, <3>1, <4>2
      <4> QED BY <4>1, <4>2
    <3> QED BY <1>3, <2>2, <3>1, <3>2
  <2> QED BY <2>3, <2>4
<1>13. HotIsNewest'
  <2>1. PICK f, S : f = Hot(q) /\ S = K \cup {k}
    OBVIOUS
  <2>2. f \in Listings(S, Capacity)'
    <3>1. DOMAIN f = 1..Len(q) /\ f \in [1..Least(Cardinality(S), Capacity) -> S]
      BY <1>9, <1>10, <2>1
    <3>2. \A a, b \in 1..Len(q) : a < b => Leads(f[a], f[b])'
      BY <1>11, <2>1
    <3>3. \A i \in S : (\E a \in 1..Len(q) : i = f[a]) \/ \A a \in 1..Len(q) : Leads(f[a], i)'
      BY <1>12, <2>1
    <3> QED BY <3>1, <3>2, <3>3, ListingsIsNext
  <2>3. S = known' /\ f = Hot(predictor')
    BY <1>1, <1>4, <2>1
  <2>4. Hot(predictor') \in Listings(known, Capacity)'
    BY <2>2, <2>3
  <2> QED BY <2>4 DEF HotIsNewest, Hot
<1>14. ASSUME NEW a \in DOMAIN predictor'
       PROVE  predictor'[a] = e \/ \E b \in DOMAIN predictor : predictor'[a] = predictor[b]
  <2>1. CASE a = 1
    BY <1>4, <1>8, <2>1
  <2>2. CASE a # 1
    <3>1. a \in 1..Len(q) /\ a - 1 \in DOMAIN p
      BY <1>4, <1>7, <1>8, <1>9, <2>2
    <3>2. q[a] = p[a - 1]
      BY <1>8, <2>2, <3>1
    <3> QED BY <1>4, <3>1, <3>2
  <2> QED BY <2>1, <2>2
<1> QED BY <1>13, <1>14 DEF e, id

-----------------------------------------------------------------------------
(***************************************************************************)
(* The invariant, step by step.                                            *)
(***************************************************************************)

\* A step that inserts nothing and gives no time, session or code anew, except
\* that open rows of shells may end.
LEMMA TableFrame ==
  ASSUME LiveOrdered, ImportedEnded, DOMAIN rows' = DOMAIN rows,
         \A i \in DOMAIN rows : /\ rows'[i].session = rows[i].session
                                /\ rows'[i].ts = rows[i].ts
                                /\ rows[i].session = Importer => rows'[i].exit = rows[i].exit
  PROVE  LiveOrdered' /\ ImportedEnded' /\ (Alone' => Alone)
<1>1. LiveOrdered'
  BY DEF LiveOrdered, Ids
<1>2. ImportedEnded'
  BY DEF ImportedEnded, RowsOf, Ids
<1>3. Alone' => Alone
  BY DEF Alone, LiveRows, Ids
<1> QED BY <1>1, <1>2, <1>3

\* Exec.
LEMMA ExecPredictor ==
  ASSUME PredictorInv, NEW m \in execs, Exec(m)
  PROVE  LiveOrdered' /\ ImportedEnded' /\ KnownRows' /\ HotIsNewest' /\ AgreesWhenAlone'
<1> USE DEF PredictorInv, TableInv
<1>1. CASE ~ShouldRecord(m.kind)
  <2>1. rows' = rows /\ predictor' = predictor /\ known' = known /\ up' = up
    BY <1>1 DEF Exec
  <2> QED BY <2>1 DEF LiveOrdered, ImportedEnded, KnownRows, HotIsNewest, AgreesWhenAlone, Alone,
                      Agrees, LiveRows, Listings, Leads, RowsOf, Ids
<1>2. CASE ShouldRecord(m.kind)
  <2> DEFINE id == Len(rows) + 1
  <2>1. /\ DOMAIN rows' = 1..id /\ \A i \in DOMAIN rows : rows'[i] = rows[i]
        /\ rows'[id].session = m.session /\ rows'[id].ts = clock /\ rows'[id].exit = NoExit
    BY <1>2, ExecRows
  <2>2. DOMAIN rows = Ids /\ Ids = 1..Len(rows) /\ Len(rows) \in Nat
    BY TableTypes DEF Ids
  <2>3. 1..id = Ids \cup {id} /\ id \notin Ids /\ \A i \in Ids : i < id /\ ~(id < i)
    BY <2>2
  <2>4. m.session \in Sessions /\ m.session # Importer
    BY HistoryAssumption DEF TypeOK, ExecRequest
  <2>5. /\ up /\ up' = up /\ known' = known \cup {id}
    BY <1>2 DEF Exec
  <2>6. /\ HotIsNewest'
        /\ \A a \in DOMAIN predictor' :
              \/ predictor'[a] = [row |-> id, exit |-> NoExit]
              \/ \E b \in DOMAIN predictor : predictor'[a] = predictor[b]
    BY <1>2, HotPushed
  <2> HIDE DEF id
  <2>7. LiveOrdered'
    <3> SUFFICES ASSUME NEW i \in Ids', NEW j \in Ids', i < j,
                        rows'[i].session # Importer, rows'[j].session # Importer
                 PROVE  rows'[i].ts <= rows'[j].ts
      BY DEF LiveOrdered
    <3>1. i \in Ids
      BY <2>1, <2>3 DEF Ids
    <3>2. CASE j = id
      BY <2>1, <2>2, <3>1, <3>2 DEF AllPast
    <3>3. CASE j # id
      <4>1. j \in Ids
        BY <2>1, <2>3, <3>3 DEF Ids
      <4> QED BY <2>1, <2>2, <3>1, <4>1 DEF LiveOrdered
    <3> QED BY <3>2, <3>3
  <2>8. ImportedEnded'
    BY <2>1, <2>2, <2>3, <2>4 DEF ImportedEnded, RowsOf, Ids
  <2>9. KnownRows'
    BY <2>1, <2>2, <2>3, <2>5 DEF KnownRows, Ids
  <2>10. AgreesWhenAlone'
    <3> SUFFICES ASSUME Alone', NEW a \in DOMAIN predictor'
                 PROVE  predictor'[a].exit = rows'[predictor'[a].row].exit
      BY DEF AgreesWhenAlone, Agrees
    <3>1. Alone
      BY <2>1, <2>2, <2>3 DEF Alone, LiveRows, Ids
    <3>2. CASE predictor'[a] = [row |-> id, exit |-> NoExit]
      BY <2>1, <3>2
    <3>3. ASSUME NEW b \in DOMAIN predictor, predictor'[a] = predictor[b]
          PROVE  predictor'[a].exit = rows'[predictor'[a].row].exit
      <4>1. predictor[b].exit = rows[predictor[b].row].exit
        BY <3>1 DEF AgreesWhenAlone, Agrees
      <4>2. predictor[b].row \in Ids
        BY <2>5, HotIn
      <4> QED BY <2>1, <2>2, <3>3, <4>1, <4>2
    <3> QED BY <2>6, <3>2, <3>3
  <2> QED BY <2>6, <2>7, <2>8, <2>9, <2>10
<1> QED BY <1>1, <1>2

\* Done: the latest open row of the one session is the newest open row, so that
\* mark_done finds it too, or nothing if it is not listed.
LEMMA DonePredictor ==
  ASSUME PredictorInv, NEW m \in dones, NEW paused \in BOOLEAN, Done(m, paused)
  PROVE  LiveOrdered' /\ ImportedEnded' /\ KnownRows' /\ HotIsNewest' /\ AgreesWhenAlone'
<1> USE DEF PredictorInv, TableInv
<1> DEFINE s == m.session
           k == LatestOpen(s)
<1>1. /\ up /\ up' = up /\ known' = known
      /\ predictor' = predictor \/ predictor' = MarkDone(predictor, m.exit)
      /\ OpenRows(s) = {} => rows' = rows /\ predictor' = predictor
      /\ OpenRows(s) # {} => predictor' = MarkDone(predictor, m.exit)
  BY DEF Done
<1>2. m.session \in Sessions /\ m.session # Importer
  BY HistoryAssumption DEF TypeOK, DoneRequest
<1>3. /\ DOMAIN rows' = DOMAIN rows
      /\ \A i \in DOMAIN rows : rows'[i].session = rows[i].session /\ rows'[i].ts = rows[i].ts
  BY DoneRows
<1>4. ASSUME OpenRows(s) # {}
      PROVE  /\ k \in OpenRows(s) /\ \A j \in OpenRows(s) : j <= k
             /\ k \in Ids /\ rows[k].session = s /\ rows[k].exit = NoExit
             /\ rows'[k].exit = m.exit
             /\ \A i \in Ids \ {k} : rows'[i] = rows[i]
  <2>1. k \in OpenRows(s) /\ \A j \in OpenRows(s) : j <= k
    BY <1>4, LatestOpenIsOpen DEF TypeOK
  <2>2. k \in Ids /\ rows[k].session = s /\ rows[k].exit = NoExit
    BY <2>1 DEF OpenRows, RowsOf
  <2>3. rows'[k].exit = m.exit /\ \A i \in DOMAIN rows \ {k} : rows'[i] = rows[i]
    BY <1>4, DoneRows
  <2> QED BY <2>1, <2>2, <2>3 DEF Ids
<1> HIDE DEF k, s
<1>5. \A i \in DOMAIN rows : rows[i].session = Importer => rows'[i].exit = rows[i].exit
  BY <1>1, <1>2, <1>4 DEF s, Ids
<1>6. LiveOrdered' /\ ImportedEnded' /\ (Alone' => Alone)
  BY <1>3, <1>5, TableFrame
<1>7. KnownRows'
  BY <1>1, <1>3 DEF KnownRows, Ids
<1>8. /\ Hot(predictor') = Hot(predictor) /\ DOMAIN predictor' = DOMAIN predictor
      /\ \A a \in DOMAIN predictor : predictor'[a].row = predictor[a].row
  <2>1. /\ DOMAIN predictor' = DOMAIN predictor
        /\ \A a \in DOMAIN predictor : predictor'[a].row = predictor[a].row
    BY <1>1, TableTypes, MarkDoneIs
  <2> QED BY <2>1 DEF Hot
<1>9. HotIsNewest'
  BY <1>1, <1>3, <1>8, HotFrame DEF KnownRows
<1>10. AgreesWhenAlone'
  <2> SUFFICES ASSUME Alone, NEW a \in DOMAIN predictor
               PROVE  predictor'[a].exit = rows'[predictor[a].row].exit
    BY <1>6, <1>8 DEF AgreesWhenAlone, Agrees
  <2>1. \A b \in DOMAIN predictor : /\ predictor[b].row \in Ids
                                    /\ predictor[b].exit = rows[predictor[b].row].exit
    BY <1>1, HotIn DEF AgreesWhenAlone, Agrees
  <2>2. CASE OpenRows(s) = {}
    BY <1>1, <2>1, <2>2
  <2>3. CASE OpenRows(s) # {}
    \* Every other open row is older than k, by a millisecond at least.
    <3>1. ASSUME NEW j \in Ids, rows[j].exit = NoExit, j # k
          PROVE  ~(rows[j].ts >= rows[k].ts)
      <4>1. rows[j].session # Importer
        BY <3>1, HistoryAssumption DEF ImportedEnded, RowsOf
      <4>2. rows[k].session # Importer
        BY <1>2, <1>4, <2>3 DEF s
      <4>3. rows[j].session = s
        BY <1>4, <2>3, <4>1, <4>2 DEF Alone, LiveRows
      <4>4. j \in OpenRows(s)
        BY <3>1, <4>3 DEF OpenRows, RowsOf
      <4>5. j <= k /\ j \in Nat /\ k \in Nat
        BY <1>4, <2>3, <4>4, TableTypes
      <4>6. j < k
        BY <3>1, <4>5
      <4>7. rows[j].ts <= rows[k].ts /\ rows[j].ts \in Int /\ rows[k].ts \in Int
        BY <1>4, <2>3, <4>1, <4>2, <4>6, TableTypes DEF LiveOrdered
      <4>8. rows[j].ts # rows[k].ts
        BY <1>4, <2>3, <3>1, <4>1, <4>2 DEF Alone, LiveRows
      <4> QED BY <4>7, <4>8
    <3>2. k \in Ids /\ k \in known
      BY <1>1, <1>2, <1>4, <2>3 DEF KnownRows, s
    <3>3. /\ predictor' = MarkDone(predictor, m.exit)
          /\ IF predictor[a].exit = NoExit
                /\ \A b \in DOMAIN predictor : predictor[b].exit = NoExit => a <= b
             THEN predictor'[a].exit = m.exit
             ELSE predictor'[a] = predictor[a]
      BY <1>1, <2>3, TableTypes, MarkDoneIs
    <3>4. CASE predictor[a].row = k
      <4>1. predictor[a].exit = NoExit
        BY <1>4, <2>1, <2>3, <3>4
      <4>2. ASSUME NEW b \in DOMAIN predictor, predictor[b].exit = NoExit PROVE a <= b
        <5>1. a \in Nat /\ b \in Nat
          BY TableTypes
        <5> SUFFICES ASSUME b < a PROVE FALSE
          BY <5>1
        <5>2. predictor[b].row # k /\ rows[predictor[b].row].ts >= rows[k].ts
          BY <1>1, <3>4, HotIn DEF Leads
        <5>3. rows[predictor[b].row].exit = NoExit /\ predictor[b].row \in Ids
          BY <2>1, <4>2
        <5> QED BY <3>1, <5>2, <5>3
      <4> QED BY <1>4, <2>3, <3>3, <3>4, <4>1, <4>2
    <3>5. CASE predictor[a].row # k
      <4>1. rows'[predictor[a].row] = rows[predictor[a].row]
        BY <1>4, <2>1, <2>3, <3>5
      <4>2. ~(predictor[a].exit = NoExit
                /\ \A b \in DOMAIN predictor : predictor[b].exit = NoExit => a <= b)
        <5> SUFFICES ASSUME predictor[a].exit = NoExit,
                            \A b \in DOMAIN predictor : predictor[b].exit = NoExit => a <= b
                     PROVE  FALSE
          OBVIOUS
        <5>1. ~(rows[predictor[a].row].ts >= rows[k].ts)
          BY <2>1, <3>1, <3>5
        <5>2. ~Leads(predictor[a].row, k)
          BY <5>1 DEF Leads
        <5>3. PICK b \in DOMAIN predictor : predictor[b].row = k
          BY <1>1, <3>2, <5>2, HotIn
        <5>4. a <= b /\ a # b /\ a \in Nat /\ b \in Nat
          BY <1>4, <2>1, <2>3, <3>5, <5>3, TableTypes
        <5> QED BY <1>1, <5>2, <5>3, <5>4, HotIn
      <4> QED BY <2>1, <3>3, <4>1, <4>2
    <3> QED BY <3>4, <3>5
  <2> QED BY <2>2, <2>3
<1> QED BY <1>6, <1>7, <1>9, <1>10

\* The daemon reads the table, on a Reload or when it starts.
LEMMA LoadPredictor ==
  ASSUME PredictorInv, Reload \/ Start
  PROVE  LiveOrdered' /\ ImportedEnded' /\ KnownRows' /\ HotIsNewest' /\ AgreesWhenAlone'
<1>1. rows' = rows /\ known' = Ids /\ up' /\ \E p \in Newest(Ids, Capacity) : predictor' = Load(p)
  BY DEF Reload, Start
<1>2. LiveOrdered' /\ ImportedEnded'
  BY <1>1, TableFrame DEF PredictorInv
<1> QED BY <1>1, <1>2, HotLoaded

\* An import: it is a process of its own, and the daemon sees nothing of it.
LEMMA ImportPredictor ==
  ASSUME PredictorInv, NEW file \in ImportFiles, Import(file)
  PROVE  LiveOrdered' /\ ImportedEnded' /\ KnownRows' /\ HotIsNewest' /\ AgreesWhenAlone'
<1> USE DEF PredictorInv, TableInv
<1>1. /\ DOMAIN rows \subseteq DOMAIN rows'
      /\ \A i \in DOMAIN rows : rows'[i] = rows[i]
      /\ \A i \in DOMAIN rows' : rows'[i].session # Importer => i \in DOMAIN rows
      /\ \A i \in DOMAIN rows' \ DOMAIN rows : rows'[i].exit = 0
  BY ImportRows
<1>2. up' = up /\ known' = known /\ predictor' = predictor
  BY DEF Import, daemonVars
<1>3. LiveOrdered'
  BY <1>1 DEF LiveOrdered, Ids
<1>4. ImportedEnded'
  BY <1>1 DEF ImportedEnded, RowsOf, Ids
<1>5. KnownRows'
  BY <1>1, <1>2 DEF KnownRows, Ids
<1>6. HotIsNewest'
  BY <1>1, <1>2, HotFrame DEF KnownRows
<1>7. AgreesWhenAlone'
  <2> SUFFICES ASSUME Alone', NEW a \in DOMAIN predictor
               PROVE  predictor[a].exit = rows'[predictor[a].row].exit
    BY <1>2 DEF AgreesWhenAlone, Agrees
  <2>1. Alone
    BY <1>1 DEF Alone, LiveRows, Ids
  <2>2. predictor[a].exit = rows[predictor[a].row].exit
    BY <2>1 DEF AgreesWhenAlone, Agrees
  <2>3. up
    BY DEF KnownRows
  <2>4. predictor[a].row \in Ids
    BY <2>3, HotIn
  <2> QED BY <1>1, <2>2, <2>4 DEF Ids
<1> QED BY <1>3, <1>4, <1>5, <1>6, <1>7

\* A step that concerns neither the table nor the daemon.
LEMMA OtherPredictor ==
  ASSUME PredictorInv, rows' = rows, predictor' = predictor, known' = known, up' = up
  PROVE  LiveOrdered' /\ ImportedEnded' /\ KnownRows' /\ HotIsNewest' /\ AgreesWhenAlone'
BY DEF PredictorInv, LiveOrdered, ImportedEnded, KnownRows, HotIsNewest, AgreesWhenAlone, Alone,
       Agrees, LiveRows, Listings, Leads, RowsOf, Ids

\* Every action keeps the invariant.
LEMMA PredictorInvStep == PredictorInv /\ [Next]_vars => PredictorInv'
<1> SUFFICES ASSUME PredictorInv, [Next]_vars PROVE PredictorInv'
  OBVIOUS
<1> DEFINE Goal == LiveOrdered' /\ ImportedEnded' /\ KnownRows' /\ HotIsNewest' /\ AgreesWhenAlone'
<1>0. TableInv'
  BY TableInvStep DEF PredictorInv
<1>1. ASSUME NEW m \in execs, Exec(m) PROVE Goal
  BY <1>1, ExecPredictor
<1>2. ASSUME NEW m \in dones, NEW paused \in BOOLEAN, Done(m, paused) PROVE Goal
  BY <1>2, DonePredictor
<1>3. ASSUME Reload \/ Start PROVE Goal
  BY <1>3, LoadPredictor
<1>4. ASSUME NEW file \in ImportFiles, Import(file) PROVE Goal
  BY <1>4, ImportPredictor
<1>5. ASSUME Stop PROVE Goal
  <2>1. rows' = rows /\ ~up' /\ known' = {} /\ predictor' = << >>
    BY <1>5 DEF Stop
  <2>2. LiveOrdered' /\ ImportedEnded'
    BY <2>1, TableFrame DEF PredictorInv
  <2>3. KnownRows' /\ HotIsNewest' /\ AgreesWhenAlone'
    BY <2>1 DEF KnownRows, HotIsNewest, AgreesWhenAlone
  <2> QED BY <2>2, <2>3
<1>6. ASSUME Shell \/ Drop \/ Tick \/ UNCHANGED vars PROVE Goal
  <2>1. rows' = rows /\ predictor' = predictor /\ known' = known /\ up' = up
    BY <1>6 DEF Shell, Drop, Tick, Preexec, Precmd, DropExec, DropDone, DropReload, vars, daemonVars
  <2> QED BY <2>1, OtherPredictor
<1>7. Goal
  <2> HIDE DEF Goal
  <2> QED BY <1>1, <1>2, <1>3, <1>4, <1>5, <1>6 DEF Next, Handler, World
<1> QED BY <1>0, <1>7 DEF PredictorInv

\* It holds throughout.
LEMMA PredictorInvCorrect == Spec => []PredictorInv
<1>1. Init => PredictorInv
  <2> SUFFICES ASSUME Init PROVE PredictorInv
    OBVIOUS
  <2>1. TableInv
    <3>1. TypeOK /\ Ids = {}
      BY TypeInit DEF Init, Ids
    <3> QED BY <3>1 DEF TableInv, AllPast, ImportsLieBehind, ImportIsIdempotent
  <2>2. Ids = {} /\ known = {} /\ predictor = << >> /\ up
    BY DEF Init, Ids
  <2>3. LiveOrdered /\ ImportedEnded /\ KnownRows /\ AgreesWhenAlone
    BY <2>2 DEF LiveOrdered, ImportedEnded, RowsOf, KnownRows, AgreesWhenAlone
  <2>4. HotIsNewest
    <3>1. PICK f : f = Hot(predictor)
      OBVIOUS
    <3>2. DOMAIN f = {} /\ f \in [{} -> {}]
      BY <2>2, <3>1 DEF Hot
    <3>3. 1..Least(Cardinality({}), Capacity) = {}
      BY FS_EmptySet, HistoryAssumption DEF Least
    <3>4. f \in Listings({}, Capacity)
      BY <3>2, <3>3, ListingsIs
    <3> QED BY <2>2, <3>1, <3>4 DEF HotIsNewest, Hot
  <2> QED BY <2>1, <2>3, <2>4 DEF PredictorInv
<1> QED BY <1>1, PredictorInvStep, PTL DEF Spec

\* While the daemon runs, the predictor lists the newest hot_rows of the rows it has
\* loaded or pushed, newest first, those of one millisecond in either order, for any
\* limit: push puts in front and evicts behind (predict.rs), which is right because a
\* command is recorded at the present and no other row is later; a reload and a start
\* take the listing from the table (store.rs, recent; daemon.rs, Reload and run).
THEOREM HotCorrect == Spec => []HotIsNewest
<1>1. PredictorInv => HotIsNewest
  BY DEF PredictorInv
<1> QED BY <1>1, PredictorInvCorrect, PTL

\* While the rows of shells are of one session and no two of one millisecond, every
\* listed command has the exit code that the table has for it, although mark_done
\* (predict.rs) takes the newest open command of the list whatever its session and
\* record_done (store.rs) the open row with the highest id.
THEOREM AgreesAlone == Spec => []AgreesWhenAlone
<1>1. PredictorInv => AgreesWhenAlone
  BY DEF PredictorInv
<1> QED BY <1>1, PredictorInvCorrect, PTL
=============================================================================
