---------------------------- MODULE TrashProofs ----------------------------
(***************************************************************************)
(* Proofs about Trash, for any paths, operations and processes: nothing is *)
(* lost or doubled but in the ways that are known.                         *)
(***************************************************************************)
EXTENDS Trash, WellFoundedInduction, TLAPS

(***************************************************************************)
(* The invariant.                                                          *)
(***************************************************************************)

\* What is in a slot was a target that rm has tried, and it has an entry or was
\* copied; entries are about the targets.
Filled(k) == \A i \in Slots : trashed[k][i] # {} =>
  /\ i \in DOMAIN rm[k].todo
  /\ rm[k].pc = "moving" => i < rm[k].next
  /\ rm[k].pc = "copied" => i =< rm[k].next
  /\ IsForeign(rm[k].todo[i]) \/ \E e \in DOMAIN rm[k].entries : rm[k].entries[e].slot = i

Entered(k) == \A e \in DOMAIN rm[k].entries :
  /\ rm[k].entries[e].slot \in DOMAIN rm[k].todo
  /\ rm[k].entries[e].from = rm[k].todo[rm[k].entries[e].slot]

\* An rm that has copied is about to remove what it copied.
Copied(k) == rm[k].pc = "copied" =>
  /\ rm[k].next =< Len(rm[k].todo) /\ IsForeign(Target(k))
  /\ files[Target(k)] \subseteq trashed[k][rm[k].next] \cup late

RmRight == \A k \in Ops :
  /\ rm[k].pc = "unused" => rm[k].todo = << >> /\ rm[k].entries = << >>
  /\ Len(rm[k].todo) =< MaxTargets
  /\ Filled(k) /\ Entered(k) /\ Copied(k)

\* A journal, and whoever read it, tells of an rm that has ended.
JournalRight == \A k \in Ops : journal[k].state # "none" =>
  rm[k].pc = "ended" /\ journal[k].entries = rm[k].entries

UndoRight == \A u \in Undoers :
  /\ undoer[u].pc # "idle" => /\ undoer[u].op \in Ops
                              /\ rm[undoer[u].op].pc = "ended"
                              /\ undoer[u].entries = rm[undoer[u].op].entries
  /\ undoer[u].pc = "moving" => /\ undoer[u].next =< Len(undoer[u].entries)
                                /\ undoer[u].dest \in Places
                                /\ undoer[u].dest[1] = Entry(u).from[1]
                                /\ files[undoer[u].dest] \subseteq late

PurgeRight == \A v \in purging : rm[v.op].pc = "ended"

\* A piece is in one place only, unless that place is on another filesystem or
\* a slot filled from there.
FromHere(k, i) == i \in DOMAIN rm[k].todo => ~IsForeign(rm[k].todo[i])

FilesAlone == \A p \in Places : ~IsForeign(p) =>
  /\ \A q \in Places \ {p} : files[p] \cap files[q] = {}
  /\ \A k \in Ops, i \in Slots : files[p] \cap trashed[k][i] = {}

SlotsAlone == \A k \in Ops, i \in Slots : FromHere(k, i) =>
  /\ \A q \in Places : trashed[k][i] \cap files[q] = {}
  /\ \A l \in Ops, j \in Slots : <<l, j>> # <<k, i>> => trashed[k][i] \cap trashed[l][j] = {}

Written == Kept \subseteq born

Inv ==
  /\ TypeOK
  /\ RmRight /\ JournalRight /\ UndoRight /\ PurgeRight
  /\ FilesAlone /\ SlotsAlone
  /\ Written /\ NothingElseIsLost

-----------------------------------------------------------------------------
(***************************************************************************)
(* Facts about the state.                                                  *)
(***************************************************************************)

LEMMA InKept == \A x : x \in Kept <=> \/ \E p \in Places : x \in files[p]
                                      \/ \E k \in Ops, i \in Slots : x \in trashed[k][i]
  BY DEF Kept

LEMMA InKeptNext == \A x : x \in Kept' <=> \/ \E p \in Places : x \in files'[p]
                                           \/ \E k \in Ops, i \in Slots : x \in trashed'[k][i]
  BY DEF Kept

LEMMA RmType ==
  ASSUME TypeOK, NEW k \in Ops
  PROVE  /\ rm[k] \in RmRun
         /\ rm[k].todo \in Seq(Places) /\ DOMAIN rm[k].todo = 1..Len(rm[k].todo)
         /\ rm[k].entries \in Seq(Entries) /\ DOMAIN rm[k].entries = 1..Len(rm[k].entries)
         /\ rm[k].next \in Nat \ {0} /\ Len(rm[k].todo) \in Nat
         /\ rm[k].next =< Len(rm[k].todo) + 1
  BY DEF TypeOK, RmRun

LEMMA UndoType ==
  ASSUME TypeOK, NEW u \in Undoers
  PROVE  /\ undoer[u] \in UndoRun
         /\ undoer[u].entries \in Seq(Entries)
         /\ DOMAIN undoer[u].entries = 1..Len(undoer[u].entries)
         /\ undoer[u].next \in Nat \ {0} /\ Len(undoer[u].entries) \in Nat
         /\ undoer[u].next =< Len(undoer[u].entries) + 1
  BY DEF TypeOK, UndoRun

\* The target an rm is about to move.
LEMMA TargetType ==
  ASSUME Inv, NEW k \in Ops, HasTarget(k) \/ rm[k].pc = "copied"
  PROVE  /\ rm[k].next \in DOMAIN rm[k].todo /\ rm[k].next \in Slots
         /\ Target(k) \in Places
<1>1. rm[k].next \in 1..Len(rm[k].todo)
  BY RmType DEF HasTarget, Inv, RmRight, Copied
<1>2. rm[k].next \in Slots
  BY <1>1, RmType, TrashAssumption DEF Inv, RmRight, Slots
<1> QED BY <1>1, <1>2, RmType DEF Target, Inv

\* The entry an undo is about to restore.
LEMMA EntryType ==
  ASSUME Inv, NEW u \in Undoers, undoer[u].pc # "idle",
         undoer[u].next =< Len(undoer[u].entries)
  PROVE  /\ undoer[u].op \in Ops /\ rm[undoer[u].op].pc = "ended"
         /\ Entry(u) \in Entries /\ Entry(u).slot \in Slots /\ Entry(u).from \in Places
         /\ Entry(u).slot \in DOMAIN rm[undoer[u].op].todo
         /\ Entry(u).from = rm[undoer[u].op].todo[Entry(u).slot]
<1>1. undoer[u].next \in DOMAIN undoer[u].entries
  BY UndoType DEF Inv
<1>2. Entry(u) \in Entries
  BY <1>1, UndoType DEF Inv, Entry
<1>3. undoer[u].op \in Ops /\ rm[undoer[u].op].pc = "ended"
      /\ undoer[u].entries = rm[undoer[u].op].entries
  BY DEF Inv, UndoRight
<1>4. Entered(undoer[u].op)
  BY <1>3 DEF Inv, RmRight
<1> QED BY <1>1, <1>2, <1>3, <1>4 DEF Entries, Entered, Entry

LEMMA InitInv == Init => Inv
<1> SUFFICES ASSUME Init PROVE Inv
  OBVIOUS
<1> USE DEF Init
<1>1. TypeOK
  <2>1. NoJournal \in Journal
    BY DEF NoJournal, Journal
  <2>2. IdleRm \in RmRun /\ IdleRm.next = 1 /\ Len(IdleRm.todo) = 0
    BY DEF IdleRm, RmRun
  <2>3. IdleUndoer \in UndoRun /\ IdleUndoer.next = 1 /\ Len(IdleUndoer.entries) = 0
    BY DEF IdleUndoer, UndoRun
  <2> QED BY <2>1, <2>2, <2>3 DEF TypeOK
<1>2. RmRight
  BY TrashAssumption DEF RmRight, IdleRm, Filled, Entered, Copied
<1>3. JournalRight /\ UndoRight /\ PurgeRight
  BY DEF JournalRight, NoJournal, UndoRight, IdleUndoer, PurgeRight
<1>4. FilesAlone /\ SlotsAlone
  BY DEF FilesAlone, SlotsAlone
<1>5. Written /\ NothingElseIsLost
  BY InKept DEF Written, NothingElseIsLost
<1> QED BY <1>1, <1>2, <1>3, <1>4, <1>5 DEF Inv

-----------------------------------------------------------------------------
(***************************************************************************)
(* The steps.                                                              *)
(***************************************************************************)

\* All that is known of where the pieces are.
Contents == FilesAlone /\ SlotsAlone /\ Written /\ NothingElseIsLost

\* Nothing moves: only what processes remember of their work changes.
LEMMA NothingMoves ==
  ASSUME Inv, UNCHANGED <<files, trashed, history>>,
         \A k \in Ops : \/ rm'[k].todo = rm[k].todo
                        \/ \A i \in Slots : trashed[k][i] = {}
  PROVE  Contents'
<1>1. FilesAlone'
  BY DEF Inv, FilesAlone
<1>2. SlotsAlone'
  <2> SUFFICES ASSUME NEW k \in Ops, NEW i \in Slots, FromHere(k, i)', trashed[k][i] # {}
               PROVE  /\ \A q \in Places : trashed[k][i] \cap files[q] = {}
                      /\ \A l \in Ops, j \in Slots :
                           <<l, j>> # <<k, i>> => trashed[k][i] \cap trashed[l][j] = {}
    BY DEF SlotsAlone
  <2>1. FromHere(k, i)
    BY DEF FromHere
  <2> QED BY <2>1 DEF Inv, SlotsAlone
<1>3. Written' /\ NothingElseIsLost'
  BY DEF Inv, Written, NothingElseIsLost, Kept, history
<1> QED BY <1>1, <1>2, <1>3 DEF Contents

\* Who is in danger when pieces are put at p.
LEMMA AtRiskOf ==
  ASSUME NEW p, NEW some, NEW others
  PROVE  /\ AtRisk(p, some, others) \subseteq some
         /\ \A u \in others : undoer[u].pc = "moving" /\ undoer[u].dest = p
              => AtRisk(p, some, others) = some
         /\ \A k \in Ops : rm[k].pc = "copied" /\ Target(k) = p
              => AtRisk(p, some, others) = some
  BY DEF AtRisk, Target

LEMMA StepWrite ==
  ASSUME Inv, NEW name \in Names, NEW some \in SUBSET Pieces, Write(name, some)
  PROVE  Inv'
<1> DEFINE p == <<name, 0>>
<1>1. p \in Places
  BY TrashAssumption DEF Places
<1>2. /\ files' = [files EXCEPT ![p] = @ \cup some] /\ born' = born \cup some
      /\ late' = late \cup AtRisk(p, some, Undoers) /\ some \cap born = {}
      /\ UNCHANGED <<trashed, dir, journal, rm, undoer, purging, purged, dropped>>
  BY DEF Write
<1>3. AtRisk(p, some, Undoers) \subseteq some
  BY AtRiskOf
<1> HIDE DEF p
<1>4. files \in [Places -> SUBSET Pieces]
  BY DEF Inv, TypeOK
<1>5. \A q \in Places : files'[q] = IF q = p THEN files[p] \cup some ELSE files[q]
  BY <1>2, <1>4
<1>6. TypeOK'
  BY <1>1, <1>2, <1>3 DEF Inv, TypeOK
<1>7. RmRight'
  <2>1. ASSUME NEW k \in Ops PROVE Copied(k)'
    <3> SUFFICES ASSUME rm[k].pc = "copied"
                 PROVE  files'[Target(k)] \subseteq trashed[k][rm[k].next] \cup late'
      BY <1>2 DEF Copied, Target, Inv, RmRight
    <3>1. Target(k) \in Places /\ files[Target(k)] \subseteq trashed[k][rm[k].next] \cup late
      BY TargetType DEF Inv, RmRight, Copied
    <3>2. Target(k) = p => AtRisk(p, some, Undoers) = some
      BY AtRiskOf
    <3> QED BY <1>2, <1>5, <3>1, <3>2
  <2> QED BY <1>2, <2>1 DEF Inv, RmRight, Filled, Entered
<1>8. UndoRight'
  <2>1. ASSUME NEW u \in Undoers, undoer[u].pc = "moving"
        PROVE  files'[undoer[u].dest] \subseteq late'
    <3>1. undoer[u].dest \in Places /\ files[undoer[u].dest] \subseteq late
      BY <2>1 DEF Inv, UndoRight
    <3>2. undoer[u].dest = p => AtRisk(p, some, Undoers) = some
      BY <2>1, AtRiskOf
    <3> QED BY <1>2, <1>5, <3>1, <3>2
  <2> QED BY <1>2, <2>1 DEF Inv, UndoRight, Entry
<1>9. JournalRight' /\ PurgeRight'
  BY <1>2 DEF Inv, JournalRight, PurgeRight
<1>10. \A x \in some : x \notin Kept
  BY <1>2 DEF Inv, Written
<1>11. FilesAlone'
  BY <1>1, <1>2, <1>5, <1>10, InKept DEF Inv, FilesAlone
<1>12. SlotsAlone'
  BY <1>1, <1>2, <1>5, <1>10, InKept DEF Inv, SlotsAlone, FromHere
<1>13. Written' /\ NothingElseIsLost'
  <2>1. \A x : x \in Kept' <=> x \in Kept \/ x \in some
    BY <1>1, <1>2, <1>5, InKept, InKeptNext
  <2> QED BY <1>2, <2>1 DEF Inv, Written, NothingElseIsLost
<1> QED BY <1>6, <1>7, <1>8, <1>9, <1>11, <1>12, <1>13 DEF Inv

LEMMA StepRmStarts ==
  ASSUME Inv, NEW k \in Ops, NEW todo \in TodoLists, RmStarts(k, todo)
  PROVE  Inv'
<1>1. todo \in Seq(Places) /\ Len(todo) \in Slots
  <2>1. PICK n \in Slots : todo \in [1..n -> {p \in Places : files[p] # {}}]
    BY DEF TodoLists
  <2> QED BY <2>1, TrashAssumption DEF Slots
<1>2. /\ rm[k].pc = "unused"
      /\ rm' = [rm EXCEPT ![k] = [IdleRm EXCEPT !.pc = "moving", !.todo = todo]]
      /\ dir' = dir \cup {k}
      /\ UNCHANGED <<files, trashed, journal, undoer, purging, history>>
  BY DEF RmStarts
<1>3. rm \in [Ops -> RmRun] /\ IdleRm \in RmRun
  BY DEF Inv, TypeOK, IdleRm, RmRun
<1>4. \A i \in Slots : trashed[k][i] = {}
  BY <1>2 DEF Inv, RmRight, Filled
<1>5. /\ rm' \in [Ops -> RmRun]
      /\ rm'[k].pc = "moving" /\ rm'[k].todo = todo /\ rm'[k].next = 1
      /\ rm'[k].entries = << >>
      /\ \A j \in Ops \ {k} : rm'[j] = rm[j]
  BY <1>1, <1>2, <1>3 DEF RmRun, IdleRm
<1>6. TypeOK'
  <2>1. \A j \in Ops : rm'[j].next =< Len(rm'[j].todo) + 1
    <3> SUFFICES ASSUME NEW j \in Ops PROVE rm'[j].next =< Len(rm'[j].todo) + 1
      OBVIOUS
    <3>1. rm[j].next =< Len(rm[j].todo) + 1
      BY DEF Inv, TypeOK
    <3>2. 1 =< Len(todo) + 1
      BY <1>1, TrashAssumption DEF Slots
    <3> QED BY <1>5, <3>1, <3>2
  <2> QED BY <1>2, <1>5, <2>1 DEF Inv, TypeOK, history
<1>7. RmRight'
  <2> SUFFICES ASSUME NEW j \in Ops
               PROVE  /\ rm'[j].pc = "unused" => rm'[j].todo = << >> /\ rm'[j].entries = << >>
                      /\ Len(rm'[j].todo) =< MaxTargets
                      /\ Filled(j)' /\ Entered(j)' /\ Copied(j)'
    BY DEF RmRight
  <2>1. CASE j = k
    BY <1>1, <1>2, <1>4, <1>5, <2>1, TrashAssumption DEF Filled, Entered, Copied, Slots
  <2>2. CASE j # k
    BY <1>2, <1>5, <2>2 DEF Inv, RmRight, Filled, Entered, Copied, Target, history
  <2> QED BY <2>1, <2>2
<1>8. JournalRight' /\ UndoRight' /\ PurgeRight'
  BY <1>2, <1>5 DEF Inv, JournalRight, UndoRight, PurgeRight, Entry, history, TypeOK
<1>9. Contents'
  BY <1>2, <1>4, <1>5, NothingMoves
<1> QED BY <1>6, <1>7, <1>8, <1>9 DEF Inv, Contents

\* What an rm leaves alone when it goes on: what others have read.
LEMMA OthersRead ==
  ASSUME Inv, NEW k \in Ops, rm[k].pc \in {"moving", "copied"},
         \A j \in Ops \ {k} : rm'[j] = rm[j], UNCHANGED <<journal, purging>>
  PROVE  JournalRight' /\ PurgeRight'
<1>1. journal[k].state = "none"
  BY DEF Inv, JournalRight
<1>2. \A v \in purging : v.op \in Ops /\ v.op # k
  BY DEF Inv, PurgeRight, TypeOK
<1> QED BY <1>1, <1>2 DEF Inv, JournalRight, PurgeRight

LEMMA UndosUnmoved ==
  ASSUME Inv, NEW k \in Ops, rm[k].pc \in {"moving", "copied"},
         \A j \in Ops \ {k} : rm'[j] = rm[j], UNCHANGED <<undoer, late>>,
         \A p \in Places : files'[p] \subseteq files[p]
  PROVE  UndoRight'
  BY DEF Inv, UndoRight, Entry

\* An rm goes on without a piece being moved.
LEMMA OnlyNext ==
  ASSUME Inv, NEW k \in Ops, UNCHANGED <<store, undoer, purging, history>>,
         \/ HasTarget(k) /\ NextTarget(k)
         \/ rm[k].pc \in {"moving", "copied"} /\ RmEnds(k)
  PROVE  Inv'
<1>1. rm \in [Ops -> RmRun]
  BY DEF Inv, TypeOK
<1>2. rm[k].pc \in {"moving", "copied"}
  BY DEF HasTarget
<1>3. /\ rm'[k].todo = rm[k].todo /\ rm'[k].entries = rm[k].entries
      /\ \/ rm'[k].pc = "moving" /\ rm'[k].next = rm[k].next + 1 /\ HasTarget(k)
         \/ rm'[k].pc = "ended" /\ rm'[k].next = rm[k].next
      /\ \A j \in Ops \ {k} : rm'[j] = rm[j]
      /\ rm' \in [Ops -> RmRun]
  <2>1. CASE HasTarget(k) /\ NextTarget(k)
    BY <1>1, <2>1 DEF NextTarget, RmRun
  <2>2. CASE rm[k].pc \in {"moving", "copied"} /\ RmEnds(k)
    BY <1>1, <2>2 DEF RmEnds, RmRun
  <2> QED BY <2>1, <2>2
<1>4. TypeOK'
  <2>1. \A j \in Ops : rm'[j].next =< Len(rm'[j].todo) + 1
    <3> SUFFICES ASSUME NEW j \in Ops PROVE rm'[j].next =< Len(rm'[j].todo) + 1
      OBVIOUS
    <3>1. rm[j].next =< Len(rm[j].todo) + 1 /\ rm[j].next \in Nat /\ Len(rm[j].todo) \in Nat
      BY RmType DEF Inv
    <3> QED BY <1>3, <3>1 DEF HasTarget
  <2> QED BY <1>3, <2>1 DEF Inv, TypeOK, store, history
<1>5. RmRight'
  <2> SUFFICES ASSUME NEW j \in Ops
               PROVE  /\ rm'[j].pc = "unused" => rm'[j].todo = << >> /\ rm'[j].entries = << >>
                      /\ Len(rm'[j].todo) =< MaxTargets
                      /\ Filled(j)' /\ Entered(j)' /\ Copied(j)'
    BY DEF RmRight
  <2>1. CASE j = k
    <3>1. ASSUME NEW i \in Slots, i < rm[k].next PROVE i < rm[k].next + 1
      BY <3>1, RmType DEF Inv, Slots
    <3> QED BY <1>2, <1>3, <2>1, <3>1 DEF Inv, RmRight, Filled, Entered, Copied, store, HasTarget
  <2>2. CASE j # k
    BY <1>3, <2>2 DEF Inv, RmRight, Filled, Entered, Copied, Target, history, store
  <2> QED BY <2>1, <2>2
<1>6. JournalRight' /\ UndoRight' /\ PurgeRight'
  BY <1>2, <1>3, OthersRead, UndosUnmoved DEF store, history
<1>7. Contents'
  BY <1>3, NothingMoves DEF store
<1> QED BY <1>4, <1>5, <1>6, <1>7 DEF Inv, Contents

\* What an rm does with its next target, all cases of it: put is what the slot
\* holds afterwards, left what the path does.
Transfers(k, put, left) ==
  /\ put \subseteq files[Target(k)] \cup trashed[k][rm[k].next]
  /\ left \subseteq files[Target(k)]
  /\ files[Target(k)] \cup trashed[k][rm[k].next] \subseteq left \cup put \cup late
  /\ ~IsForeign(Target(k)) => left \cap put = {}
  /\ \A q \in Places : files'[q] = IF q = Target(k) THEN left ELSE files[q]
  /\ \A j \in Ops, i \in Slots :
       trashed'[j][i] = IF j = k /\ i = rm[k].next THEN put ELSE trashed[j][i]
  /\ files' \in [Places -> SUBSET Pieces] /\ trashed' \in [Ops -> [Slots -> SUBSET Pieces]]
  /\ UNCHANGED <<dir, journal, undoer, purging, history>>

LEMMA TargetContents ==
  ASSUME Inv, NEW k \in Ops, HasTarget(k) \/ rm[k].pc = "copied",
         NEW put, NEW left, Transfers(k, put, left),
         \A j \in Ops : rm'[j].todo = rm[j].todo
  PROVE  Contents'
<1> DEFINE p == Target(k)
           n == rm[k].next
<1>1. p \in Places /\ n \in Slots /\ n \in DOMAIN rm[k].todo /\ p = rm[k].todo[n]
  BY TargetType DEF Target
<1>2. \A q \in Places : files'[q] = IF q = p THEN left ELSE files[q]
  BY DEF Transfers
<1>3. \A j \in Ops, i \in Slots :
        trashed'[j][i] = IF j = k /\ i = n THEN put ELSE trashed[j][i]
  BY DEF Transfers
<1>4. FromHere(k, n) <=> ~IsForeign(p)
  BY <1>1 DEF FromHere
<1>5. \A j \in Ops, i \in Slots : FromHere(j, i)' <=> FromHere(j, i)
  BY DEF FromHere
<1>6. put \subseteq files[p] \cup trashed[k][n] /\ left \subseteq files[p]
      /\ files[p] \cup trashed[k][n] \subseteq left \cup put \cup late
      /\ (~IsForeign(p) => left \cap put = {})
  BY DEF Transfers
<1> HIDE DEF p, n
<1>7. FilesAlone /\ SlotsAlone
  BY DEF Inv
<1>8. FilesAlone'
  BY <1>1, <1>2, <1>3, <1>4, <1>6, <1>7 DEF FilesAlone, SlotsAlone
<1>9. SlotsAlone'
  BY <1>1, <1>2, <1>3, <1>4, <1>5, <1>6, <1>7 DEF FilesAlone, SlotsAlone
<1>10. \A x \in Kept' : x \in Kept
  BY <1>1, <1>2, <1>3, <1>6, InKept, InKeptNext
<1>11. \A x \in Kept : x \in Kept' \cup late
  BY <1>1, <1>2, <1>3, <1>6, InKept, InKeptNext
<1>12. UNCHANGED history
  BY DEF Transfers
<1> QED BY <1>8, <1>9, <1>10, <1>11, <1>12 DEF Inv, Contents, Written, NothingElseIsLost, history

\* How the rm goes on: with an entry, with none, or to the removal.
LEMMA TargetStep ==
  ASSUME Inv, NEW k \in Ops, HasTarget(k) \/ rm[k].pc = "copied",
         NEW put, NEW left, Transfers(k, put, left),
         \/ AddEntry(k)
         \/ NextTarget(k) /\ IsForeign(Target(k))
         \/ /\ rm' = [rm EXCEPT ![k].pc = "copied"]
            /\ IsForeign(Target(k)) /\ left \subseteq put \cup late
  PROVE  Inv'
<1> DEFINE n == rm[k].next
           e == [from |-> Target(k), slot |-> n]
<1>1. rm \in [Ops -> RmRun]
  BY DEF Inv, TypeOK
<1>2. Target(k) \in Places /\ n \in Slots /\ n \in DOMAIN rm[k].todo /\ Target(k) = rm[k].todo[n]
  BY TargetType DEF Target
<1>3. rm[k].entries \in Seq(Entries) /\ rm[k].next \in Nat \ {0} /\ rm[k].todo \in Seq(Places)
  BY RmType DEF Inv
<1>4. e \in Entries
  BY <1>2 DEF Entries
<1>5. Append(rm[k].entries, e) \in Seq(Entries)
  BY <1>3, <1>4
<1> HIDE DEF e
<1>6. /\ rm' \in [Ops -> RmRun]
      /\ \A j \in Ops \ {k} : rm'[j] = rm[j]
      /\ rm'[k].todo = rm[k].todo
      /\ \/ /\ rm'[k].pc = "moving" /\ rm'[k].next = n + 1
            /\ rm'[k].entries = Append(rm[k].entries, e)
         \/ /\ rm'[k].pc = "moving" /\ rm'[k].next = n + 1 /\ IsForeign(Target(k))
            /\ rm'[k].entries = rm[k].entries
         \/ /\ rm'[k].pc = "copied" /\ rm'[k].next = n /\ IsForeign(Target(k))
            /\ left \subseteq put \cup late
            /\ rm'[k].entries = rm[k].entries
  <2>1. CASE AddEntry(k)
    <3>1. rm' = [rm EXCEPT ![k].pc = "moving", ![k].next = @ + 1, ![k].entries = Append(@, e)]
      BY <2>1 DEF AddEntry, e
    <3> DEFINE new == Append(rm[k].entries, e)
               r   == [rm[k] EXCEPT !.pc = "moving", !.next = @ + 1, !.entries = new]
    <3>2. rm[k].next + 1 \in Nat \ {0} /\ new \in Seq(Entries)
      BY <1>3, <1>5
    <3> HIDE DEF new
    <3>3. /\ r \in RmRun /\ r.todo = rm[k].todo
          /\ r.pc = "moving" /\ r.next = n + 1 /\ r.entries = new
      BY <1>1, <3>2 DEF RmRun
    <3>4. rm' = [rm EXCEPT ![k] = r]
      BY <1>1, <3>1 DEF new
    <3> HIDE DEF r
    <3>5. /\ rm' \in [Ops -> RmRun] /\ rm'[k] = r
          /\ \A j \in Ops \ {k} : rm'[j] = rm[j]
      BY <1>1, <3>3, <3>4
    <3>6. rm'[k].entries = Append(rm[k].entries, e)
      BY <3>3, <3>5 DEF new
    <3>7. rm'[k].todo = rm[k].todo /\ rm'[k].pc = "moving" /\ rm'[k].next = n + 1
      BY <3>3, <3>5
    <3> HIDE DEF n
    <3> QED BY <3>5, <3>6, <3>7, Zenon
  <2>2. CASE NextTarget(k) /\ IsForeign(Target(k))
    <3> DEFINE r == [rm[k] EXCEPT !.pc = "moving", !.next = @ + 1]
    <3>1. rm[k].next + 1 \in Nat \ {0}
      BY <1>3
    <3>2. /\ r \in RmRun /\ r.todo = rm[k].todo
          /\ r.pc = "moving" /\ r.next = n + 1 /\ r.entries = rm[k].entries
      BY <1>1, <3>1 DEF RmRun
    <3>3. rm' = [rm EXCEPT ![k] = r]
      BY <1>1, <2>2 DEF NextTarget
    <3> HIDE DEF r
    <3>4. /\ rm' \in [Ops -> RmRun] /\ rm'[k] = r
          /\ \A j \in Ops \ {k} : rm'[j] = rm[j]
      BY <1>1, <3>2, <3>3
    <3>5. /\ rm'[k].todo = rm[k].todo /\ rm'[k].pc = "moving" /\ rm'[k].next = n + 1
          /\ rm'[k].entries = rm[k].entries
      BY <3>2, <3>4
    <3> HIDE DEF n
    <3> QED BY <2>2, <3>4, <3>5, Zenon
  <2>3. CASE /\ rm' = [rm EXCEPT ![k].pc = "copied"]
             /\ IsForeign(Target(k)) /\ left \subseteq put \cup late
    BY <1>1, <2>3 DEF RmRun
  <2> QED BY <2>1, <2>2, <2>3
<1>7. TypeOK'
  <2>1. \A j \in Ops : rm'[j].next =< Len(rm'[j].todo) + 1
    <3> SUFFICES ASSUME NEW j \in Ops PROVE rm'[j].next =< Len(rm'[j].todo) + 1
      OBVIOUS
    <3>1. rm[j].next =< Len(rm[j].todo) + 1 /\ Len(rm[k].todo) \in Nat /\ n =< Len(rm[k].todo)
      BY <1>2, RmType DEF Inv
    <3>2. CASE j = k
      <4>1. rm'[k].next \in {n, n + 1} /\ rm'[k].todo = rm[k].todo
        BY <1>6
      <4> QED BY <1>3, <3>1, <3>2, <4>1
    <3>3. CASE j # k
      BY <1>6, <3>1, <3>3
    <3> QED BY <3>2, <3>3
  <2> QED BY <1>6, <2>1 DEF Inv, TypeOK, Transfers, history
<1>8. RmRight'
  <2> SUFFICES ASSUME NEW j \in Ops
               PROVE  /\ rm'[j].pc = "unused" => rm'[j].todo = << >> /\ rm'[j].entries = << >>
                      /\ Len(rm'[j].todo) =< MaxTargets
                      /\ Filled(j)' /\ Entered(j)' /\ Copied(j)'
    BY DEF RmRight
  <2>1. CASE j = k
    <3>1. Filled(k) /\ Entered(k) /\ Len(rm[k].todo) =< MaxTargets
      BY DEF Inv, RmRight
    <3>2. rm[k].pc \in {"moving", "copied"}
      BY DEF HasTarget
    <3>3. /\ \A i \in Slots \ {n} : trashed'[k][i] = trashed[k][i]
          /\ trashed'[k][n] = put
      BY <1>2 DEF Transfers
    <3>4. Filled(k)'
      <4> SUFFICES ASSUME NEW i \in Slots, trashed'[k][i] # {}
                   PROVE  /\ i \in DOMAIN rm'[k].todo
                          /\ rm'[k].pc = "moving" => i < rm'[k].next
                          /\ rm'[k].pc = "copied" => i =< rm'[k].next
                          /\ \/ IsForeign(rm'[k].todo[i])
                             \/ \E a \in DOMAIN rm'[k].entries : rm'[k].entries[a].slot = i
        BY DEF Filled, IsForeign
      <4>1. i \in DOMAIN rm[k].todo /\ i \in Nat
        BY <1>2, <3>1, <3>3 DEF Filled, Slots
      <4>2. i =< n
        BY <1>3, <3>1, <3>2, <3>3, <4>1 DEF Filled
      <4>3. \A a \in DOMAIN rm[k].entries :
               /\ a \in DOMAIN Append(rm[k].entries, e)
               /\ Append(rm[k].entries, e)[a] = rm[k].entries[a]
        BY <1>3, <1>4
      <4>4. /\ Len(rm[k].entries) + 1 \in DOMAIN Append(rm[k].entries, e)
            /\ Append(rm[k].entries, e)[Len(rm[k].entries) + 1] = e
        BY <1>3, <1>4
      <4>5. e.slot = n
        BY DEF e
      <4>6. CASE i = n
        BY <1>2, <1>3, <1>6, <4>1, <4>4, <4>5, <4>6
      <4>7. CASE i # n
        <5>1. \/ IsForeign(rm[k].todo[i])
              \/ \E a \in DOMAIN rm[k].entries : rm[k].entries[a].slot = i
          BY <3>1, <3>3, <4>7 DEF Filled
        <5>2. \/ IsForeign(rm'[k].todo[i])
              \/ \E a \in DOMAIN rm'[k].entries : rm'[k].entries[a].slot = i
          BY <1>6, <4>3, <5>1
        <5>3. i < n + 1 /\ i =< n
          BY <1>3, <4>1, <4>2
        <5>4. i \in DOMAIN rm'[k].todo
          BY <1>6, <4>1
        <5>5. (rm'[k].pc = "moving" => rm'[k].next = n + 1) /\ (rm'[k].pc = "copied" => rm'[k].next = n)
          BY <1>6
        <5> QED BY <5>2, <5>3, <5>4, <5>5
      <4> QED BY <4>6, <4>7
    <3>5. Entered(k)'
      <4>1. \A a \in DOMAIN Append(rm[k].entries, e) :
              \/ a \in DOMAIN rm[k].entries /\ Append(rm[k].entries, e)[a] = rm[k].entries[a]
              \/ Append(rm[k].entries, e)[a] = e
        BY <1>3, <1>4
      <4>2. e.slot = n /\ e.from = Target(k)
        BY DEF e
      <4>3. \A a \in DOMAIN rm'[k].entries :
              \/ a \in DOMAIN rm[k].entries /\ rm'[k].entries[a] = rm[k].entries[a]
              \/ rm'[k].entries[a] = e
        BY <1>6, <4>1
      <4> QED BY <1>2, <1>6, <3>1, <4>2, <4>3 DEF Entered
    <3>6. Copied(k)'
      <4> SUFFICES ASSUME rm'[k].pc = "copied"
                   PROVE  /\ rm'[k].next =< Len(rm'[k].todo) /\ IsForeign(Target(k)')
                          /\ files'[Target(k)'] \subseteq trashed'[k][rm'[k].next] \cup late'
        BY DEF Copied, IsForeign
      <4>1. Target(k)' = Target(k)
        BY <1>6 DEF Target
      <4>2. n =< Len(rm[k].todo)
        BY <1>2, RmType DEF Inv
      <4>3. late' = late /\ files'[Target(k)] = left
        BY <1>2 DEF Transfers, history
      <4> QED BY <1>2, <1>6, <3>3, <4>1, <4>2, <4>3
    <3> QED BY <1>6, <2>1, <3>1, <3>4, <3>5, <3>6
  <2>2. CASE j # k
    <3>1. Filled(j) /\ Entered(j) /\ Copied(j)
      BY DEF Inv, RmRight
    <3>2. rm'[j] = rm[j] /\ \A i \in Slots : trashed'[j][i] = trashed[j][i]
      BY <1>6, <2>2 DEF Transfers
    <3>3. Copied(j)'
      <4>1. CASE rm[j].pc = "copied"
        <5>1. Target(j) \in Places /\ rm[j].next \in Slots
          BY <4>1, TargetType
        <5>2. files'[Target(j)] \subseteq files[Target(j)] /\ late' = late
          BY <5>1 DEF Transfers, history
        <5> QED BY <3>1, <3>2, <5>1, <5>2 DEF Copied, Target
      <4> QED BY <3>2, <4>1 DEF Copied
    <3> QED BY <3>1, <3>2, <3>3 DEF Filled, Entered, Inv, RmRight
  <2> QED BY <2>1, <2>2
<1>9. JournalRight' /\ PurgeRight'
  BY <1>6, OthersRead DEF Transfers, HasTarget
<1>10. UndoRight'
  <2>1. \A q \in Places : files'[q] \subseteq files[q]
    BY DEF Transfers
  <2> QED BY <1>6, <2>1, UndosUnmoved DEF Transfers, HasTarget, history
<1>11. Contents'
  BY <1>6, TargetContents
<1> QED BY <1>7, <1>8, <1>9, <1>10, <1>11 DEF Inv, Contents

LEMMA StepRmMoves ==
  ASSUME Inv, NEW k \in Ops,
         \/ RmMoves(k) \/ RmCopies(k) \/ RmCopiesPart(k)
         \/ RmRemoves(k) \/ RmRemovesPart(k)
  PROVE  Inv'
<1> DEFINE p == Target(k)
           slot == trashed[k][rm[k].next]
<1>1. HasTarget(k) \/ rm[k].pc = "copied"
  BY DEF RmMoves, RmCopies, RmCopiesPart, RmRemoves, RmRemovesPart
<1>2. p \in Places /\ rm[k].next \in Slots
  BY <1>1, TargetType
<1>3. files \in [Places -> SUBSET Pieces] /\ trashed \in [Ops -> [Slots -> SUBSET Pieces]]
  BY DEF Inv, TypeOK
<1>4. HasTarget(k) => slot = {}
  <2>1. Filled(k) /\ rm[k].next \in Nat
    BY RmType DEF Inv, RmRight
  <2> QED BY <1>2, <2>1 DEF HasTarget, Filled
<1>5. rm[k].pc = "copied" => IsForeign(p) /\ files[p] \subseteq slot \cup late
  BY DEF Inv, RmRight, Copied
<1>6. CASE RmMoves(k)
  <2>1. /\ trashed' = [trashed EXCEPT ![k][rm[k].next] = files[p]]
        /\ files' = [files EXCEPT ![p] = {}]
        /\ UNCHANGED <<dir, journal, undoer, purging, history>> /\ AddEntry(k) /\ HasTarget(k)
    BY <1>6 DEF RmMoves
  <2> HIDE DEF p
  <2>2. Transfers(k, files[p], {})
    BY <1>2, <1>3, <1>4, <2>1 DEF Transfers, p
  <2> QED BY <1>1, <2>1, <2>2, TargetStep
<1>7. CASE RmCopies(k)
  <2>1. /\ trashed' = [trashed EXCEPT ![k][rm[k].next] = files[p]]
        /\ UNCHANGED <<files, dir, journal, undoer, purging, history>>
        /\ rm' = [rm EXCEPT ![k].pc = "copied"]
        /\ HasTarget(k) /\ IsForeign(p)
    BY <1>7 DEF RmCopies
  <2> HIDE DEF p
  <2>2. Transfers(k, files[p], files[p])
    BY <1>2, <1>3, <1>4, <2>1 DEF Transfers, p
  <2> QED BY <1>1, <2>1, <2>2, TargetStep DEF p
<1>8. CASE RmCopiesPart(k)
  <2>1. PICK part \in SUBSET files[p] : trashed' = [trashed EXCEPT ![k][rm[k].next] = part]
    BY <1>8 DEF RmCopiesPart
  <2>2. /\ UNCHANGED <<files, dir, journal, undoer, purging, history>>
        /\ NextTarget(k) /\ HasTarget(k) /\ IsForeign(p)
    BY <1>8 DEF RmCopiesPart
  <2> HIDE DEF p
  <2>3. Transfers(k, part, files[p])
    BY <1>2, <1>3, <1>4, <2>1, <2>2 DEF Transfers, p
  <2> QED BY <1>1, <2>2, <2>3, TargetStep DEF p
<1>9. CASE RmRemoves(k)
  <2>1. /\ files' = [files EXCEPT ![p] = {}]
        /\ UNCHANGED <<trashed, dir, journal, undoer, purging, history>>
        /\ AddEntry(k) /\ rm[k].pc = "copied"
    BY <1>9 DEF RmRemoves
  <2> HIDE DEF p
  <2>2. Transfers(k, slot, {})
    BY <1>2, <1>3, <1>5, <2>1 DEF Transfers, p
  <2> QED BY <1>1, <2>1, <2>2, TargetStep
<1>10. CASE RmRemovesPart(k)
  <2>1. PICK left \in SUBSET files[p] : files' = [files EXCEPT ![p] = left]
    BY <1>10 DEF RmRemovesPart
  <2>2. /\ UNCHANGED <<trashed, dir, journal, undoer, purging, history>>
        /\ NextTarget(k) /\ rm[k].pc = "copied"
    BY <1>10 DEF RmRemovesPart
  <2> HIDE DEF p
  <2>3. Transfers(k, slot, left)
    BY <1>2, <1>3, <1>5, <2>1, <2>2 DEF Transfers, p
  <2> QED BY <1>1, <1>5, <2>2, <2>3, TargetStep DEF p
<1> QED BY <1>6, <1>7, <1>8, <1>9, <1>10

\* The end of an rm: with a journal, or with nothing left of its directory.
LEMMA RmEndsType ==
  ASSUME Inv, NEW k \in Ops, AllTried(k), RmEnds(k)
  PROVE  /\ rm' \in [Ops -> RmRun] /\ \A j \in Ops \ {k} : rm'[j] = rm[j]
         /\ rm'[k].pc = "ended" /\ rm'[k].todo = rm[k].todo
         /\ rm'[k].entries = rm[k].entries /\ rm'[k].next = rm[k].next
         /\ rm[k].pc = "moving"
  BY DEF Inv, TypeOK, RmEnds, AllTried, RmRun

LEMMA StepRmGivesUp ==
  ASSUME Inv, NEW k \in Ops, RmGivesUp(k)
  PROVE  Inv'
<1> DEFINE gone == UNION {trashed[k][i] : i \in {i \in DOMAIN rm[k].todo : IsForeign(rm[k].todo[i])}}
<1>1. /\ AllTried(k) /\ rm[k].entries = << >> /\ RmEnds(k)
      /\ dir' = dir \ {k}
      /\ trashed' = [trashed EXCEPT ![k] = [i \in Slots |-> {}]]
      /\ dropped' = dropped \cup gone
      /\ UNCHANGED <<files, journal, undoer, purging, born, purged, late>>
  BY DEF RmGivesUp
<1>2. /\ rm' \in [Ops -> RmRun] /\ \A j \in Ops \ {k} : rm'[j] = rm[j]
      /\ rm'[k].pc = "ended" /\ rm'[k].todo = rm[k].todo
      /\ rm'[k].entries = rm[k].entries /\ rm'[k].next = rm[k].next
      /\ rm[k].pc = "moving"
  BY <1>1, RmEndsType
<1>3. trashed \in [Ops -> [Slots -> SUBSET Pieces]]
  BY DEF Inv, TypeOK
<1>4. \A j \in Ops, i \in Slots : trashed'[j][i] = IF j = k THEN {} ELSE trashed[j][i]
  BY <1>1, <1>3
<1>5. Filled(k) /\ Len(rm[k].todo) =< MaxTargets
  BY DEF Inv, RmRight
<1>6. \A i \in Slots : trashed[k][i] \subseteq gone
  BY <1>1, <1>5 DEF Filled
<1>7. DOMAIN rm[k].todo \subseteq Slots
  BY <1>5, RmType, TrashAssumption DEF Inv, Slots
<1>8. gone \subseteq Kept
  BY <1>7, InKept
<1> HIDE DEF gone
<1>9. TypeOK'
  <2>1. gone \subseteq Pieces
    BY <1>3, <1>7 DEF gone
  <2>2. trashed' \in [Ops -> [Slots -> SUBSET Pieces]]
    BY <1>1, <1>3
  <2>3. \A j \in Ops : rm'[j].next =< Len(rm'[j].todo) + 1
    BY <1>2 DEF Inv, TypeOK
  <2> QED BY <1>1, <1>2, <2>1, <2>2, <2>3 DEF Inv, TypeOK
<1>10. RmRight'
  <2> SUFFICES ASSUME NEW j \in Ops
               PROVE  /\ rm'[j].pc = "unused" => rm'[j].todo = << >> /\ rm'[j].entries = << >>
                      /\ Len(rm'[j].todo) =< MaxTargets
                      /\ Filled(j)' /\ Entered(j)' /\ Copied(j)'
    BY DEF RmRight
  <2>1. CASE j = k
    BY <1>2, <1>4, <2>1 DEF Inv, RmRight, Filled, Entered, Copied
  <2>2. CASE j # k
    <3>1. Filled(j)' /\ Entered(j)'
      BY <1>2, <1>4, <2>2 DEF Inv, RmRight, Filled, Entered
    <3>2. Copied(j)'
      <4>1. CASE rm[j].pc = "copied"
        <5>1. rm[j].next \in Slots
          BY <4>1, TargetType
        <5> QED BY <1>1, <1>2, <1>4, <2>2, <5>1 DEF Inv, RmRight, Copied, Target
      <4> QED BY <1>2, <2>2, <4>1 DEF Copied
    <3> QED BY <1>2, <2>2, <3>1, <3>2 DEF Inv, RmRight
  <2> QED BY <2>1, <2>2
<1>11. JournalRight' /\ PurgeRight' /\ UndoRight'
  BY <1>1, <1>2, OthersRead, UndosUnmoved
<1>12. FilesAlone'
  BY <1>1, <1>4 DEF Inv, FilesAlone
<1>13. SlotsAlone'
  <2>1. \A j \in Ops, i \in Slots : FromHere(j, i)' <=> FromHere(j, i)
    BY <1>2 DEF FromHere
  <2> QED BY <1>1, <1>4, <2>1 DEF Inv, SlotsAlone
<1>14. \A x \in Kept' : x \in Kept
  BY <1>1, <1>4, InKept, InKeptNext
<1>15. \A x \in Kept : x \in Kept' \cup gone
  BY <1>1, <1>4, <1>6, InKept, InKeptNext
<1> QED BY <1>1, <1>9, <1>10, <1>11, <1>12, <1>13, <1>14, <1>15 DEF Inv, Written, NothingElseIsLost

LEMMA StepRmJournals ==
  ASSUME Inv, NEW k \in Ops, RmJournals(k)
  PROVE  Inv'
<1>1. /\ AllTried(k) /\ RmEnds(k)
      /\ journal' = [journal EXCEPT ![k] = [state |-> "live", entries |-> rm[k].entries]]
      /\ UNCHANGED <<files, trashed, dir, undoer, purging, history>>
  BY DEF RmJournals
<1>2. /\ rm' \in [Ops -> RmRun] /\ \A j \in Ops \ {k} : rm'[j] = rm[j]
      /\ rm'[k].pc = "ended" /\ rm'[k].todo = rm[k].todo
      /\ rm'[k].entries = rm[k].entries /\ rm'[k].next = rm[k].next
      /\ rm[k].pc = "moving"
  BY <1>1, RmEndsType
<1>3. TypeOK'
  <2>1. [state |-> "live", entries |-> rm[k].entries] \in Journal
    BY RmType DEF Inv, Journal
  <2>2. journal' \in [Ops -> Journal]
    BY <1>1, <2>1 DEF Inv, TypeOK
  <2>3. \A j \in Ops : rm'[j].next =< Len(rm'[j].todo) + 1
    BY <1>2 DEF Inv, TypeOK
  <2> QED BY <1>1, <1>2, <2>2, <2>3 DEF Inv, TypeOK, history
<1>4. RmRight'
  <2> SUFFICES ASSUME NEW j \in Ops
               PROVE  /\ rm'[j].pc = "unused" => rm'[j].todo = << >> /\ rm'[j].entries = << >>
                      /\ Len(rm'[j].todo) =< MaxTargets
                      /\ Filled(j)' /\ Entered(j)' /\ Copied(j)'
    BY DEF RmRight
  <2>1. CASE j = k
    BY <1>1, <1>2, <2>1 DEF Inv, RmRight, Filled, Entered, Copied
  <2>2. CASE j # k
    BY <1>1, <1>2, <2>2 DEF Inv, RmRight, Filled, Entered, Copied, Target, history
  <2> QED BY <2>1, <2>2
<1>5. JournalRight'
  BY <1>1, <1>2 DEF Inv, TypeOK, JournalRight
<1>6. UndoRight' /\ PurgeRight'
  BY <1>1, <1>2, UndosUnmoved DEF Inv, PurgeRight, TypeOK, history
<1>7. Contents'
  BY <1>1, <1>2, NothingMoves
<1> QED BY <1>3, <1>4, <1>5, <1>6, <1>7 DEF Inv, Contents

\* A nonempty set of numbers has a least one.
LEMMA HasLeast ==
  ASSUME NEW T \in SUBSET Nat, T # {}
  PROVE  \E x \in T : \A y \in T : x =< y
<1>1. PICK x \in T : \A y \in T : ~(<<y, x>> \in OpToRel(<, Nat))
  BY WFMin, NatLessThanWellFounded
<1>2. \A y \in T : ~(y < x)
  BY <1>1 DEF OpToRel
<1> QED BY <1>2

\* Undo looks for a place of the same name, and finds a free one.
LEMMA DestinationIsFree ==
  ASSUME NEW p \in Places, \E i \in p[2]..MaxAlt : files[<<p[1], i>>] = {}
  PROVE  /\ Destination(p) \in Places /\ Destination(p)[1] = p[1]
         /\ files[Destination(p)] = {}
<1>1. CASE files[p] = {}
  BY <1>1 DEF Destination
<1>2. CASE files[p] # {}
  <2> DEFINE T == {i \in (p[2] + 1)..MaxAlt : files[<<p[1], i>>] = {}}
  <2>1. p = <<p[1], p[2]>> /\ p[1] \in Names /\ p[2] \in Nat /\ MaxAlt \in Nat
    BY TrashAssumption DEF Places
  <2>2. T # {}
    <3>1. PICK i \in p[2]..MaxAlt : files[<<p[1], i>>] = {}
      OBVIOUS
    <3>2. i # p[2]
      BY <1>2, <2>1, <3>1
    <3>3. i \in (p[2] + 1)..MaxAlt
      BY <2>1, <3>2
    <3> QED BY <3>1, <3>3
  <2>3. T \subseteq Nat
    BY <2>1
  <2>4. PICK n \in T : \A y \in T : n =< y
    <3> HIDE DEF T
    <3> QED BY <2>2, <2>3, HasLeast
  <2>5. n \in (p[2] + 1)..MaxAlt /\ files[<<p[1], n>>] = {}
    OBVIOUS
  <2>6. \A i \in (p[2] + 1)..(n - 1) : files[<<p[1], i>>] # {}
    <3> SUFFICES ASSUME NEW i \in (p[2] + 1)..(n - 1), files[<<p[1], i>>] = {} PROVE FALSE
      OBVIOUS
    <3>1. i \in (p[2] + 1)..MaxAlt /\ i < n
      BY <2>1, <2>5
    <3>2. n =< i
      BY <2>4, <3>1
    <3> QED BY <2>1, <2>5, <3>1, <3>2
  <2> DEFINE q == <<p[1], n>>
  <2>7. /\ q \in Places /\ q[1] = p[1] /\ q[2] > p[2] /\ files[q] = {}
        /\ \A i \in (p[2] + 1)..(q[2] - 1) : files[<<p[1], i>>] # {}
    BY <2>1, <2>5, <2>6 DEF Places
  <2>8. /\ AltName(p) \in Places /\ AltName(p)[1] = p[1] /\ files[AltName(p)] = {}
    <3> HIDE DEF q
    <3> QED BY <2>7, Zenon DEF AltName
  <2> QED BY <1>2, <2>8 DEF Destination
<1> QED BY <1>1, <1>2

\* An undo that only remembers something.
LEMMA UndoOnly ==
  ASSUME Inv, NEW u \in Undoers, UNCHANGED <<store, rm, purging, history>>,
         undoer' \in [Undoers -> UndoRun], \A v \in Undoers \ {u} : undoer'[v] = undoer[v],
         undoer'[u].next =< Len(undoer'[u].entries) + 1,
         undoer'[u].pc # "idle" =>
           /\ undoer'[u].op \in Ops /\ rm[undoer'[u].op].pc = "ended"
           /\ undoer'[u].entries = rm[undoer'[u].op].entries,
         undoer'[u].pc = "moving" =>
           /\ undoer'[u].next =< Len(undoer'[u].entries)
           /\ undoer'[u].dest \in Places
           /\ undoer'[u].dest[1] = undoer'[u].entries[undoer'[u].next].from[1]
           /\ files[undoer'[u].dest] \subseteq late
  PROVE  Inv'
<1>1. TypeOK'
  <2>1. \A v \in Undoers : undoer'[v].next =< Len(undoer'[v].entries) + 1
    BY DEF Inv, TypeOK
  <2> QED BY <2>1 DEF Inv, TypeOK, store, history
<1>2. RmRight' /\ JournalRight' /\ PurgeRight'
  BY DEF Inv, RmRight, JournalRight, PurgeRight, Filled, Entered, Copied, Target, store, history
<1>3. UndoRight'
  BY DEF Inv, UndoRight, Entry, store, history
<1>4. Contents'
  BY NothingMoves DEF store
<1> QED BY <1>1, <1>2, <1>3, <1>4 DEF Inv, Contents

LEMMA IdleIsUndo == IdleUndoer \in UndoRun /\ IdleUndoer.pc = "idle"
                    /\ IdleUndoer.next = 1 /\ Len(IdleUndoer.entries) = 0
  BY DEF IdleUndoer, UndoRun

LEMMA StepUndoStarts ==
  ASSUME Inv, NEW u \in Undoers, NEW k \in Ops, UndoStarts(u, k)
  PROVE  Inv'
<1> DEFINE r == [IdleUndoer EXCEPT !.pc = "checking", !.op = k, !.entries = journal[k].entries]
<1>1. /\ journal[k].state # "none" /\ undoer' = [undoer EXCEPT ![u] = r]
      /\ UNCHANGED <<store, rm, purging, history>>
  BY DEF UndoStarts
<1>2. journal[k].entries = rm[k].entries /\ rm[k].pc = "ended"
  BY <1>1 DEF Inv, JournalRight
<1>3. rm[k].entries \in Seq(Entries)
  BY RmType DEF Inv
<1>4. /\ r \in UndoRun /\ r.pc = "checking" /\ r.op = k /\ r.entries = rm[k].entries /\ r.next = 1
  BY <1>2, <1>3, IdleIsUndo DEF UndoRun, IdleUndoer
<1> HIDE DEF r
<1>5. undoer' \in [Undoers -> UndoRun] /\ undoer'[u] = r
      /\ \A v \in Undoers \ {u} : undoer'[v] = undoer[v]
  BY <1>1, <1>4 DEF Inv, TypeOK
<1>6. 1 =< Len(rm[k].entries) + 1
  BY <1>3
<1> QED BY <1>1, <1>2, <1>4, <1>5, <1>6, UndoOnly

LEMMA StepUndoChecks ==
  ASSUME Inv, NEW u \in Undoers, UndoChecks(u)
  PROVE  Inv'
<1> DEFINE d == Destination(Entry(u).from)
<1>1. /\ undoer[u].pc = "checking" /\ undoer[u].next =< Len(undoer[u].entries)
      /\ \E i \in Entry(u).from[2]..MaxAlt : files[<<Entry(u).from[1], i>>] = {}
      /\ undoer' = [undoer EXCEPT ![u].pc = "moving", ![u].dest = d]
      /\ UNCHANGED <<store, rm, purging, history>>
  BY DEF UndoChecks
<1>2. Entry(u).from \in Places
  BY <1>1, EntryType
<1>3. d \in Places /\ d[1] = Entry(u).from[1] /\ files[d] = {}
  BY <1>1, <1>2, DestinationIsFree
<1> HIDE DEF d
<1>4. /\ undoer' \in [Undoers -> UndoRun]
      /\ \A v \in Undoers \ {u} : undoer'[v] = undoer[v]
      /\ undoer'[u].pc = "moving" /\ undoer'[u].dest = d /\ undoer'[u].op = undoer[u].op
      /\ undoer'[u].entries = undoer[u].entries /\ undoer'[u].next = undoer[u].next
  <2> DEFINE r == [undoer[u] EXCEPT !.pc = "moving", !.dest = d]
  <2>1. undoer[u] \in UndoRun /\ undoer \in [Undoers -> UndoRun]
    BY DEF Inv, TypeOK
  <2>2. /\ r \in UndoRun /\ r.pc = "moving" /\ r.dest = d /\ r.op = undoer[u].op
        /\ r.entries = undoer[u].entries /\ r.next = undoer[u].next
    BY <1>3, <2>1 DEF UndoRun
  <2>3. undoer' = [undoer EXCEPT ![u] = r]
    BY <1>1, <2>1
  <2> HIDE DEF r
  <2> QED BY <2>1, <2>2, <2>3
<1>5. undoer[u].next =< Len(undoer[u].entries) + 1
  BY DEF Inv, TypeOK
<1>6. /\ undoer[u].op \in Ops /\ rm[undoer[u].op].pc = "ended"
      /\ undoer[u].entries = rm[undoer[u].op].entries
  BY <1>1 DEF Inv, UndoRight
<1>7. undoer'[u].entries[undoer'[u].next].from = Entry(u).from
  BY <1>4 DEF Entry
<1>8. /\ undoer'[u].next =< Len(undoer'[u].entries)
      /\ undoer'[u].dest \in Places /\ files[undoer'[u].dest] \subseteq late
      /\ undoer'[u].dest[1] = undoer'[u].entries[undoer'[u].next].from[1]
      /\ undoer'[u].next =< Len(undoer'[u].entries) + 1
      /\ undoer'[u].op \in Ops /\ rm[undoer'[u].op].pc = "ended"
      /\ undoer'[u].entries = rm[undoer'[u].op].entries
  BY <1>1, <1>3, <1>4, <1>5, <1>6, <1>7
<1> QED BY <1>1, <1>4, <1>8, UndoOnly

LEMMA NextEntryType ==
  ASSUME TypeOK, NEW u \in Undoers, NEW moved \in BOOLEAN, NextEntry(u, moved)
  PROVE  /\ undoer' \in [Undoers -> UndoRun]
         /\ \A v \in Undoers \ {u} : undoer'[v] = undoer[v]
         /\ undoer'[u].pc = "checking" /\ undoer'[u].op = undoer[u].op
         /\ undoer'[u].entries = undoer[u].entries /\ undoer'[u].next = undoer[u].next + 1
<1> DEFINE b == undoer[u].any \/ moved
           r == [undoer[u] EXCEPT !.pc = "checking", !.next = @ + 1, !.dest = << >>, !.any = b]
<1>1. undoer[u] \in UndoRun /\ undoer \in [Undoers -> UndoRun]
  BY DEF TypeOK
<1>2. b \in BOOLEAN
  OBVIOUS
<1>3. undoer' = [undoer EXCEPT ![u] = r]
  BY <1>1 DEF NextEntry
<1> HIDE DEF b
<1>4. /\ r.pc = "checking" /\ r.op = undoer[u].op
      /\ r.entries = undoer[u].entries /\ r.next = undoer[u].next + 1
  BY <1>1 DEF UndoRun
<1>5. undoer[u].next + 1 \in Nat \ {0}
  BY <1>1 DEF UndoRun
<1>6. r \in UndoRun
  BY <1>1, <1>2, <1>5 DEF UndoRun
<1> HIDE DEF r
<1> QED BY <1>1, <1>3, <1>4, <1>6

LEMMA StepUndoGoesOn ==
  ASSUME Inv, NEW u \in Undoers, UndoSkips(u) \/ UndoDies(u)
  PROVE  Inv'
<1>1. CASE UndoSkips(u)
  <2>1. /\ undoer[u].pc = "moving" /\ NextEntry(u, FALSE)
        /\ UNCHANGED <<store, rm, purging, history>>
    BY <1>1 DEF UndoSkips
  <2>2. undoer[u].next =< Len(undoer[u].entries)
    BY <2>1 DEF Inv, UndoRight
  <2>3. /\ undoer' \in [Undoers -> UndoRun]
        /\ \A v \in Undoers \ {u} : undoer'[v] = undoer[v]
        /\ undoer'[u].pc = "checking" /\ undoer'[u].op = undoer[u].op
        /\ undoer'[u].entries = undoer[u].entries /\ undoer'[u].next = undoer[u].next + 1
    BY <2>1, NextEntryType DEF Inv
  <2>4. undoer[u].next + 1 =< Len(undoer[u].entries) + 1
    BY <2>2, UndoType DEF Inv
  <2> QED BY <2>1, <2>3, <2>4, UndoOnly DEF Inv, UndoRight
<1>2. CASE UndoDies(u)
  <2>1. /\ undoer' = [undoer EXCEPT ![u] = IdleUndoer]
        /\ UNCHANGED <<store, rm, purging, history>>
    BY <1>2 DEF UndoDies
  <2>2. /\ undoer' \in [Undoers -> UndoRun] /\ undoer'[u] = IdleUndoer
        /\ \A v \in Undoers \ {u} : undoer'[v] = undoer[v]
    BY <2>1, IdleIsUndo DEF Inv, TypeOK
  <2> QED BY <2>1, <2>2, IdleIsUndo, UndoOnly
<1> QED BY <1>1, <1>2

\* An undo puts some of its entry at a place and leaves the rest in the slot.
Restores(u, copied, left, there) ==
  LET p == undoer[u].dest
      k == undoer[u].op
      i == Entry(u).slot
  IN
  /\ copied \cup left = trashed[k][i] /\ there \subseteq files[p]
  /\ ~IsForeign(p) => left = {} /\ there = {}
  /\ files' \in [Places -> SUBSET Pieces] /\ trashed' \in [Ops -> [Slots -> SUBSET Pieces]]
  /\ \A q \in Places : files'[q] = IF q = p THEN there \cup copied ELSE files[q]
  /\ \A j \in Ops, m \in Slots :
       trashed'[j][m] = IF j = k /\ m = i THEN left ELSE trashed[j][m]
  /\ late' = late \cup AtRisk(p, copied, Undoers \ {u})
  /\ UNCHANGED <<dir, journal, rm, purging, born, purged, dropped>>

LEMMA RestoresStep ==
  ASSUME Inv, NEW u \in Undoers, undoer[u].pc = "moving",
         NEW copied, NEW left, NEW there, Restores(u, copied, left, there),
         NEW moved \in BOOLEAN, NextEntry(u, moved)
  PROVE  Inv'
<1> DEFINE p == undoer[u].dest
           k == undoer[u].op
           i == Entry(u).slot
<1>1. /\ undoer[u].next =< Len(undoer[u].entries) /\ p \in Places
      /\ p[1] = Entry(u).from[1] /\ files[p] \subseteq late
  BY DEF Inv, UndoRight
<1>2. /\ k \in Ops /\ rm[k].pc = "ended" /\ i \in Slots /\ i \in DOMAIN rm[k].todo
      /\ Entry(u).from = rm[k].todo[i]
  BY <1>1, EntryType
<1>3. FromHere(k, i) <=> ~IsForeign(p)
  BY <1>1, <1>2 DEF FromHere, IsForeign
<1>4. /\ copied \cup left = trashed[k][i] /\ there \subseteq files[p]
      /\ ~IsForeign(p) => left = {} /\ there = {}
      /\ files' \in [Places -> SUBSET Pieces] /\ trashed' \in [Ops -> [Slots -> SUBSET Pieces]]
      /\ \A q \in Places : files'[q] = IF q = p THEN there \cup copied ELSE files[q]
      /\ \A j \in Ops, m \in Slots :
           trashed'[j][m] = IF j = k /\ m = i THEN left ELSE trashed[j][m]
      /\ late' = late \cup AtRisk(p, copied, Undoers \ {u})
      /\ UNCHANGED <<dir, journal, rm, purging, born, purged, dropped>>
  BY DEF Restores
<1>5. /\ undoer' \in [Undoers -> UndoRun]
      /\ \A v \in Undoers \ {u} : undoer'[v] = undoer[v]
      /\ undoer'[u].pc = "checking" /\ undoer'[u].op = undoer[u].op
      /\ undoer'[u].entries = undoer[u].entries /\ undoer'[u].next = undoer[u].next + 1
  BY NextEntryType DEF Inv
<1>6. AtRisk(p, copied, Undoers \ {u}) \subseteq copied
  BY AtRiskOf
<1>7. there \cup copied \subseteq late \cup copied
  BY <1>1, <1>4
<1> HIDE DEF p, k, i
<1>8. TypeOK'
  <2>1. \A v \in Undoers : undoer'[v].next =< Len(undoer'[v].entries) + 1
    <3>1. undoer[u].next + 1 =< Len(undoer[u].entries) + 1
      BY <1>1, UndoType DEF Inv
    <3>2. \A v \in Undoers \ {u} : undoer[v].next =< Len(undoer[v].entries) + 1
      BY DEF Inv, TypeOK
    <3> QED BY <1>5, <3>1, <3>2
  <2>2. late' \subseteq Pieces
    <3>1. copied \subseteq Pieces
      BY <1>2, <1>4 DEF Inv, TypeOK
    <3> QED BY <1>4, <1>6, <3>1 DEF Inv, TypeOK
  <2>3. {born', purged', dropped', late'} \subseteq SUBSET Pieces
    BY <1>4, <2>2 DEF Inv, TypeOK
  <2>4. /\ dir' \subseteq Ops /\ journal' \in [Ops -> Journal]
        /\ rm' \in [Ops -> RmRun] /\ \A j \in Ops : rm'[j].next =< Len(rm'[j].todo) + 1
        /\ purging' \subseteq [op : Ops, due : BOOLEAN]
    BY <1>4 DEF Inv, TypeOK
  <2>5. /\ files' \in [Places -> SUBSET Pieces] /\ undoer' \in [Undoers -> UndoRun]
        /\ trashed' \in [Ops -> [Slots -> SUBSET Pieces]]
    BY <1>4, <1>5
  <2> QED BY <2>1, <2>3, <2>4, <2>5, Zenon DEF TypeOK
<1>9. RmRight'
  <2> SUFFICES ASSUME NEW j \in Ops PROVE Filled(j)' /\ Entered(j)' /\ Copied(j)'
    BY <1>4 DEF RmRight, Inv
  <2>1. Filled(j) /\ Entered(j) /\ Copied(j)
    BY DEF Inv, RmRight
  <2>2. Filled(j)' /\ Entered(j)'
    BY <1>4, <2>1 DEF Filled, Entered
  <2>3. Copied(j)'
    <3> SUFFICES ASSUME rm[j].pc = "copied"
                 PROVE  files'[Target(j)] \subseteq trashed'[j][rm[j].next] \cup late'
      BY <1>4, <2>1 DEF Copied, Target
    <3>1. Target(j) \in Places /\ rm[j].next \in Slots
      BY TargetType
    <3>2. files[Target(j)] \subseteq trashed[j][rm[j].next] \cup late
      BY <2>1 DEF Copied
    <3>3. trashed'[j][rm[j].next] = trashed[j][rm[j].next]
      BY <1>2, <1>4, <3>1
    <3>4. CASE Target(j) = p
      <4>1. AtRisk(p, copied, Undoers \ {u}) = copied
        BY <3>4, AtRiskOf
      <4> QED BY <1>4, <1>7, <3>1, <3>4, <4>1
    <3>5. CASE Target(j) # p
      BY <1>4, <3>1, <3>2, <3>3, <3>5
    <3> QED BY <3>4, <3>5
  <2> QED BY <2>2, <2>3
<1>10. JournalRight' /\ PurgeRight'
  BY <1>4 DEF Inv, JournalRight, PurgeRight
<1>11. UndoRight'
  <2> SUFFICES ASSUME NEW v \in Undoers
               PROVE  /\ undoer'[v].pc # "idle" =>
                           /\ undoer'[v].op \in Ops
                           /\ rm'[undoer'[v].op].pc = "ended"
                           /\ undoer'[v].entries = rm'[undoer'[v].op].entries
                      /\ undoer'[v].pc = "moving" =>
                           /\ undoer'[v].next =< Len(undoer'[v].entries)
                           /\ undoer'[v].dest \in Places
                           /\ undoer'[v].dest[1] = undoer'[v].entries[undoer'[v].next].from[1]
                           /\ files'[undoer'[v].dest] \subseteq late'
    BY DEF UndoRight, Entry
  <2>1. CASE v = u
    BY <1>4, <1>5, <2>1 DEF Inv, UndoRight
  <2>2. CASE v # u
    <3>1. undoer'[v] = undoer[v]
      BY <1>5, <2>2
    <3>2. ASSUME undoer[v].pc = "moving" PROVE files'[undoer[v].dest] \subseteq late'
      <4>1. undoer[v].dest \in Places /\ files[undoer[v].dest] \subseteq late
        BY <3>2 DEF Inv, UndoRight
      <4>2. CASE undoer[v].dest = p
        <5>1. AtRisk(p, copied, Undoers \ {u}) = copied
          BY <2>2, <3>2, <4>2, AtRiskOf
        <5> QED BY <1>4, <1>7, <4>1, <4>2, <5>1
      <4>3. CASE undoer[v].dest # p
        BY <1>4, <4>1, <4>3
      <4> QED BY <4>2, <4>3
    <3>3. /\ undoer[v].pc # "idle" => /\ undoer[v].op \in Ops
                                       /\ rm[undoer[v].op].pc = "ended"
                                       /\ undoer[v].entries = rm[undoer[v].op].entries
          /\ undoer[v].pc = "moving" =>
               /\ undoer[v].next =< Len(undoer[v].entries)
               /\ undoer[v].dest \in Places
               /\ undoer[v].dest[1] = undoer[v].entries[undoer[v].next].from[1]
      BY DEF Inv, UndoRight, Entry
    <3> QED BY <1>4, <3>1, <3>2, <3>3
  <2> QED BY <2>1, <2>2
<1>12. FilesAlone /\ SlotsAlone
  BY DEF Inv
<1>13. FilesAlone'
  BY <1>1, <1>2, <1>3, <1>4, <1>12 DEF FilesAlone, SlotsAlone
<1>14. SlotsAlone'
  <2>1. \A j \in Ops, m \in Slots : FromHere(j, m)' <=> FromHere(j, m)
    BY <1>4 DEF FromHere
  <2> SUFFICES ASSUME NEW j \in Ops, NEW m \in Slots, FromHere(j, m)
               PROVE  /\ \A q \in Places : trashed'[j][m] \cap files'[q] = {}
                      /\ \A l \in Ops, n \in Slots :
                           <<l, n>> # <<j, m>> => trashed'[j][m] \cap trashed'[l][n] = {}
    BY <2>1 DEF SlotsAlone
  <2>2. /\ \A q \in Places : trashed[j][m] \cap files[q] = {}
        /\ \A l \in Ops, n \in Slots :
             <<l, n>> # <<j, m>> => trashed[j][m] \cap trashed[l][n] = {}
    BY <1>12 DEF SlotsAlone
  <2>3. \A l \in Ops, n \in Slots : trashed'[l][n] \subseteq trashed[l][n]
    BY <1>4
  <2>4. CASE j = k /\ m = i
    <3>1. trashed'[j][m] = {}
      BY <1>2, <1>3, <1>4, <2>4
    <3> QED BY <3>1
  <2>5. CASE ~(j = k /\ m = i)
    <3>1. trashed[j][m] \cap trashed[k][i] = {}
      BY <1>2, <2>2, <2>5
    <3>2. \A q \in Places : files'[q] \subseteq files[q] \cup trashed[k][i]
      BY <1>1, <1>4
    <3> QED BY <2>2, <2>3, <3>1, <3>2
  <2> QED BY <2>4, <2>5
<1>15. \A x \in Kept' : x \in Kept
  BY <1>1, <1>2, <1>4, InKept, InKeptNext
<1>16. \A x \in Kept : x \in Kept' \cup late
  BY <1>1, <1>2, <1>4, InKept, InKeptNext
<1>17. Written' /\ NothingElseIsLost'
  BY <1>4, <1>15, <1>16 DEF Inv, Written, NothingElseIsLost
<1> QED BY <1>8, <1>9, <1>10, <1>11, <1>13, <1>14, <1>17 DEF Inv

LEMMA StepUndoMoves ==
  ASSUME Inv, NEW u \in Undoers, UndoMoves(u) \/ UndoCopies(u)
  PROVE  Inv'
<1> DEFINE p == undoer[u].dest
           k == undoer[u].op
           i == Entry(u).slot
<1>1. undoer[u].pc = "moving"
  BY DEF UndoMoves, UndoCopies
<1>2. p \in Places /\ k \in Ops /\ i \in Slots
  BY <1>1, EntryType DEF Inv, UndoRight
<1>3. files \in [Places -> SUBSET Pieces] /\ trashed \in [Ops -> [Slots -> SUBSET Pieces]]
  BY DEF Inv, TypeOK
<1>4. Source(u) = trashed[k][i] /\ Source(u) \in SUBSET Pieces
  BY <1>2, <1>3 DEF Source
<1>5. CASE UndoMoves(u)
  <2>1. /\ files' = [files EXCEPT ![p] = Source(u)]
        /\ trashed' = [trashed EXCEPT ![k][i] = {}]
        /\ late' = late \cup AtRisk(p, Source(u), Undoers \ {u})
        /\ NextEntry(u, TRUE)
        /\ UNCHANGED <<dir, journal, rm, purging, born, purged, dropped>>
    BY <1>5 DEF UndoMoves, EmptySlot
  <2>2. Restores(u, Source(u), {}, {})
    <3> HIDE DEF p, k, i
    <3>1. /\ files' \in [Places -> SUBSET Pieces]
          /\ \A q \in Places : files'[q] = IF q = p THEN Source(u) ELSE files[q]
      BY <1>2, <1>3, <1>4, <2>1
    <3>2. /\ trashed' \in [Ops -> [Slots -> SUBSET Pieces]]
          /\ \A j \in Ops, m \in Slots :
               trashed'[j][m] = IF j = k /\ m = i THEN {} ELSE trashed[j][m]
      BY <1>2, <1>3, <2>1
    <3> QED BY <1>4, <2>1, <3>1, <3>2 DEF Restores, p, k, i
  <2> QED BY <1>1, <2>1, <2>2, RestoresStep
<1>6. CASE UndoCopies(u)
  <2>1. PICK copied \in SUBSET Source(u), left \in SUBSET Source(u), there \in {{}, files[p]} :
          /\ copied = Source(u) \/ left = Source(u)
          /\ files' = [files EXCEPT ![p] = there \cup copied]
          /\ trashed' = [trashed EXCEPT ![k][i] = left]
          /\ late' = late \cup AtRisk(p, copied, Undoers \ {u})
          /\ NextEntry(u, left = {})
    BY <1>6 DEF UndoCopies, EmptySlot
  <2>2. /\ UNCHANGED <<dir, journal, rm, purging, born, purged, dropped>>
        /\ IsForeign(p)
    BY <1>6 DEF UndoCopies
  <2>3. Restores(u, copied, left, there)
    <3> HIDE DEF p, k, i
    <3>1. /\ files' \in [Places -> SUBSET Pieces]
          /\ \A q \in Places : files'[q] = IF q = p THEN there \cup copied ELSE files[q]
      BY <1>2, <1>3, <1>4, <2>1
    <3>2. /\ trashed' \in [Ops -> [Slots -> SUBSET Pieces]]
          /\ \A j \in Ops, m \in Slots :
               trashed'[j][m] = IF j = k /\ m = i THEN left ELSE trashed[j][m]
      BY <1>2, <1>3, <1>4, <2>1
    <3> QED BY <1>4, <2>1, <2>2, <3>1, <3>2 DEF Restores, p, k, i
  <2>4. (left = {}) \in BOOLEAN
    OBVIOUS
  <2> QED BY <1>1, <2>1, <2>3, <2>4, RestoresStep
<1> QED BY <1>5, <1>6

\* The journal of an operation is written again, with the entries it had.
LEMMA StepUndoEnds ==
  ASSUME Inv, NEW u \in Undoers, UndoEnds(u)
  PROVE  Inv'
<1> DEFINE k == undoer[u].op
           new == [state |-> "restored", entries |-> undoer[u].entries]
<1>1. /\ undoer[u].pc = "checking"
      /\ \/ journal' = [journal EXCEPT ![k] = new]
         \/ journal' = journal
      /\ undoer' = [undoer EXCEPT ![u] = IdleUndoer]
      /\ UNCHANGED <<files, trashed, dir, rm, purging, history>>
  BY DEF UndoEnds
<1>2. k \in Ops /\ rm[k].pc = "ended" /\ undoer[u].entries = rm[k].entries
  BY <1>1 DEF Inv, UndoRight
<1>3. new \in Journal /\ new.entries = rm[k].entries
  BY <1>2, UndoType DEF Inv, Journal
<1> HIDE DEF new, k
<1>4. journal' \in [Ops -> Journal] /\ journal \in [Ops -> Journal]
  BY <1>1, <1>2, <1>3 DEF Inv, TypeOK
<1>5. /\ undoer' \in [Undoers -> UndoRun] /\ undoer'[u] = IdleUndoer
      /\ \A v \in Undoers \ {u} : undoer'[v] = undoer[v]
  BY <1>1, IdleIsUndo DEF Inv, TypeOK
<1>6. TypeOK'
  <2>1. \A v \in Undoers : undoer'[v].next =< Len(undoer'[v].entries) + 1
    BY <1>5, IdleIsUndo DEF Inv, TypeOK
  <2> QED BY <1>1, <1>4, <1>5, <2>1 DEF Inv, TypeOK, history
<1>7. JournalRight'
  BY <1>1, <1>2, <1>3, <1>4 DEF Inv, JournalRight
<1>8. RmRight' /\ PurgeRight'
  BY <1>1 DEF Inv, RmRight, PurgeRight, Filled, Entered, Copied, Target, history
<1>9. UndoRight'
  BY <1>1, <1>5, IdleIsUndo DEF Inv, UndoRight, Entry, history
<1>10. Contents'
  BY <1>1, NothingMoves
<1> QED BY <1>6, <1>7, <1>8, <1>9, <1>10 DEF Inv, Contents

LEMMA StepPurgeStarts ==
  ASSUME Inv, NEW all \in BOOLEAN, NEW expired \in SUBSET Ops, NEW old \in SUBSET Ops,
         PurgeStarts(all, expired, old) \/ PurgeDies
  PROVE  Inv'
<1>1. UNCHANGED <<store, rm, undoer, history>>
  BY DEF PurgeStarts, PurgeDies
<1>2. \A v \in purging' : /\ v \in [op : Ops, due : BOOLEAN]
                           /\ journal[v.op].state # "none"
  <2>1. CASE PurgeStarts(all, expired, old)
    <3> SUFFICES ASSUME NEW v \in purging'
                 PROVE  v \in [op : Ops, due : BOOLEAN] /\ journal[v.op].state # "none"
      OBVIOUS
    <3>1. PICK k \in Ops : /\ journal[k].state # "none"
                           /\ v = [op |-> k, due |-> all \/ k \in expired]
      BY <2>1 DEF PurgeStarts
    <3> DEFINE d == all \/ k \in expired
    <3>2. d \in BOOLEAN /\ v = [op |-> k, due |-> d]
      BY <3>1
    <3> HIDE DEF d
    <3> QED BY <3>1, <3>2
  <2>2. CASE PurgeDies
    BY <2>2 DEF PurgeDies
  <2> QED BY <2>1, <2>2
<1>3. TypeOK'
  BY <1>1, <1>2 DEF Inv, TypeOK, store, history
<1>4. PurgeRight'
  BY <1>1, <1>2 DEF Inv, JournalRight, PurgeRight, store
<1>5. RmRight' /\ JournalRight' /\ UndoRight'
  BY <1>1 DEF Inv, RmRight, JournalRight, UndoRight, Filled, Entered, Copied, Target, Entry, store, history
<1>6. Contents'
  BY <1>1, NothingMoves DEF store
<1> QED BY <1>3, <1>4, <1>5, <1>6 DEF Inv, Contents

\* What a purge deletes is on record.
LEMMA StepPurgeDeletes ==
  ASSUME Inv, NEW victim \in purging, PurgeDeletes(victim)
  PROVE  Inv'
<1> DEFINE k == victim.op
           gone == UNION {trashed[k][i] : i \in Slots}
<1>1. /\ purging' = purging \ {victim} /\ dir' = dir \ {k}
      /\ trashed' = [trashed EXCEPT ![k] = [i \in Slots |-> {}]]
      /\ journal' = [journal EXCEPT ![k] = NoJournal]
      /\ \/ purged' = purged \cup gone /\ UNCHANGED dropped
         \/ dropped' = dropped \cup gone /\ UNCHANGED purged
      /\ UNCHANGED <<files, rm, undoer, born, late>>
  BY DEF PurgeDeletes
<1>2. k \in Ops /\ rm[k].pc = "ended"
  BY DEF Inv, PurgeRight, TypeOK
<1>3. trashed \in [Ops -> [Slots -> SUBSET Pieces]] /\ journal \in [Ops -> Journal]
  BY DEF Inv, TypeOK
<1>4. gone \subseteq Pieces /\ \A i \in Slots : trashed[k][i] \subseteq gone
  BY <1>2, <1>3
<1> HIDE DEF gone, k
<1>5. \A j \in Ops, i \in Slots : trashed'[j][i] = IF j = k THEN {} ELSE trashed[j][i]
  BY <1>1, <1>3
<1>6. TypeOK'
  <2>1. NoJournal \in Journal
    BY DEF NoJournal, Journal
  <2>2. trashed' \in [Ops -> [Slots -> SUBSET Pieces]] /\ journal' \in [Ops -> Journal]
    BY <1>1, <1>3, <2>1
  <2> QED BY <1>1, <1>4, <2>2 DEF Inv, TypeOK
<1>7. RmRight'
  <2> SUFFICES ASSUME NEW j \in Ops PROVE Filled(j)' /\ Entered(j)' /\ Copied(j)'
    BY <1>1 DEF Inv, RmRight
  <2>1. Filled(j) /\ Entered(j) /\ Copied(j)
    BY DEF Inv, RmRight
  <2>2. Filled(j)' /\ Entered(j)'
    BY <1>1, <1>5, <2>1 DEF Filled, Entered
  <2>3. Copied(j)'
    <3>1. CASE rm[j].pc = "copied"
      <4>1. rm[j].next \in Slots
        BY <3>1, TargetType
      <4> QED BY <1>1, <1>2, <1>5, <2>1, <3>1, <4>1 DEF Copied, Target
    <3> QED BY <1>1, <3>1 DEF Copied
  <2> QED BY <2>2, <2>3
<1>8. JournalRight' /\ UndoRight' /\ PurgeRight'
  BY <1>1, <1>3 DEF Inv, JournalRight, UndoRight, PurgeRight, Entry, NoJournal
<1>9. FilesAlone'
  BY <1>1, <1>5 DEF Inv, FilesAlone
<1>10. SlotsAlone'
  <2>1. \A j \in Ops, i \in Slots : FromHere(j, i)' <=> FromHere(j, i)
    BY <1>1 DEF FromHere
  <2> QED BY <1>1, <1>5, <2>1 DEF Inv, SlotsAlone
<1>11. \A x \in Kept' : x \in Kept
  BY <1>1, <1>5, InKept, InKeptNext
<1>12. \A x \in Kept : x \in Kept' \cup gone
  BY <1>1, <1>4, <1>5, InKept, InKeptNext
<1>13. Written' /\ NothingElseIsLost'
  BY <1>1, <1>11, <1>12 DEF Inv, Written, NothingElseIsLost
<1> QED BY <1>6, <1>7, <1>8, <1>9, <1>10, <1>13 DEF Inv

LEMMA Stutters == Inv /\ UNCHANGED vars => Inv'
<1> SUFFICES ASSUME Inv, UNCHANGED vars PROVE Inv'
  OBVIOUS
<1>1. UNCHANGED <<store, rm, undoer, purging, history>>
  BY DEF vars
<1>2. TypeOK' /\ RmRight' /\ JournalRight' /\ UndoRight' /\ PurgeRight'
  BY <1>1 DEF Inv, TypeOK, RmRight, JournalRight, UndoRight, PurgeRight, Filled, Entered,
              Copied, Target, Entry, store, history
<1>3. Contents'
  BY <1>1, NothingMoves DEF store
<1> QED BY <1>2, <1>3 DEF Inv, Contents

LEMMA StepInv == Inv /\ [Next]_vars => Inv'
<1> SUFFICES ASSUME Inv, [Next]_vars PROVE Inv'
  OBVIOUS
<1>1. CASE User
  BY <1>1, StepWrite DEF User
<1>2. ASSUME NEW k \in Ops, Rm(k) PROVE Inv'
  <2>1. ASSUME NEW todo \in TodoLists, RmStarts(k, todo) PROVE Inv'
    BY <2>1, StepRmStarts
  <2>2. CASE RmMoves(k) \/ RmCopies(k) \/ RmCopiesPart(k) \/ RmRemoves(k) \/ RmRemovesPart(k)
    BY <2>2, StepRmMoves
  <2>3. CASE RmSkips(k) \/ RmDies(k)
    BY <2>3, OnlyNext DEF RmSkips, RmDies
  <2>4. CASE RmGivesUp(k)
    BY <2>4, StepRmGivesUp
  <2>5. CASE RmJournals(k)
    BY <2>5, StepRmJournals
  <2> QED BY <1>2, <2>1, <2>2, <2>3, <2>4, <2>5 DEF Rm
<1>3. ASSUME NEW u \in Undoers, Undo(u) PROVE Inv'
  <2>1. ASSUME NEW k \in Ops, UndoStarts(u, k) PROVE Inv'
    BY <2>1, StepUndoStarts
  <2>2. CASE UndoChecks(u)
    BY <2>2, StepUndoChecks
  <2>3. CASE UndoMoves(u) \/ UndoCopies(u)
    BY <2>3, StepUndoMoves
  <2>4. CASE UndoSkips(u) \/ UndoDies(u)
    BY <2>4, StepUndoGoesOn
  <2>5. CASE UndoEnds(u)
    BY <2>5, StepUndoEnds
  <2> QED BY <1>3, <2>1, <2>2, <2>3, <2>4, <2>5 DEF Undo
<1>4. CASE Purge
  BY <1>4, StepPurgeStarts, StepPurgeDeletes DEF Purge
<1>5. CASE UNCHANGED vars
  BY <1>5, Stutters
<1> QED BY <1>1, <1>2, <1>3, <1>4, <1>5 DEF Next

LEMMA AlwaysInv == Spec => []Inv
  BY InitInv, StepInv, PTL DEF Spec

-----------------------------------------------------------------------------
(***************************************************************************)
(* The theorems.                                                           *)
(***************************************************************************)

\* Every variable keeps its type and no rm or undo counts past its last target
\* (the loops over the targets and the entries in undo.rs).
THEOREM TypeCorrect == Spec => []TypeOK
<1>1. Inv => TypeOK
  BY DEF Inv
<1> QED BY <1>1, AlwaysInv, PTL

\* Whatever the user writes stays in a file or in the trash, through any steps
\* of any number of rms, undos and purges and the death of each, except in the
\* four ways that NothingElseIsLost names.
THEOREM NothingLost == Spec => []NothingElseIsLost
<1>1. Inv => NothingElseIsLost
  BY DEF Inv
<1> QED BY <1>1, AlwaysInv, PTL

\* On the trash's own filesystem rm and undo move and never copy, however many
\* undos restore the same operation at once.
THEOREM NothingTwice == Spec => []NothingIsTwice
<1>1. Inv => NothingIsTwice
  BY DEF Inv, FilesAlone, NothingIsTwice
<1> QED BY <1>1, AlwaysInv, PTL

\* The journal that makes an operation visible to undo and purge has an entry
\* for every slot that was filled by a rename.
THEOREM JournalCovers == Spec => []JournalCoversTrash
<1>1. Inv => JournalCoversTrash
  BY DEF Inv, RmRight, Filled, JournalRight, JournalCoversTrash
<1> QED BY <1>1, AlwaysInv, PTL
=============================================================================
