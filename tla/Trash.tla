------------------------------- MODULE Trash -------------------------------
(***************************************************************************)
(* Safe rm, undo and purge (src/undo.rs).                                  *)
(*                                                                         *)
(* `fore rm' moves each target into a slot of its own under a directory    *)
(* made for the operation and writes a journal when all are moved; `fore   *)
(* undo' reads the journals and moves the entries of one operation back;   *)
(* purge deletes the directories of old operations.  Each is a process     *)
(* without locks: it may be killed between any two steps and others may    *)
(* run at the same time, as may the user who writes files.                 *)
(*                                                                         *)
(* What is in a file or a tree is a set of pieces; a place holds such a    *)
(* set, the empty one when nothing is there.  <<name, 0>> is a path,       *)
(* <<name, j>> the names alt_name tries for <<name, i>>, i < j.  Places on *)
(* another filesystem are Foreign: a move copies and then removes, and     *)
(* each half may fail half-way.  An operation is numbered by the order in which they *)
(* start.  Any number of days may pass between two steps.  Sizes, flags,   *)
(* verbosity and messages are left out, and so are targets inside other    *)
(* targets.                                                                *)
(***************************************************************************)
EXTENDS Naturals, Sequences, FiniteSets

CONSTANTS
  Names,       \* the paths the user works with
  Foreign,     \* those on another filesystem than the trash
  Pieces,      \* what the user may write
  MaxAlt,      \* bound: names alt_name finds free
  MaxOps,      \* bound: runs of `fore rm'
  MaxTargets,  \* bound: targets of all these runs together
  Undoers,     \* bound: runs of `fore undo' at a time
  UndoMayFail  \* an undo may be denied a rename (permissions, a tree in the way)

ASSUME TrashAssumption ==
  /\ Foreign \subseteq Names
  /\ {MaxAlt, MaxOps, MaxTargets} \subseteq Nat
  /\ UndoMayFail \in BOOLEAN

VARIABLES
  files,    \* files[p]: the pieces at place p
  trashed,  \* trashed[k][i]: the pieces in slot i of operation k
  dir,      \* the operations whose directory exists
  journal,  \* journal[k]: journal.json of k; state "none" when there is none
  rm,       \* rm[k]: the process that runs operation k, with its entries so far
  undoer,   \* undoer[u]: a run of undo, with the entries it read
  purging,  \* what a run of purge has still to delete, as [op, due]
  \* history variables
  born,     \* pieces the user has written so far
  purged,   \* pieces deleted because their time was up
  dropped,  \* pieces deleted though it was not
  late      \* pieces put where a move that is under way will replace them

store   == <<files, trashed, dir, journal>>
history == <<born, purged, dropped, late>>
vars    == <<store, rm, undoer, purging, history>>

Ops    == 1..MaxOps
Slots  == 1..MaxTargets
Places == Names \X (0..MaxAlt)

NoJournal  == [state |-> "none", entries |-> << >>]
IdleRm     == [pc |-> "unused", todo |-> << >>, next |-> 1, entries |-> << >>]
IdleUndoer == [pc |-> "idle", op |-> 0, entries |-> << >>, next |-> 1,
               dest |-> << >>, any |-> FALSE]

\* Places across EXDEV from the trash.
IsForeign(p) == p[1] \in Foreign

Init ==
  /\ files = [p \in Places |-> {}]
  /\ trashed = [k \in Ops |-> [i \in Slots |-> {}]]
  /\ dir = {}
  /\ journal = [k \in Ops |-> NoJournal]
  /\ rm = [k \in Ops |-> IdleRm]
  /\ undoer = [u \in Undoers |-> IdleUndoer]
  /\ purging = {}
  /\ born = {} /\ purged = {} /\ dropped = {} /\ late = {}

\* Of the pieces just put at p, those in danger: some other undo found p free
\* and is about to move there, or an rm has copied what was at p and is about
\* to remove p.
AtRisk(p, some, others) ==
  IF \/ \E u \in others : undoer[u].pc = "moving" /\ undoer[u].dest = p
     \/ \E k \in Ops : rm[k].pc = "copied" /\ rm[k].todo[rm[k].next] = p
  THEN some
  ELSE {}

-----------------------------------------------------------------------------
\* The user writes a new file, or more into one that is there.
Write(name, some) ==
  LET p == <<name, 0>>
  IN
  /\ some # {} /\ some \cap born = {}
  /\ files' = [files EXCEPT ![p] = @ \cup some]
  /\ born' = born \cup some
  /\ late' = late \cup AtRisk(p, some, Undoers)
  /\ UNCHANGED <<trashed, dir, journal, rm, undoer, purging, purged, dropped>>

-----------------------------------------------------------------------------
(***************************************************************************)
(* safe_rm.                                                                *)
(***************************************************************************)

\* undo.rs, safe_rm: the targets that pass validation, and the directory.
RmStarts(k, todo) ==
  /\ rm[k].pc = "unused" /\ \A j \in Ops : j < k => rm[j].pc # "unused"
  /\ todo # << >>
  /\ \A i \in DOMAIN todo : files[todo[i]] # {}
  /\ Cardinality({c \in Ops \X Slots : c[2] <= Len(rm[c[1]].todo)}) + Len(todo) <= MaxTargets
  /\ rm' = [rm EXCEPT ![k] = [IdleRm EXCEPT !.pc = "moving", !.todo = todo]]
  /\ dir' = dir \cup {k}
  /\ UNCHANGED <<files, trashed, journal, undoer, purging, history>>

Target(k)   == rm[k].todo[rm[k].next]
HasTarget(k) == rm[k].pc = "moving" /\ rm[k].next <= Len(rm[k].todo)
NextTarget(k) == rm' = [rm EXCEPT ![k].pc = "moving", ![k].next = @ + 1]
AddEntry(k) ==
  rm' = [rm EXCEPT ![k].pc = "moving", ![k].next = @ + 1,
                   ![k].entries = Append(@, [from |-> Target(k), slot |-> rm[k].next])]

\* undo.rs, safe_rm and move_path: fs::rename of the next target.
RmMoves(k) ==
  LET p == Target(k)
  IN
  /\ HasTarget(k) /\ ~IsForeign(p) /\ files[p] # {}
  /\ trashed' = [trashed EXCEPT ![k][rm[k].next] = files[p]]
  /\ files' = [files EXCEPT ![p] = {}]
  /\ AddEntry(k)
  /\ UNCHANGED <<dir, journal, undoer, purging, history>>

\* Mutant: a target that cannot be moved counts twice.
RmSkipsTwo(k) ==
  /\ HasTarget(k)
  /\ rm' = [rm EXCEPT ![k].next = @ + 2]
  /\ UNCHANGED <<store, undoer, purging, history>>

\* undo.rs, move_path: the target is gone, or the rename is refused.
RmSkips(k) ==
  /\ HasTarget(k)
  /\ NextTarget(k)
  /\ UNCHANGED <<store, undoer, purging, history>>

\* undo.rs, copy_recursive, out of another filesystem: all of the target ...
RmCopies(k) ==
  LET p == Target(k)
  IN
  /\ HasTarget(k) /\ IsForeign(p) /\ files[p] # {}
  /\ trashed' = [trashed EXCEPT ![k][rm[k].next] = files[p]]
  /\ rm' = [rm EXCEPT ![k].pc = "copied"]
  /\ UNCHANGED <<files, dir, journal, undoer, purging, history>>

\* ... or a part, on which move_path returns the error.
RmCopiesPart(k) ==
  LET p == Target(k)
  IN
  /\ HasTarget(k) /\ IsForeign(p)
  /\ \E part \in SUBSET files[p] :
       /\ part # files[p]
       /\ trashed' = [trashed EXCEPT ![k][rm[k].next] = part]
  /\ NextTarget(k)
  /\ UNCHANGED <<files, dir, journal, undoer, purging, history>>

\* undo.rs, move_path: remove_dir_all or remove_file of what was copied.
RmRemoves(k) ==
  /\ rm[k].pc = "copied" /\ files[Target(k)] # {}
  /\ files' = [files EXCEPT ![Target(k)] = {}]
  /\ AddEntry(k)
  /\ UNCHANGED <<trashed, dir, journal, undoer, purging, history>>

\* The removal fails with some of the target left, or nothing is there any
\* more: no entry is made.
RmRemovesPart(k) ==
  LET p == Target(k)
  IN
  /\ rm[k].pc = "copied"
  /\ \E left \in SUBSET files[p] : /\ left # {} \/ files[p] = {}
                                   /\ files' = [files EXCEPT ![p] = left]
  /\ NextTarget(k)
  /\ UNCHANGED <<trashed, dir, journal, undoer, purging, history>>

AllTried(k) == rm[k].pc = "moving" /\ rm[k].next > Len(rm[k].todo)
RmEnds(k)   == rm' = [rm EXCEPT ![k].pc = "ended"]

\* undo.rs, safe_rm: no entry was made, the directory goes with what is in it,
\* copies of foreign targets at most.
RmGivesUp(k) ==
  /\ AllTried(k) /\ rm[k].entries = << >>
  /\ dir' = dir \ {k}
  /\ trashed' = [trashed EXCEPT ![k] = [i \in Slots |-> {}]]
  /\ dropped' = dropped \cup UNION {trashed[k][i] : i \in {i \in DOMAIN rm[k].todo :
                                                             IsForeign(rm[k].todo[i])}}
  /\ RmEnds(k)
  /\ UNCHANGED <<files, journal, undoer, purging, born, purged, late>>

\* Mutant: the journal is written before the last target is moved.
RmJournalsEarly(k) ==
  /\ rm[k].pc = "moving" /\ rm[k].next >= Len(rm[k].todo) /\ rm[k].entries # << >>
  /\ journal' = [journal EXCEPT ![k] = [state |-> "live", entries |-> rm[k].entries]]
  /\ UNCHANGED <<files, trashed, dir, rm, undoer, purging, history>>

\* undo.rs, safe_rm: write_journal.
RmJournals(k) ==
  /\ AllTried(k) /\ rm[k].entries # << >>
  /\ journal' = [journal EXCEPT ![k] = [state |-> "live", entries |-> rm[k].entries]]
  /\ RmEnds(k)
  /\ UNCHANGED <<files, trashed, dir, undoer, purging, history>>

\* The process is killed, or write_journal fails, which is only reported.
RmDies(k) ==
  /\ rm[k].pc \in {"moving", "copied"}
  /\ RmEnds(k)
  /\ UNCHANGED <<store, undoer, purging, history>>

-----------------------------------------------------------------------------
(***************************************************************************)
(* undo.                                                                   *)
(***************************************************************************)

\* undo.rs, list and undo: the newest journal that is not restored, or the one
\* whose id the user gives.
UndoStarts(u, k) ==
  /\ undoer[u].pc = "idle" /\ journal[k].state = "live"
  /\ undoer' = [undoer EXCEPT ![u] = [IdleUndoer EXCEPT !.pc = "checking", !.op = k,
                                                        !.entries = journal[k].entries]]
  /\ UNCHANGED <<store, rm, purging, history>>

Entry(u)  == undoer[u].entries[undoer[u].next]
Source(u) == trashed[undoer[u].op][Entry(u).slot]

\* Mutant: what is restored also stays in its slot.
KeepSlot(u, left)  == UNCHANGED trashed

\* undo.rs, move_path: the slot is left with what could not be moved out.
EmptySlot(u, left) ==
  trashed' = [trashed EXCEPT ![undoer[u].op][Entry(u).slot] = left]

\* undo.rs, alt_name: the first of the names made from p that is free.
AltName(p) == CHOOSE q \in Places :
                /\ q[1] = p[1] /\ q[2] > p[2] /\ files[q] = {}
                /\ \A i \in (p[2] + 1)..(q[2] - 1) : files[<<p[1], i>>] # {}

\* Mutant: undo does not look whether something new lives at the path.
NoDestination(p) == p

\* undo.rs, undo: the path itself if nothing new lives there.
Destination(p) == IF files[p] = {} THEN p ELSE AltName(p)

\* undo.rs, undo: exists() and alt_name for the next entry.
UndoChecks(u) ==
  /\ undoer[u].pc = "checking" /\ undoer[u].next <= Len(undoer[u].entries)
  /\ \E i \in Entry(u).from[2]..MaxAlt : files[<<Entry(u).from[1], i>>] = {}
  /\ undoer' = [undoer EXCEPT ![u].pc = "moving", ![u].dest = Destination(Entry(u).from)]
  /\ UNCHANGED <<store, rm, purging, history>>

NextEntry(u, moved) ==
  undoer' = [undoer EXCEPT ![u].pc = "checking", ![u].next = @ + 1, ![u].dest = << >>,
                           ![u].any = @ \/ moved]

\* undo.rs, move_path: fs::rename, which replaces what is at the destination.
UndoMoves(u) ==
  LET p == undoer[u].dest
  IN
  /\ undoer[u].pc = "moving" /\ ~IsForeign(p) /\ Source(u) # {}
  /\ files' = [files EXCEPT ![p] = Source(u)]
  /\ EmptySlot(u, {})
  /\ late' = late \cup AtRisk(p, Source(u), Undoers \ {u})
  /\ NextEntry(u, TRUE)
  /\ UNCHANGED <<dir, journal, rm, purging, born, purged, dropped>>

\* undo.rs, move_path, to another filesystem: all is copied and some of it may
\* be left behind, or a part is copied and nothing removed; a file replaces
\* what is at the destination, a directory is merged with it.
UndoCopies(u) ==
  LET p == undoer[u].dest
  IN
  /\ undoer[u].pc = "moving" /\ IsForeign(p) /\ Source(u) # {}
  /\ \E copied, left \in SUBSET Source(u), there \in {{}, files[p]} :
       /\ copied = Source(u) \/ left = Source(u)
       /\ files' = [files EXCEPT ![p] = there \cup copied]
       /\ EmptySlot(u, left)
       /\ late' = late \cup AtRisk(p, copied, Undoers \ {u})
       /\ NextEntry(u, left = {})
  /\ UNCHANGED <<dir, journal, rm, purging, born, purged, dropped>>

\* undo.rs, undo: the rename fails, which is a conflict to report.
UndoSkips(u) ==
  /\ undoer[u].pc = "moving" /\ (Source(u) = {} \/ UndoMayFail)
  /\ NextEntry(u, FALSE)
  /\ UNCHANGED <<store, rm, purging, history>>

\* undo.rs, undo: if anything was restored the journal is written again; the
\* write fails, unnoticed, when the directory is gone.
UndoEnds(u) ==
  LET k == undoer[u].op
  IN
  /\ undoer[u].pc = "checking" /\ undoer[u].next > Len(undoer[u].entries)
  /\ journal' = IF undoer[u].any /\ k \in dir
                THEN [journal EXCEPT ![k] = [state   |-> "restored",
                                             entries |-> undoer[u].entries]]
                ELSE journal
  /\ undoer' = [undoer EXCEPT ![u] = IdleUndoer]
  /\ UNCHANGED <<files, trashed, dir, rm, purging, history>>

\* The process is killed.
UndoDies(u) ==
  /\ undoer[u].pc # "idle"
  /\ undoer' = [undoer EXCEPT ![u] = IdleUndoer]
  /\ UNCHANGED <<store, rm, purging, history>>

-----------------------------------------------------------------------------
(***************************************************************************)
(* purge, at the start of the daemon and by `fore trash purge'.            *)
(***************************************************************************)

\* undo.rs, list and purge: what is to go is decided on journals read before.
\* expired are the operations past keep_days, old those past a day.
PurgeStarts(all, expired, old) ==
  /\ purging = {} /\ expired \subseteq old
  /\ purging' = {[op |-> k, due |-> all \/ k \in expired] :
                   k \in {k \in Ops : /\ journal[k].state # "none"
                                      /\ \/ all \/ k \in expired
                                         \/ journal[k].state = "restored" /\ k \in old}}
  /\ UNCHANGED <<store, rm, undoer, history>>

\* undo.rs, purge: remove_dir_all of one operation.
PurgeDeletes(victim) ==
  LET k    == victim.op
      gone == UNION {trashed[k][i] : i \in Slots}
  IN
  /\ victim \in purging
  /\ purging' = purging \ {victim}
  /\ dir' = dir \ {k}
  /\ trashed' = [trashed EXCEPT ![k] = [i \in Slots |-> {}]]
  /\ journal' = [journal EXCEPT ![k] = NoJournal]
  /\ IF victim.due
     THEN purged' = purged \cup gone /\ UNCHANGED dropped
     ELSE dropped' = dropped \cup gone /\ UNCHANGED purged
  /\ UNCHANGED <<files, rm, undoer, born, late>>

\* The process is killed.
PurgeDies ==
  /\ purging # {} /\ purging' = {}
  /\ UNCHANGED <<store, rm, undoer, history>>

-----------------------------------------------------------------------------
TodoLists == UNION {{t \in [1..n -> {p \in Places : files[p] # {}}] :
                       \A a, b \in 1..n : a # b => t[a] # t[b]} : n \in Slots}

User  == \E name \in Names, some \in SUBSET Pieces : Write(name, some)
Rm(k) == \/ \E todo \in TodoLists : RmStarts(k, todo)
         \/ RmMoves(k) \/ RmSkips(k)
         \/ RmCopies(k) \/ RmCopiesPart(k) \/ RmRemoves(k) \/ RmRemovesPart(k)
         \/ RmGivesUp(k) \/ RmJournals(k) \/ RmDies(k)
Undo(u) == \/ \E k \in Ops : UndoStarts(u, k)
           \/ UndoChecks(u) \/ UndoMoves(u) \/ UndoCopies(u) \/ UndoSkips(u)
           \/ UndoEnds(u) \/ UndoDies(u)
Purge == \/ \E all \in BOOLEAN, expired, old \in SUBSET Ops : PurgeStarts(all, expired, old)
         \/ \E victim \in purging : PurgeDeletes(victim)
         \/ PurgeDies

Next == User \/ (\E k \in Ops : Rm(k)) \/ (\E u \in Undoers : Undo(u)) \/ Purge

Spec == Init /\ [][Next]_vars

-----------------------------------------------------------------------------
(***************************************************************************)
(* Properties.                                                             *)
(***************************************************************************)

Entries == [from : Places, slot : Slots]

Journal == [state : {"none", "live", "restored"}, entries : Seq(Entries)]
RmRun   == [pc : {"unused", "moving", "copied", "ended"}, todo : Seq(Places),
            next : Nat \ {0}, entries : Seq(Entries)]
UndoRun == [pc : {"idle", "checking", "moving"}, op : Ops \cup {0}, entries : Seq(Entries),
            next : Nat \ {0}, dest : Places \cup {<< >>}, any : BOOLEAN]

\* Every variable holds values of its kind, and nobody counts past the end of
\* what is to be moved.
TypeOK ==
  /\ files \in [Places -> SUBSET Pieces]
  /\ trashed \in [Ops -> [Slots -> SUBSET Pieces]]
  /\ dir \subseteq Ops
  /\ journal \in [Ops -> Journal]
  /\ rm \in [Ops -> RmRun] /\ \A k \in Ops : rm[k].next =< Len(rm[k].todo) + 1
  /\ undoer \in [Undoers -> UndoRun]
  /\ \A u \in Undoers : undoer[u].next =< Len(undoer[u].entries) + 1
  /\ purging \subseteq [op : Ops, due : BOOLEAN]
  /\ {born, purged, dropped, late} \subseteq SUBSET Pieces

Kept == (UNION {files[p] : p \in Places}) \cup (UNION {trashed[k][i] : k \in Ops, i \in Slots})

\* What the user wrote is in a file or in the trash for as long as nobody has
\* asked for its deletion: the promise of undo.rs:14-16 and README.md:192-197.
\* (A piece that was put where another process had just looked is excepted.)
NothingIsLost == born \subseteq Kept \cup purged \cup late

\* The ways to lose something are known: keep_days or `fore trash purge', a
\* race for one path, the directory removed by an rm that moved nothing though
\* it copied, and the purge of an operation that counts as restored.  No other
\* step, at any moment of another process or of its death, loses a piece.
NothingElseIsLost == born \subseteq Kept \cup purged \cup late \cup dropped

\* On the trash's own filesystem a piece is never in two places: not in two
\* files, not in a file and the trash, however many undos run at once.
NothingIsTwice ==
  \A p \in Places : ~IsForeign(p) =>
    /\ \A q \in Places \ {p} : files[p] \cap files[q] = {}
    /\ \A k \in Ops, i \in Slots : files[p] \cap trashed[k][i] = {}

\* An operation that `fore undo' can find can give back all that it holds,
\* except what stayed behind of a target on another filesystem: a journal is
\* there only when every move has been tried and entered.
JournalCoversTrash ==
  \A k \in Ops : journal[k].state # "none" =>
    \A i \in Slots : trashed[k][i] # {} =>
      \/ \E e \in DOMAIN journal[k].entries : journal[k].entries[e].slot = i
      \/ IsForeign(rm[k].todo[i])
=============================================================================
