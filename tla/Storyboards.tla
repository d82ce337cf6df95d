---------------------------- MODULE Storyboards -----------------------------
(***************************************************************************)
(* The clips of one storyboard: a row each, its position unique in the     *)
(* storyboard.  Pages move one clip up or down by sending the whole order  *)
(* they show, and add clips several at a time; a client of the API adds a  *)
(* clip with or without a position, or gives one another position.         *)
(*                                                                         *)
(* A reorder is one transaction of two loops, a statement per clip.  A     *)
(* statement locks its row first; a position that a transaction under way  *)
(* has taken, or whose clip it has taken hold of, is waited for.           *)
(***************************************************************************)
EXTENDS Integers, FiniteSets, Sequences, Functions

CONSTANTS
  Start,    \* the clips the storyboard starts with, or some first of them
  New,      \* the ids of clips added later
  Editors,  \* open pages of the storyboard
  None,
  Offset,   \* 1000000: where the first loop of a reorder puts the clips
  MaxMoves, \* bound: moves
  MaxAlien, \* bound: writes by others than the pages
  MaxPlace  \* bound: the positions a client of the API asks for

\* What the constants must be; assumed where the module is instantiated.
StoryboardsAssumption ==
  /\ Start \in Seq(Range(Start)) /\ IsInjective(Start) /\ IsFiniteSet(New) /\ Range(Start) \cap New = {}
  /\ None \notin Range(Start) \cup New \cup Editors \cup Int
  /\ {MaxMoves, MaxAlien, MaxPlace, Offset} \subseteq Nat
  /\ Offset > MaxPlace + Cardinality(Range(Start) \cup New) + 1 + (Cardinality(New) + MaxAlien) * (Cardinality(New) + 1)

VARIABLES
  place,   \* the committed position of each clip, or None
  hidden,  \* the clips whose object is deleted
  view,    \* the clips each page shows, in order
  tx,      \* the reorder of each page: its order, its statement, what it holds and wrote
  batch,   \* the clips each page is adding, where, and what came of it
  adding,  \* the clip a client of the API is adding, and where
  moves, alien,
  known,   \* history: pages that were loaded since the last change
  alone    \* history: pages whose writes met no other since the click

storyVars == <<place, hidden, view, tx, batch, adding, moves, alien, known, alone>>

Old == Range(Start)
Clips == Old \cup New
Live == {c \in Clips : place[c] # None}
Shown == Live \ hidden
NoTx == [at |-> "idle", order |-> <<>>, step |-> 0, wrote |-> [c \in {} |-> 0], held |-> {}]
Busy == {e \in Editors : tx[e].at = "writing"}

\* The clips of a set by their position: each after those that come before it.
Before(S, c) == {d \in S : place[d] < place[c]}
InOrder(S) == [i \in 1 .. Cardinality(S) |-> CHOOSE c \in S : Cardinality(Before(S, c)) = i - 1]
Highest(S) == IF S = {} THEN None ELSE place[InOrder(S)[Cardinality(S)]]

Init ==
  /\ \E n \in 0 .. Len(Start) :
       place = [c \in Clips |-> IF \E i \in 1 .. n : Start[i] = c THEN (CHOOSE i \in 1 .. n : Start[i] = c) - 1 ELSE None]
  /\ hidden = {}
  /\ view = [e \in Editors |-> <<>>] /\ tx = [e \in Editors |-> NoTx]
  /\ batch = [e \in Editors |-> <<>>] /\ adding = [clip |-> None, place |-> None]
  /\ moves = 0 /\ alien = 0 /\ known = {} /\ alone = {}

\* A committed change makes every page old, and meets the writes of the others.
Changed(e) == known' = {} /\ alone' = alone \cap {e}

-----------------------------------------------------------------------------
(* The table *)

\* A row that another transaction has updated.
Locked(e, c) == \E f \in Busy \ {e} : c \in tx[f].held

\* A position that another transaction has written or is leaving.
Contended(e, p) ==
  \E f \in Busy \ {e} : \/ \E c \in tx[f].held : place[c] = p
                        \/ \E c \in DOMAIN tx[f].wrote : tx[f].wrote[c] = p

\* The positions as a reorder sees and will leave them: those it wrote over
\* the committed ones.
Sees(e) == [c \in Clips |-> IF c \in DOMAIN tx[e].wrote THEN tx[e].wrote[c] ELSE place[c]]

\* A position that another row has, among those a statement sees.
Occupied(seen, c, p) == \E d \in Live \ {c} : seen[d] = p

-----------------------------------------------------------------------------
(* Moving *)

\* GET /storyboards/:id, which leaves out the clips of deleted objects.
Load(e) ==
  /\ e \notin known
  /\ view' = [view EXCEPT ![e] = InOrder(Shown)] /\ known' = known \cup {e}
  /\ UNCHANGED <<place, hidden, tx, batch, adding, moves, alien, alone>>

\* moveClip: a clip changes places with its neighbour.  The buttons are off
\* while a move is under way.
Move(e) ==
  /\ tx[e].at = "idle" /\ moves < MaxMoves
  /\ \E i \in 1 .. Len(view[e]) - 1 :
       tx' = [tx EXCEPT ![e] = [NoTx EXCEPT !.at = "check", !.order = [view[e] EXCEPT ![i] = view[e][i + 1], ![i + 1] = view[e][i]]]]
  /\ moves' = moves + 1
  /\ alone' = IF e \in known /\ batch[e] = <<>> /\ Live \cap hidden = {} THEN alone \cup {e} ELSE alone \ {e}
  /\ UNCHANGED <<place, hidden, view, batch, adding, alien, known>>

\* Every clip of the order must be one of the storyboard: 400 if not.
Check(e) ==
  /\ tx[e].at = "check"
  /\ tx' = [tx EXCEPT ![e].at = IF Range(tx[e].order) \subseteq Live THEN "writing" ELSE "refused"]
  /\ alone' = IF Busy = {} THEN alone ELSE {}
  /\ UNCHANGED <<place, hidden, view, batch, adding, moves, alien, known>>

\* Mutant: one loop, straight to the positions.
WritesInOneLoop(order) == [i \in DOMAIN order |-> <<order[i], i - 1>>]

\* Mutant: the second loop begins at the second clip.
WritesFromSecond(order) ==
  [i \in DOMAIN order |-> <<order[i], i - 1 + Offset>>] \o [i \in 1 .. Len(order) - 1 |-> <<order[i + 1], i>>]

\* The statements of a reorder: every clip out of the way, then into place.
Writes(order) ==
  [i \in DOMAIN order |-> <<order[i], i - 1 + Offset>>] \o [i \in DOMAIN order |-> <<order[i], i - 1>>]

Unfinished(e) == tx[e].at = "writing" /\ tx[e].step < Len(Writes(tx[e].order))
Clip(e) == Writes(tx[e].order)[tx[e].step + 1][1]
Target(e) == Writes(tx[e].order)[tx[e].step + 1][2]

\* The row of the statement; a clip deleted meanwhile is no row to update.
Lock(e) ==
  /\ Unfinished(e)
  /\ \/ Clip(e) \in Live \ tx[e].held /\ ~Locked(e, Clip(e)) /\ tx' = [tx EXCEPT ![e].held = @ \cup {Clip(e)}]
     \/ Clip(e) \notin Live /\ tx' = [tx EXCEPT ![e].step = @ + 1]
  /\ UNCHANGED <<place, hidden, view, batch, adding, moves, alien, known, alone>>

\* Its position, which the unique index must not have: the transaction is
\* rolled back and the answer is 500.
Place(e) ==
  /\ Unfinished(e) /\ Clip(e) \in tx[e].held /\ ~Contended(e, Target(e))
  /\ tx' = IF Occupied(Sees(e), Clip(e), Target(e))
           THEN [tx EXCEPT ![e] = [NoTx EXCEPT !.at = "failed"]]
           ELSE [tx EXCEPT ![e].step = @ + 1,
                           ![e].wrote = [c \in DOMAIN @ \cup {Clip(e)} |-> IF c = Clip(e) THEN Target(e) ELSE @[c]]]
  /\ UNCHANGED <<place, hidden, view, batch, adding, moves, alien, known, alone>>

Waits(e, f) ==
  /\ Unfinished(e) /\ f \in Busy \ {e}
  /\ \/ Clip(e) \in tx[f].held \ tx[e].held
     \/ Clip(e) \in tx[e].held
        /\ \/ \E c \in tx[f].held : place[c] = Target(e)
           \/ \E c \in DOMAIN tx[f].wrote : tx[f].wrote[c] = Target(e)

\* Two transactions that wait for one another: the database ends one.
Deadlock(e) ==
  /\ \E f \in Editors : Waits(e, f) /\ Waits(f, e)
  /\ tx' = [tx EXCEPT ![e] = [NoTx EXCEPT !.at = "failed"]]
  /\ UNCHANGED <<place, hidden, view, batch, adding, moves, alien, known, alone>>

Commit(e) ==
  /\ tx[e].at = "writing" /\ ~Unfinished(e)
  /\ place' = Sees(e)
  /\ tx' = [tx EXCEPT ![e].at = "moved", ![e].held = {}]
  /\ Changed(e)
  /\ UNCHANGED <<hidden, view, batch, adding, moves, alien>>

Answered(e) ==
  /\ tx[e].at \in {"moved", "failed", "refused"} /\ tx' = [tx EXCEPT ![e] = NoTx]
  /\ UNCHANGED <<place, hidden, view, batch, adding, moves, alien, known, alone>>

-----------------------------------------------------------------------------
(* Adding *)

Unused == {c \in New : place[c] = None /\ c # adding.clip /\ \A e \in Editors : \A i \in DOMAIN batch[e] : batch[e][i].clip # c}

\* handleAddClips: after the highest order the page shows, or after 0.
Orders(e, n) ==
  LET shown == Range(view[e]) \cap Live
  IN  [i \in 1 .. n |-> i + IF shown = {} THEN 0 ELSE Highest(shown)]

\* The selected clips, all requested at once.
AddClips(e) ==
  /\ batch[e] = <<>> /\ e \in known /\ Cardinality(Unused) > 1
  /\ \E s \in Injection(1 .. Cardinality(Unused), Unused) :
       batch' = [batch EXCEPT ![e] = [i \in DOMAIN s |-> [clip |-> s[i], order |-> Orders(e, Len(s))[i], at |-> "sent"]]]
  /\ alone' = IF tx[e].at = "idle" /\ Busy = {} /\ Live \cap hidden = {} THEN alone \cup {e} ELSE alone \ {e}
  /\ UNCHANGED <<place, hidden, view, tx, adding, moves, alien, known>>

\* POST .../clips stores the position after the one it is given.
Insert(e) ==
  /\ \E i \in DOMAIN batch[e] :
       LET it == batch[e][i]
       IN  /\ it.at = "sent" /\ ~Contended(None, it.order + 1)
           /\ IF Occupied(place, it.clip, it.order + 1)
              THEN batch' = [batch EXCEPT ![e][i].at = "failed"] /\ UNCHANGED <<place, known, alone>>
              ELSE /\ batch' = [batch EXCEPT ![e][i].at = "added"]
                   /\ place' = [place EXCEPT ![it.clip] = it.order + 1] /\ Changed(e)
  /\ UNCHANGED <<hidden, view, tx, adding, moves, alien>>

\* All answered: the selection is dropped unless one failed.
BatchEnds(e) ==
  /\ batch[e] # <<>> /\ \A i \in DOMAIN batch[e] : batch[e][i].at # "sent"
  /\ batch' = [batch EXCEPT ![e] = <<>>]
  /\ UNCHANGED <<place, hidden, view, tx, adding, moves, alien, known, alone>>

-----------------------------------------------------------------------------
(* A client of the API, and the object's own delete *)

Alien == alien < MaxAlien /\ alien' = alien + 1

\* POST .../clips: the position asked for, or the highest there is.
Asks ==
  /\ Alien /\ adding.clip = None
  /\ \E c \in Unused, p \in 0 .. MaxPlace \cup {None} :
       adding' = [clip |-> c, place |-> IF p # None THEN p ELSE IF Live = {} THEN -1 ELSE Highest(Live)]
  /\ UNCHANGED <<place, hidden, view, tx, batch, moves, known, alone>>

Gets ==
  /\ adding.clip # None /\ ~Contended(None, adding.place + 1)
  /\ IF Occupied(place, adding.clip, adding.place + 1) THEN UNCHANGED <<place, known, alone>>
     ELSE place' = [place EXCEPT ![adding.clip] = adding.place + 1] /\ Changed(None)
  /\ adding' = [clip |-> None, place |-> None]
  /\ UNCHANGED <<hidden, view, tx, batch, moves, alien>>

\* PUT and DELETE .../clips/:clipId wait for the row.
PutClip ==
  /\ Alien
  /\ \E c \in Live, p \in 0 .. MaxPlace :
       /\ ~Locked(None, c) /\ ~Contended(None, p)
       /\ IF Occupied(place, c, p) THEN UNCHANGED <<place, known, alone>>
          ELSE place' = [place EXCEPT ![c] = p] /\ Changed(None)
  /\ UNCHANGED <<hidden, view, tx, batch, adding, moves>>

DeleteClip ==
  /\ Alien
  /\ \E c \in Live : ~Locked(None, c) /\ place' = [place EXCEPT ![c] = None]
  /\ Changed(None)
  /\ UNCHANGED <<hidden, view, tx, batch, adding, moves>>

\* The object is deleted: its clips stay, and are shown no more.
Hide ==
  /\ Alien /\ \E c \in Shown : hidden' = hidden \cup {c}
  /\ Changed(None)
  /\ UNCHANGED <<place, view, tx, batch, adding, moves>>

-----------------------------------------------------------------------------
Requests(e) == Check(e) \/ Lock(e) \/ Place(e) \/ Deadlock(e) \/ Commit(e) \/ Answered(e) \/ Insert(e) \/ BatchEnds(e)

Next ==
  \/ \E e \in Editors : Load(e) \/ Move(e) \/ AddClips(e) \/ Requests(e)
  \/ Asks \/ Gets \/ PutClip \/ DeleteClip \/ Hide

\* The database and the API go on with what was requested.
Fairness == WF_storyVars(Gets) /\ \A e \in Editors : WF_storyVars(Requests(e))

Spec == Init /\ [][Next]_storyVars /\ Fairness

-----------------------------------------------------------------------------
TypeOK ==
  /\ place \in [Clips -> 0 .. Offset + Cardinality(Clips) \cup {None}]
  /\ hidden \subseteq Clips /\ known \subseteq Editors /\ alone \subseteq Editors
  /\ \A e \in Editors :
       /\ Range(view[e]) \subseteq Clips
       /\ tx[e].at \in {"idle", "check", "writing", "moved", "failed", "refused"}
       /\ tx[e].held \subseteq Clips /\ DOMAIN tx[e].wrote \subseteq Clips
  /\ moves \in 0 .. MaxMoves /\ alien \in 0 .. MaxAlien

\* The move of a page that shows the storyboard as it is, while nobody else
\* writes, is not refused and does not fail: the clips of its order cannot
\* get in one another's way (storyboards.ts:157-166).
CurrentViewMoves == \A e \in alone : tx[e].at \notin {"failed", "refused"}

\* Clips added from a page that shows the storyboard as it is, while nobody
\* else writes, all come after the clips it shows, in the order in which
\* they were selected, whichever request is served first.
AddsAppend ==
  \A e \in alone : \A i \in DOMAIN batch[e] :
    /\ batch[e][i].at # "failed"
    /\ batch[e][i].at = "added" =>
         /\ \A c \in Range(view[e]) \cap Old : place[c] < place[batch[e][i].clip]
         /\ \A j \in 1 .. i - 1 : batch[e][j].at = "added" => place[batch[e][j].clip] < place[batch[e][i].clip]

\* A reorder that is answered with success has put its clips in the order
\* it names, but for those deleted meanwhile, all of them or none: no reorder,
\* insert or position that ran meanwhile is mixed into it ("atomically",
\* storyboards.ts:157).
MoveTakesEffect ==
  [][\A e \in Editors : tx[e].at = "writing" /\ tx'[e].at = "moved" =>
       LET left == {i \in DOMAIN tx[e].order : place'[tx[e].order[i]] # None}
       IN  \A i, j \in left : i < j => place'[tx[e].order[i]] < place'[tx[e].order[j]]]_storyVars

\* Every move is answered: reorders that wait for one another's rows or
\* positions do not wait for ever.
MovesEnd == []<>(\A e \in Editors : tx[e].at = "idle")
=============================================================================
