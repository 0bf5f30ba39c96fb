----------------------------- MODULE LevelBoard -----------------------------
(***************************************************************************)
(* What the level editor promises its user: the items on the board are     *)
(* what a save writes and what opening the file shows again, and an edit   *)
(* changes one item.  The promise is off while the level is mixed up, that *)
(* is while one item stands for several.                                   *)
(***************************************************************************)
EXTENDS Naturals, Sequences, FiniteSets

CONSTANTS
  Kinds,     \* kinds of items
  Value,     \* where an item is and what it looks like
  Nothing,   \* no board: no level is open; no file: none was saved
  Blank      \* the items of a new level

VARIABLES
  board,     \* the items of each kind the user sees
  file,      \* the items of each kind the file holds
  mixedUp    \* the promise is off

vars == <<board, file, mixedUp>>

(* The same items, in whatever order.                                      *)
Count(s, v) == Cardinality({i \in 1 .. Len(s) : s[i] = v})

SameItems(b, c) ==
  \A k \in Kinds :
     /\ Len(b[k]) = Len(c[k])
     /\ \A i \in 1 .. Len(b[k]) : Count(b[k], b[k][i]) = Count(c[k], b[k][i])

Init == board = Nothing /\ file = Nothing /\ mixedUp = FALSE

Place(k) ==
  /\ \E v \in Value : board' = [board EXCEPT ![k] = Append(@, v)]
  /\ UNCHANGED file

Edit(k) ==
  /\ board' # Nothing
  /\ \A other \in Kinds \ {k} : board'[other] = board[other]
  /\ Len(board'[k]) = Len(board[k])
  /\ \E i \in 1 .. Len(board[k]) :
        \A j \in 1 .. Len(board[k]) \ {i} : board'[k][j] = board[k][j]
  /\ UNCHANGED file

Leave == board' = Nothing /\ UNCHANGED file

Save ==
  /\ board' \in {board, Nothing}
  /\ file' # Nothing /\ SameItems(file', board)

Open ==
  /\ board = Nothing /\ board' # Nothing
  /\ SameItems(board', IF file = Nothing THEN Blank ELSE file)
  /\ UNCHANGED file

(* The items are laid out anew.                                            *)
Redraw == board' # Nothing /\ SameItems(board', board) /\ UNCHANGED file

Promised ==
  \/ Open
  \/ /\ board # Nothing
     /\ (\E k \in Kinds : Edit(k) \/ Place(k)) \/ Save \/ Leave \/ Redraw

Spec == Init /\ [][mixedUp \/ mixedUp' \/ Promised]_vars
=============================================================================
