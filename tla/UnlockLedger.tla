---------------------------- MODULE UnlockLedger ----------------------------
(***************************************************************************)
(* What the campaign promises about the levels a player has unlocked, told *)
(* without files, handlers or screens: a durable set of levels that only   *)
(* ever grows, opened once at one starting level and extended afterwards   *)
(* by levels that directly follow (by level number) one already unlocked.  *)
(* One thing breaks it: an app that could not read what was unlocked opens *)
(* another set in its place with its first save.                           *)
(***************************************************************************)
EXTENDS Naturals

CONSTANTS
  Levels,   \* the campaign levels, by uuid
  number    \* the number each of them carries in its metadata

VARIABLES
  unlocked,  \* the levels unlocked, durably
  unread     \* the app runs without having read them

Follows(m, l) == number[l] = number[m] + 1

Init == unlocked = {} /\ unread = FALSE

(* The app starts, having read what is unlocked or not, or ends.           *)
Launch ==
  /\ unread' \in BOOLEAN
  /\ UNCHANGED unlocked

(* The first save of a campaign: one starting level and levels after it;   *)
(* none at all, if a level outside the campaign is all there is to save.   *)
Open(S) ==
  /\ unlocked = {} \/ unread
  /\ S # {} =>
       \E start \in S : \A l \in S \ {start} : \E m \in S : Follows(m, l)
  /\ unlocked' = S
  /\ unread' = FALSE

(* Every later save: each new level follows a level that is unlocked too.  *)
Extend(S) ==
  /\ unlocked \subseteq S
  /\ \A l \in S \ unlocked : \E m \in S : Follows(m, l)
  /\ unlocked' = S
  /\ UNCHANGED unread

Next == Launch \/ \E S \in SUBSET Levels : Open(S) \/ Extend(S)

Spec == Init /\ [][Next]_<<unlocked, unread>>
=============================================================================
