---------------------------- MODULE ChannelSwitch ----------------------------
(* What an installed client relies on when it follows a channel: the channel  *)
(* selects one system release together with one OPR release, a step replaces  *)
(* the selection of one channel in a single move, and no step brings back a   *)
(* system release, nor an OPR release that another one of its lane, or one    *)
(* for another system release, has replaced.                                  *)
EXTENDS Naturals

CONSTANTS Channels, Null

VARIABLES
  published,   \* per channel, the selected pair, the lane of its OPR release and
               \* its sequence number, or Null
  selected     \* every pair a channel has ever selected

Pair(selection) == <<selection.system, selection.opr>>
Sequence(c) == IF published[c] = Null THEN 0 ELSE published[c].sequence
Keeps(c, system) == published[c] # Null /\ published[c].system = system
Within(c, new) == new.opr = published[c].opr \/ new.lane # published[c].lane
NewSystem(system) == \A p \in selected : p[1] # system
NewOpr(opr) == \A p \in selected : p[2] # opr

Init == \A c \in Channels : published[c] # Null => Pair(published[c]) \in selected

(* A channel moves to a system and an OPR release nobody has seen, keeps its  *)
(* system and moves to a new OPR release, renews the pair it has, or returns  *)
(* to a pair of its system whose OPR release is of another lane.              *)
Move(c) ==
  LET new == published'[c]
  IN  /\ published' = [published EXCEPT ![c] = new]
      /\ new.sequence = Sequence(c) + 1
      /\ selected' = selected \cup {Pair(new)}
      /\ \/ NewSystem(new.system) /\ NewOpr(new.opr)
         \/ Keeps(c, new.system) /\ NewOpr(new.opr)
         \/ Keeps(c, new.system) /\ Pair(new) \in selected /\ Within(c, new)

Next == \E c \in Channels : Move(c)

Spec == Init /\ [][Next]_<<published, selected>>
=============================================================================
